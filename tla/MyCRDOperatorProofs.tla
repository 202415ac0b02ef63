--------------------------- MODULE MyCRDOperatorProofs -------------------------
(***************************************************************************)
(* Proofs about MyCRDOperator for every set of specs and every bound: that *)
(* nothing is stolen, the types, that no work is lost when the controller  *)
(* comes to rest, and that orphans can be collected.                       *)
(***************************************************************************)
EXTENDS MyCRDOperator, SequenceTheorems, TLAPS

(* The mutate function let the version through that the update will name. *)
UpdatesWereAllowed == pc = "update" => read.owner \in {NoOwner, my.uid}

LEMMA InitKeeps == Init => UpdatesWereAllowed
BY DEF Init, UpdatesWereAllowed

(* Who writes to Reconcile's place and to what it read. *)
LEMMA NextKeeps == UpdatesWereAllowed /\ [Next]_vars => UpdatesWereAllowed'
<1> SUFFICES ASSUME UpdatesWereAllowed, [Next]_vars PROVE UpdatesWereAllowed'
  OBVIOUS
<1> USE DEF UpdatesWereAllowed
<1>1. CASE UNCHANGED worker \/ Return
  BY <1>1 DEF worker, Return
<1>2. CASE UNCHANGED vars
  BY <1>1, <1>2 DEF vars, worker
<1>3. CASE Reconcile
  <2>1. CASE GetMyCRD
    BY <2>1 DEF GetMyCRD, worker
  <2>2. CASE GetDeployment
    BY <2>2 DEF GetDeployment, Error, Return, NoDep
  <2>3. CASE CreateDeployment \/ UpdateDeployment
    BY <2>3 DEF CreateDeployment, UpdateDeployment, Error, Return
  <2>4. CASE ReadStatus \/ WriteStatus
    BY <2>4 DEF ReadStatus, WriteStatus, Done, Error, Return
  <2> QED BY <1>3, <2>1, <2>2, <2>3, <2>4 DEF Reconcile
<1>4. CASE Hear \/ CollectGarbage \/ FinishDeletion \/ PodsStart
  BY <1>1, <1>4 DEF Hear, HearMyCRD, HearDeployment, CollectGarbage, FinishDeletion, PodsStart
<1>5. CASE Environment
  BY <1>1, <1>5 DEF Environment, Restart, CallFails, Error
<1> QED BY <1>2, <1>3, <1>4, <1>5 DEF Next

(* Reconcile leaves a place where it writes only by writing, failing or    *)
(* restarting.                                                             *)
LEMMA StepIsRightful ==
    UpdatesWereAllowed /\ [Next]_vars
      => [(pc \in {"create", "update"} /\ pc' # pc /\ dep' # dep /\ dep.there)
            => (dep.owner \in {NoOwner, my.uid} /\ dep.selectsUs)]_vars
<1> SUFFICES ASSUME UpdatesWereAllowed, Next, pc \in {"create", "update"},
                    pc' # pc, dep' # dep, dep.there
             PROVE  dep.owner \in {NoOwner, my.uid} /\ dep.selectsUs
  OBVIOUS
<1>1. CASE Reconcile
  <2>1. CreateDeployment \/ UpdateDeployment
    BY <1>1 DEF Reconcile, GetMyCRD, GetDeployment, ReadStatus, WriteStatus
  <2>2. ~CreateDeployment
    BY DEF CreateDeployment, Creatable, depVars
  <2>3. pc = "update" /\ dep = read /\ dep.selectsUs
    BY <2>1, <2>2 DEF UpdateDeployment, Updatable, depVars
  <2> QED BY <2>3 DEF UpdatesWereAllowed
<1>2. CASE Environment
  <2>1. CallFails
    BY <1>2 DEF Environment, worker, Restart
  <2>2. pc = "update" /\ Updatable
    BY <2>1 DEF CallFails, Creatable, depVars
  <2> QED BY <2>2 DEF Updatable, UpdatesWereAllowed
<1> QED BY <1>1, <1>2
        DEF Next, Hear, HearMyCRD, HearDeployment, CollectGarbage, FinishDeletion, PodsStart, worker

--------------------------------------------------------------------------------
(* Reconcile never takes a Deployment from another controller, whatever its  *)
(* caches missed between the read and the write.                             *)
THEOREM NothingIsStolen == Spec => NeverSteals
BY InitKeeps, NextKeeps, StepIsRightful, PTL DEF Spec, NeverSteals

--------------------------------------------------------------------------------
(* An edit counts against MaxOps, and a stored template is one that the API  *)
(* server accepted.  Reconcile goes on only with an object that exists.      *)
CRs == CR \cup {NoCR}
Deps == Dep \cup {NoDep}
Sensible(d) == Valid(d.template)

TypeInv ==
    /\ TypeOK
    /\ cr # NoCR => cr.gen <= ops + 1
    /\ Sensible(dep)
    /\ pc # "idle" => my # NoCR

LEMMA NothingIsTyped ==
    /\ NoCR.uid = 0 /\ NoCR.spec = Blank /\ NoCR.status = 0 /\ NoCR \notin CR
    /\ ~NoDep.there /\ NoDep.owner = NoOwner /\ NoDep \notin Dep
    /\ NoDep.template = Desired(Blank) /\ NoDep.available = 0
    /\ Blank \in CRSpec
BY DEF NoCR, CR, Uid, NoDep, Dep, Blank, CRSpec

LEMMA DesiredIsATemplate ==
    ASSUME NEW spec \in CRSpec
    PROVE  Desired(spec) \in Template
BY DEF Desired, CRSpec, Template

LEMMA BlankIsValid == Valid(Desired(Blank))
BY OperatorAssumption DEF Valid, Desired, Blank

(* The number of pods a valid template asks for can be available. *)
LEMMA ValidIsAvailable ==
    ASSUME NEW t \in Template, Valid(t)
    PROVE  t.replicas \in Available
BY OperatorAssumption DEF Template, Valid, Available

LEMMA PutCRKeeps ==
    ASSUME TypeInv, NEW new \in CRs, PutCR(new)
    PROVE  cr' \in CRs /\ crWatch' \in Seq(CRs)
<1>1. crWatch \in Seq(CRs)
  BY DEF TypeInv, TypeOK, CRs
<1>2. Append(crWatch, new) \in Seq(CRs)
  BY <1>1
<1> QED BY <1>1, <1>2 DEF PutCR

LEMMA PutDepKeeps ==
    ASSUME TypeInv, NEW new \in Deps, Sensible(new), PutDep(new)
    PROVE  dep' \in Deps /\ depWatch' \in Seq(Deps) /\ Sensible(dep')
<1>1. depWatch \in Seq(Deps)
  BY DEF TypeInv, TypeOK, Deps
<1>2. Append(depWatch, new) \in Seq(Deps)
  BY <1>1
<1> QED BY <1>1, <1>2 DEF PutDep

(* What Reconcile puts. *)
LEMMA WritesAreTyped ==
    ASSUME TypeInv, pc # "idle"
    PROVE  /\ Creatable /\ Created
                => dep' \in Deps /\ depWatch' \in Seq(Deps) /\ Sensible(dep')
           /\ Updatable /\ Updated
                => dep' \in Deps /\ depWatch' \in Seq(Deps) /\ Sensible(dep')
           /\ cr = my /\ PutCR([cr EXCEPT !.status = read.available])
                => /\ cr' \in CRs /\ crWatch' \in Seq(CRs)
                   /\ cr' # NoCR => cr'.gen <= ops + 1
<1>1. my \in CR /\ my.uid \in Uid /\ my.spec \in CRSpec
  BY DEF TypeInv, TypeOK, CR
<1>2. Desired(my.spec) \in Template
  BY <1>1, DesiredIsATemplate
<1>3. ASSUME Creatable, Created
      PROVE  dep' \in Deps /\ depWatch' \in Seq(Deps) /\ Sensible(dep')
  <2> DEFINE new == [there |-> TRUE, owner |-> my.uid, template |-> Desired(my.spec),
                     available |-> 0, selectsUs |-> TRUE, made |-> TRUE]
  <2>1. new \in Deps /\ Sensible(new) /\ PutDep(new)
    BY <1>1, <1>2, <1>3 DEF Creatable, Created, Deps, Dep, Sensible, Available
  <2> HIDE DEF new
  <2> QED BY <2>1, PutDepKeeps
<1>4. ASSUME Updatable, Updated
      PROVE  dep' \in Deps /\ depWatch' \in Seq(Deps) /\ Sensible(dep')
  <2> DEFINE new == [dep EXCEPT !.owner = my.uid, !.template = Desired(my.spec)]
  <2>1. dep \in Dep
    BY <1>4, NothingIsTyped DEF Updatable, TypeInv, TypeOK
  <2>2. new \in Deps /\ Sensible(new) /\ PutDep(new)
    BY <1>1, <1>2, <1>4, <2>1 DEF Updatable, Updated, Deps, Dep, Sensible
  <2> HIDE DEF new
  <2> QED BY <2>2, PutDepKeeps
<1>5. ASSUME cr = my, PutCR([cr EXCEPT !.status = read.available])
      PROVE  /\ cr' \in CRs /\ crWatch' \in Seq(CRs)
             /\ cr' # NoCR => cr'.gen <= ops + 1
  <2> DEFINE new == [cr EXCEPT !.status = read.available]
  <2>1. read.available \in Available
    BY NothingIsTyped DEF TypeInv, TypeOK, Dep, Available
  <2>2. new \in CRs /\ new.gen = cr.gen /\ cr # NoCR
    BY <1>1, <1>5, <2>1, NothingIsTyped DEF CRs, CR
  <2>3. PutCR(new)
    BY <1>5
  <2> HIDE DEF new
  <2>4. cr' = new
    BY <2>3 DEF PutCR
  <2> QED BY <2>2, <2>3, <2>4, PutCRKeeps DEF TypeInv
<1> QED BY <1>3, <1>4, <1>5

LEMMA WatchesAreTyped ==
    ASSUME TypeInv
    PROVE  crWatch \in Seq(CRs) /\ depWatch \in Seq(Deps)
BY DEF TypeInv, TypeOK, CRs, Deps

LEMMA EmptyWatches == <<>> \in Seq(CRs) /\ <<>> \in Seq(Deps)
OBVIOUS

LEMMA ReconcileKeepsTypes ==
    ASSUME TypeInv, Reconcile
    PROVE  TypeInv'
<1> USE DEF TypeInv, TypeOK, CRs, Deps, objects, crVars, depVars, caches, worker
<1>1. NoCR \in CRs /\ NoDep \in Deps
  OBVIOUS
<1>2. CASE GetMyCRD
  BY <1>2 DEF GetMyCRD
<1>3. CASE GetDeployment
  BY <1>3 DEF GetDeployment, Error, Return
<1>4. CASE CreateDeployment
  BY <1>4, WritesAreTyped DEF CreateDeployment, Error, Return
<1>5. CASE UpdateDeployment
  BY <1>5, WritesAreTyped DEF UpdateDeployment, Error, Return
<1>6. CASE ReadStatus
  BY <1>6 DEF ReadStatus, Done, Error, Return
<1>7. CASE WriteStatus
  BY <1>7, WritesAreTyped DEF WriteStatus, Done, Error, Return
<1> QED BY <1>2, <1>3, <1>4, <1>5, <1>6, <1>7 DEF Reconcile

LEMMA HearKeepsTypes ==
    ASSUME TypeInv, Hear
    PROVE  TypeInv'
<1>1. crWatch # <<>> => Head(crWatch) \in CRs /\ Tail(crWatch) \in Seq(CRs)
  BY WatchesAreTyped
<1>2. depWatch # <<>> => Head(depWatch) \in Deps /\ Tail(depWatch) \in Seq(Deps)
  BY WatchesAreTyped
<1>3. CASE HearMyCRD
  BY <1>1, <1>3 DEF HearMyCRD, TypeInv, TypeOK, CRs, depVars, worker
<1>4. CASE HearDeployment
  BY <1>2, <1>4 DEF HearDeployment, TypeInv, TypeOK, Deps, crVars, worker
<1> QED BY <1>3, <1>4 DEF Hear

(* The cluster's own controllers. *)
LEMMA FinishDeletionKeepsTypes ==
    ASSUME TypeInv, FinishDeletion
    PROVE  TypeInv'
<1>1. PutCR(NoCR) /\ NoCR \in CRs /\ UNCHANGED <<depVars, uids, caches, queued, worker, ops>>
  BY DEF FinishDeletion, CRs
<1>2. cr' \in CRs /\ crWatch' \in Seq(CRs) /\ cr' = NoCR
  BY <1>1, PutCRKeeps DEF PutCR
<1> QED BY <1>1, <1>2 DEF TypeInv, TypeOK, CRs, depVars, caches, worker

LEMMA ClusterKeepsTypes ==
    ASSUME TypeInv, CollectGarbage \/ PodsStart
    PROVE  TypeInv'
<1>1. PICK new \in Deps :
        /\ Sensible(new) /\ PutDep(new)
        /\ UNCHANGED <<crVars, uids, caches, queued, worker, ops>>
  <2>1. CASE CollectGarbage
    BY <2>1, NothingIsTyped, BlankIsValid DEF CollectGarbage, Deps, Sensible
  <2>2. CASE PodsStart
    <3> DEFINE new == [dep EXCEPT !.available = dep.template.replicas]
    <3>1. dep \in Dep
      BY <2>2, NothingIsTyped DEF PodsStart, TypeInv, TypeOK
    <3>2. dep.template.replicas \in Available
      BY <3>1, ValidIsAvailable DEF Dep, TypeInv, Sensible
    <3>3. new \in Deps /\ Sensible(new)
      BY <3>1, <3>2 DEF Deps, Dep, Sensible, TypeInv
    <3>4. PutDep(new) /\ UNCHANGED <<crVars, uids, caches, queued, worker, ops>>
      BY <2>2 DEF PodsStart
    <3> HIDE DEF new
    <3> QED BY <3>3, <3>4
  <2> QED BY <2>1, <2>2
<1>2. dep' \in Deps /\ depWatch' \in Seq(Deps) /\ Sensible(dep')
  BY <1>1, PutDepKeeps
<1> QED BY <1>1, <1>2 DEF TypeInv, TypeOK, Deps, crVars, caches, worker

LEMMA BoundsAreNumbers == MaxOps \in Nat /\ MaxUid \in Nat \ {0}
BY OperatorAssumption

LEMMA CountersAreNumbers ==
    ASSUME TypeInv
    PROVE  /\ ops \in Nat /\ uids \in 0 .. MaxUid
           /\ cr \in CRs
           /\ cr # NoCR => cr \in CR /\ cr.gen \in Nat \ {0} /\ cr.gen <= ops + 1
<1>1. ops \in 0 .. MaxOps /\ uids \in 0 .. MaxUid /\ cr \in CRs
  BY DEF TypeInv, TypeOK, CRs
<1>2. cr # NoCR => cr \in CR /\ cr.gen <= ops + 1
  BY <1>1 DEF TypeInv, CRs
<1>3. \A c \in CR : c.gen \in 1 .. (MaxOps + 1)
  BY DEF CR
<1> QED BY <1>1, <1>2, <1>3, BoundsAreNumbers

(* Restarts, lost answers and the users. *)
LEMMA EnvironmentKeepsTypes ==
    ASSUME TypeInv, Environment
    PROVE  TypeInv'
<1> DEFINE crKept == /\ cr' \in CRs /\ crWatch' \in Seq(CRs)
                     /\ cr' # NoCR => cr'.gen <= ops' + 1
           depKept == dep' \in Deps /\ depWatch' \in Seq(Deps) /\ Sensible(dep')
           restKept == /\ crCache' \in CRs /\ depCache' \in Deps
                       /\ my' \in CRs /\ read' \in Deps
                       /\ queued' \in BOOLEAN /\ uids' \in 0 .. MaxUid
                       /\ pc' \in {"idle", "get deployment", "create", "update",
                                   "read status", "write status"}
                       /\ pc' # "idle" => my' # NoCR
<1>0. ops' = ops + 1 /\ ops \in Nat /\ ops' \in 0 .. MaxOps
  BY CountersAreNumbers, BoundsAreNumbers DEF Environment
<1>1. NoCR \in CRs /\ NoDep \in Deps
  BY DEF CRs, Deps
<1>2. UNCHANGED crVars => crKept
  BY <1>0, CountersAreNumbers, WatchesAreTyped DEF crVars
<1>3. UNCHANGED depVars => depKept
  BY DEF depVars, TypeInv, TypeOK, Deps
<1>4. UNCHANGED <<uids, caches, queued, worker>> => restKept
  BY DEF caches, worker, TypeInv, TypeOK, CRs, Deps
<1>5. CASE Restart
  <2>1. crKept
    BY <1>0, <1>5, CountersAreNumbers, EmptyWatches DEF Restart
  <2>2. depKept
    BY <1>5, EmptyWatches DEF Restart, TypeInv, TypeOK, Deps
  <2>3. restKept
    BY <1>1, <1>5 DEF Restart, Return, TypeInv, TypeOK, CRs, Deps
  <2> QED BY <1>0, <2>1, <2>2, <2>3 DEF TypeInv, TypeOK, CRs, Deps
<1>6. CASE CallFails
  <2>1. restKept
    BY <1>1, <1>6 DEF CallFails, Error, Return, caches, TypeInv, TypeOK, CRs, Deps
  <2>2. crKept
    <3>1. CASE UNCHANGED crVars
      BY <1>2, <3>1
    <3>2. CASE /\ pc = "write status" /\ cr = my
               /\ PutCR([cr EXCEPT !.status = read.available])
      <4>1. /\ cr' \in CRs /\ crWatch' \in Seq(CRs)
            /\ cr' # NoCR => cr'.gen <= ops + 1
        BY <3>2, WritesAreTyped
      <4>2. cr' # NoCR => cr'.gen \in Int
        BY <4>1, BoundsAreNumbers DEF CRs, CR
      <4> QED BY <1>0, <4>1, <4>2
    <3> QED BY <1>6, <3>1, <3>2 DEF CallFails
  <2>3. depKept
    BY <1>3, <1>6, WritesAreTyped DEF CallFails
  <2> QED BY <1>0, <2>1, <2>2, <2>3 DEF TypeInv, TypeOK, CRs, Deps
<1>7. CASE /\ UNCHANGED <<caches, queued, worker, depVars>>
           /\ CreateMyCRD \/ EditMyCRD \/ DeleteMyCRD
  <2>1. PICK new \in CRs : PutCR(new) /\ (new # NoCR => new.gen <= ops' + 1)
    <3>1. CASE CreateMyCRD
      <4>1. PICK spec \in CRSpec :
              PutCR(NewCR(uids', spec))
        BY <3>1 DEF CreateMyCRD
      <4> DEFINE new == NewCR(uids', spec)
      <4>2. uids' \in 1 .. MaxUid
        BY <3>1, CountersAreNumbers, BoundsAreNumbers DEF CreateMyCRD
      <4>3. 1 \in 1 .. (MaxOps + 1) /\ 1 <= ops' + 1
        BY <1>0, BoundsAreNumbers
      <4>4. new \in CRs /\ new.gen = 1
        BY <4>2, <4>3 DEF CRs, CR, Uid, Available, NewCR
      <4> QED BY <4>1, <4>3, <4>4
    <3>2. CASE EditMyCRD
      <4>1. cr \in CR /\ cr.gen \in Nat \ {0} /\ cr.gen <= ops + 1
        BY <3>2, CountersAreNumbers DEF EditMyCRD
      <4>2. PICK spec \in CRSpec : PutCR([cr EXCEPT !.spec = spec, !.gen = @ + 1])
        BY <3>2 DEF EditMyCRD
      <4> DEFINE new == [cr EXCEPT !.spec = spec, !.gen = @ + 1]
      <4>3. cr.gen + 1 \in 1 .. (MaxOps + 1) /\ cr.gen + 1 <= ops' + 1
        BY <1>0, <4>1, BoundsAreNumbers
      <4>4. new \in CRs /\ new.gen = cr.gen + 1
        BY <4>1, <4>3 DEF CRs, CR
      <4> QED BY <4>2, <4>3, <4>4
    <3>3. CASE DeleteMyCRD
      <4>1. CASE PutCR(NoCR)
        BY <1>1, <4>1
      <4>2. CASE PutCR([cr EXCEPT !.deleting = TRUE, !.gen = @ + 1])
        <5>1. cr \in CR /\ cr.gen \in Nat \ {0} /\ cr.gen <= ops + 1
          BY <3>3, CountersAreNumbers DEF DeleteMyCRD
        <5> DEFINE new == [cr EXCEPT !.deleting = TRUE, !.gen = @ + 1]
        <5>2. cr.gen + 1 \in 1 .. (MaxOps + 1) /\ cr.gen + 1 <= ops' + 1
          BY <1>0, <5>1, BoundsAreNumbers
        <5>3. new \in CRs /\ new.gen = cr.gen + 1
          BY <5>1, <5>2 DEF CRs, CR
        <5> QED BY <4>2, <5>2, <5>3
      <4> QED BY <3>3, <4>1, <4>2 DEF DeleteMyCRD
    <3> QED BY <1>7, <3>1, <3>2, <3>3
  <2>2. crKept
    BY <2>1, PutCRKeeps DEF PutCR
  <2>3. uids' \in 0 .. MaxUid
    <3>1. CASE CreateMyCRD
      BY <3>1, CountersAreNumbers, BoundsAreNumbers DEF CreateMyCRD
    <3>2. CASE EditMyCRD \/ DeleteMyCRD
      BY <3>2, CountersAreNumbers DEF EditMyCRD, DeleteMyCRD
    <3> QED BY <1>7, <3>1, <3>2
  <2>4. restKept
    BY <1>7, <2>3 DEF caches, worker, TypeInv, TypeOK, CRs, Deps
  <2> QED BY <1>0, <1>3, <1>7, <2>2, <2>4 DEF TypeInv, TypeOK, CRs, Deps
<1>8. CASE /\ UNCHANGED <<caches, queued, worker, crVars, uids>>
           /\ EditDeployment \/ CreateForeign
  <2>1. PICK new \in Deps : Sensible(new) /\ PutDep(new)
    <3>1. CASE EditDeployment
      <4>1. dep \in Dep /\ Sensible(dep)
        BY <3>1, NothingIsTyped DEF EditDeployment, TypeInv, TypeOK
      <4>2. CASE \E t \in Template : Valid(t) /\ PutDep([dep EXCEPT !.template = t])
        <5>1. \A t \in Template : [dep EXCEPT !.template = t] \in Deps
                                  /\ [dep EXCEPT !.template = t].template = t
          BY <4>1 DEF Deps, Dep
        <5> QED BY <4>2, <5>1 DEF Sensible
      <4>3. CASE PutDep([dep EXCEPT !.available = 0])
        <5>1. [dep EXCEPT !.available = 0] \in Deps
              /\ Sensible([dep EXCEPT !.available = 0])
          BY <4>1 DEF Deps, Dep, Sensible, Available
        <5> QED BY <4>3, <5>1
      <4>4. CASE PutDep(NoDep)
        BY <1>1, <4>4, NothingIsTyped, BlankIsValid DEF Sensible
      <4> QED BY <3>1, <4>2, <4>3, <4>4 DEF EditDeployment
    <3>2. CASE CreateForeign
      <4>1. PICK owner \in {NoOwner, OtherOwner}, selectsUs \in BOOLEAN :
              PutDep([NoDep EXCEPT !.there = TRUE, !.owner = owner,
                                   !.selectsUs = selectsUs])
        BY <3>2 DEF CreateForeign
      <4> DEFINE new == [NoDep EXCEPT !.there = TRUE, !.owner = owner,
                                      !.selectsUs = selectsUs]
      <4>2. Desired(Blank) \in Template
        BY DesiredIsATemplate, NothingIsTyped
      <4>3. new \in Deps /\ Sensible(new)
        BY <4>2, BlankIsValid DEF Deps, Dep, NoDep, Sensible, Available
      <4> QED BY <4>1, <4>3
    <3> QED BY <1>8, <3>1, <3>2
  <2>2. depKept
    BY <2>1, PutDepKeeps
  <2>3. crKept /\ restKept
    BY <1>2, <1>4, <1>8
  <2> QED BY <1>0, <2>2, <2>3 DEF TypeInv, TypeOK, CRs, Deps
<1> QED BY <1>5, <1>6, <1>7, <1>8
        DEF Environment, CreateMyCRD, EditMyCRD, DeleteMyCRD, EditDeployment,
            CreateForeign, crVars, depVars

LEMMA TypesStart == Init => TypeInv
<1> SUFFICES ASSUME Init PROVE TypeInv
  OBVIOUS
<1>1. cr \in CRs /\ uids \in 0 .. MaxUid /\ (cr # NoCR => cr.gen = 1)
  <2>1. CASE cr = NoCR /\ uids = 0
    BY <2>1, BoundsAreNumbers DEF CRs
  <2>2. CASE cr \in {NewCR(1, spec) : spec \in CRSpec} /\ uids = 1
    <3>1. PICK spec \in CRSpec : cr = NewCR(1, spec)
      BY <2>2
    <3>2. 1 \in Uid /\ 1 \in 1 .. (MaxOps + 1) /\ 0 \in Available /\ uids \in 0 .. MaxUid
      BY <2>2, BoundsAreNumbers DEF Uid, Available
    <3> QED BY <3>1, <3>2 DEF CRs, CR, NewCR
  <2> QED BY <2>1, <2>2 DEF Init
<1> QED BY <1>1, EmptyWatches, BlankIsValid, NothingIsTyped, OperatorAssumption
        DEF Init, TypeInv, TypeOK, Sensible, CRs, Deps

LEMMA TypesKeep == TypeInv /\ [Next]_vars => TypeInv'
<1>1. TypeInv /\ UNCHANGED vars => TypeInv'
  BY DEF TypeInv, TypeOK, vars, Sensible
<1> QED BY <1>1, ReconcileKeepsTypes, HearKeepsTypes, FinishDeletionKeepsTypes, ClusterKeepsTypes,
           EnvironmentKeepsTypes
        DEF Next

(* The objects at the API server, the caches, the watches and Reconcile's    *)
(* copies keep their types.                                                  *)
THEOREM TypeCorrect == Spec => []TypeOK
BY TypesStart, TypesKeep, PTL DEF Spec, TypeInv

--------------------------------------------------------------------------------
(* No change is overlooked: as long as the Deployment or the status is not   *)
(* what the MyCRD object asks for, there is something left that makes        *)
(* Reconcile look again.                                                     *)

(* A cache will hold the object when its watch has delivered everything. *)
Follows(cache, watch, object) ==
    /\ watch = <<>> => cache = object
    /\ watch # <<>> => watch[Len(watch)] = object

(* The watch of the Deployment delivers a version that queues its owner. *)
WillQueue(cache, watch) ==
    /\ watch # <<>>
    /\ cache.owner \in Uid \/ \E k \in DOMAIN watch : watch[k].owner \in Uid

Serves(c) == dep.there /\ dep.owner = c.uid /\ dep.template = Desired(c.spec)

CachesFollow == Follows(crCache, crWatch, cr) /\ Follows(depCache, depWatch, dep)

(* Whoever is not queued has been served since his cache last changed.  The  *)
(* status is written when the Deployment is right, and heard of afterwards.  *)
QuietInv ==
    /\ CachesFollow
    /\ pc # "idle" /\ queued = FALSE => crCache = my
    /\ pc = "write status" => my.status # read.available
    /\ queued = FALSE /\ crCache # NoCR /\ pc \in {"idle", "read status", "write status"}
         => Serves(crCache) \/ WillQueue(depCache, depWatch)
    /\ queued = FALSE /\ crCache # NoCR /\ pc = "idle"
         => \/ crCache.status = dep.available
            \/ WillQueue(depCache, depWatch) \/ crWatch # <<>>

LEMMA AppendFollows ==
    ASSUME NEW S, NEW watch \in Seq(S), NEW cache, NEW new \in S
    PROVE  Append(watch, new) # <<>> /\ Follows(cache, Append(watch, new), new)
<1>1. Append(watch, new) # <<>> /\ Append(watch, new)[Len(Append(watch, new))] = new
  OBVIOUS
<1> QED BY <1>1 DEF Follows

LEMMA HearFollows ==
    ASSUME NEW S, NEW watch \in Seq(S), NEW cache, NEW object, watch # <<>>,
           Follows(cache, watch, object)
    PROVE  Follows(Head(watch), Tail(watch), object)
<1>1. Len(watch) \in Nat \ {0} /\ watch[Len(watch)] = object
  BY DEF Follows
<1>2. /\ Tail(watch) \in Seq(S) /\ Len(Tail(watch)) = Len(watch) - 1
      /\ \A k \in 1 .. Len(Tail(watch)) : Tail(watch)[k] = watch[k + 1]
  BY HeadTailProperties
<1>3. CASE Len(watch) = 1
  <2>1. Head(watch) = object
    BY <1>1, <1>3
  <2>2. Tail(watch) = <<>>
    <3>1. Len(Tail(watch)) = 0
      BY <1>2, <1>3
    <3>2. Tail(watch) # <<>> => Len(Tail(watch)) \in Nat \ {0}
      BY <1>2, EmptySeq
    <3> QED BY <3>1, <3>2
  <2> QED BY <2>1, <2>2 DEF Follows
<1>4. CASE Len(watch) # 1
  <2>1. Tail(watch) # <<>>
    <3>1. Len(Tail(watch)) # 0
      BY <1>1, <1>2, <1>4
    <3>2. Len(<<>>) = 0
      BY EmptySeq
    <3> QED BY <3>1, <3>2
  <2>2. Len(Tail(watch)) \in 1 .. Len(Tail(watch)) /\ Len(Tail(watch)) + 1 = Len(watch)
    BY <1>1, <1>2, <1>4
  <2>3. Tail(watch)[Len(Tail(watch))] = watch[Len(watch)]
    BY <1>2, <2>2
  <2> QED BY <1>1, <2>1, <2>3 DEF Follows
<1> QED BY <1>3, <1>4

(* A new version queues if it, the one before or one under way has an owner. *)
LEMMA PutWillQueue ==
    ASSUME NEW S, NEW watch \in Seq(S), NEW cache, NEW object, NEW new \in S,
           Follows(cache, watch, object),
           object.owner \in Uid \/ WillQueue(cache, watch)
    PROVE  WillQueue(cache, Append(watch, new))
<1> DEFINE longer == Append(watch, new)
<1>1. /\ longer # <<>> /\ Len(watch) \in Nat
      /\ \A k \in DOMAIN watch : k \in DOMAIN longer /\ longer[k] = watch[k]
  BY AppendProperties
<1> SUFFICES WillQueue(cache, longer)
  OBVIOUS
<1> HIDE DEF longer
<1>2. CASE WillQueue(cache, watch)
  BY <1>1, <1>2 DEF WillQueue
<1>3. CASE object.owner \in Uid /\ watch = <<>>
  BY <1>1, <1>3 DEF WillQueue, Follows
<1>4. CASE object.owner \in Uid /\ watch # <<>>
  <2>1. Len(watch) \in DOMAIN watch /\ watch[Len(watch)] = object
    BY <1>4, LenProperties DEF Follows
  <2>2. Len(watch) \in DOMAIN longer /\ longer[Len(watch)] = object
    BY <1>1, <2>1
  <2>3. \E k \in DOMAIN longer : longer[k].owner \in Uid
    BY <1>4, <2>2
  <2> QED BY <1>1, <2>3 DEF WillQueue
<1> QED BY <1>2, <1>3, <1>4

LEMMA HearWillQueue ==
    ASSUME NEW S, NEW watch \in Seq(S), NEW cache, WillQueue(cache, watch),
           cache.owner \notin Uid, Head(watch).owner \notin Uid
    PROVE  WillQueue(Head(watch), Tail(watch))
<1>1. PICK k \in DOMAIN watch : watch[k].owner \in Uid
  BY DEF WillQueue
<1>2. k \in 1 .. Len(watch) /\ k # 1 /\ Len(watch) \in Nat /\ watch # <<>>
  BY <1>1 DEF WillQueue
<1>3. k - 1 \in DOMAIN Tail(watch) /\ Tail(watch)[k - 1] = watch[k]
  BY <1>2
<1>4. Tail(watch) # <<>>
  BY <1>2
<1> QED BY <1>1, <1>3, <1>4 DEF WillQueue

(* What a write to the Deployment does to the cache that follows it. *)
LEMMA DepIsFollowed ==
    ASSUME TypeInv, CachesFollow, NEW new \in Deps, PutDep(new), UNCHANGED depCache
    PROVE  /\ Follows(depCache, depWatch, dep)'
           /\ WillQueue(depCache, depWatch) => WillQueue(depCache, depWatch)'
           /\ dep' # dep /\ dep.owner \in Uid => WillQueue(depCache, depWatch)'
<1>1. depWatch \in Seq(Deps) /\ Follows(depCache, depWatch, dep)
  BY WatchesAreTyped DEF CachesFollow
<1>2. depWatch' = (IF new = dep THEN depWatch ELSE Append(depWatch, new)) /\ dep' = new
  BY DEF PutDep
<1>3. Follows(depCache, depWatch', dep')
  <2>1. CASE new = dep
    BY <1>1, <1>2, <2>1
  <2>2. CASE new # dep
    <3>1. Follows(depCache, Append(depWatch, new), new)
      BY <1>1, AppendFollows
    <3> QED BY <1>2, <2>2, <3>1
  <2> QED BY <2>1, <2>2
<1>4. new # dep /\ (dep.owner \in Uid \/ WillQueue(depCache, depWatch))
        => WillQueue(depCache, Append(depWatch, new))
  BY <1>1, PutWillQueue
<1>5. WillQueue(depCache, depWatch)' <=> WillQueue(depCache, depWatch')
  BY DEF WillQueue
<1>6. Follows(depCache, depWatch, dep)' <=> Follows(depCache, depWatch', dep')
  BY DEF Follows
<1> QED BY <1>2, <1>3, <1>4, <1>5, <1>6

LEMMA CRIsFollowed ==
    ASSUME TypeInv, CachesFollow, NEW new \in CRs, PutCR(new), UNCHANGED crCache
    PROVE  /\ Follows(crCache, crWatch, cr)'
           /\ crWatch # <<>> \/ cr' # cr => crWatch' # <<>>
<1>1. crWatch \in Seq(CRs) /\ Follows(crCache, crWatch, cr)
  BY WatchesAreTyped DEF CachesFollow
<1>2. crWatch' = (IF new = cr THEN crWatch ELSE Append(crWatch, new)) /\ cr' = new
  BY DEF PutCR
<1>3. Follows(crCache, crWatch', cr') /\ (crWatch # <<>> \/ new # cr => crWatch' # <<>>)
  <2>1. CASE new = cr
    BY <1>1, <1>2, <2>1
  <2>2. CASE new # cr
    <3>1. Append(crWatch, new) # <<>> /\ Follows(crCache, Append(crWatch, new), new)
      BY <1>1, AppendFollows
    <3> QED BY <1>2, <2>2, <3>1
  <2> QED BY <2>1, <2>2
<1>4. Follows(crCache, crWatch, cr)' <=> Follows(crCache, crWatch', cr')
  BY DEF Follows
<1> QED BY <1>2, <1>3, <1>4

LEMMA UnfollowedStay ==
    /\ CachesFollow /\ UNCHANGED <<crCache, crWatch, cr>> => Follows(crCache, crWatch, cr)'
    /\ CachesFollow /\ UNCHANGED <<depCache, depWatch, dep>>
         => Follows(depCache, depWatch, dep)'
BY DEF CachesFollow, Follows

(* Somebody else writes to the Deployment. *)
LEMMA DepStep ==
    ASSUME TypeInv, QuietInv, NEW new \in Deps, PutDep(new),
           UNCHANGED <<crVars, caches, queued, worker>>
    PROVE  QuietInv'
<1>1. UNCHANGED <<cr, crWatch, crCache, depCache, queued, pc, my, read>>
  BY DEF crVars, caches, worker
<1>2. CachesFollow /\ crCache \in CRs
  BY DEF QuietInv, TypeInv, TypeOK, CRs
<1>3. /\ Follows(depCache, depWatch, dep)'
      /\ WillQueue(depCache, depWatch) => WillQueue(depCache, depWatch)'
      /\ dep' # dep /\ dep.owner \in Uid => WillQueue(depCache, depWatch)'
  BY <1>1, <1>2, DepIsFollowed
<1>4. CachesFollow'
  BY <1>1, <1>2, <1>3, UnfollowedStay DEF CachesFollow
<1>5. crCache # NoCR /\ Serves(crCache) => dep.owner \in Uid
  BY <1>2 DEF Serves, CRs, CR
<1>6. dep' = dep => (Serves(crCache)' <=> Serves(crCache))
  BY <1>1 DEF Serves
<1>7. ASSUME queued = FALSE, crCache # NoCR, pc \in {"idle", "read status", "write status"}
      PROVE  Serves(crCache)' \/ WillQueue(depCache, depWatch)'
  BY <1>3, <1>5, <1>6, <1>7 DEF QuietInv
<1>8. ASSUME queued = FALSE, crCache # NoCR, pc = "idle"
      PROVE  \/ crCache.status = dep'.available
             \/ WillQueue(depCache, depWatch)' \/ crWatch # <<>>
  <2>1. CASE dep' = dep
    BY <1>3, <1>8, <2>1 DEF QuietInv
  <2>2. CASE dep' # dep
    BY <1>3, <1>5, <1>8, <2>2 DEF QuietInv
  <2> QED BY <2>1, <2>2
<1>9. /\ pc' # "idle" /\ queued' = FALSE => crCache' = my'
      /\ pc' = "write status" => my'.status # read'.available
  BY <1>1 DEF QuietInv
<1> QED BY <1>1, <1>4, <1>7, <1>8, <1>9 DEF QuietInv

(* A user writes to the MyCRD object. *)
LEMMA CRStep ==
    ASSUME TypeInv, QuietInv, NEW new \in CRs, PutCR(new),
           UNCHANGED <<depVars, caches, queued, worker>>
    PROVE  QuietInv'
<1>1. UNCHANGED <<dep, depWatch, crCache, depCache, queued, pc, my, read>>
  BY DEF depVars, caches, worker
<1>2. /\ Follows(crCache, crWatch, cr)'
      /\ crWatch # <<>> => crWatch' # <<>>
  BY <1>1, CRIsFollowed DEF QuietInv
<1>3. CachesFollow'
  BY <1>1, <1>2, UnfollowedStay DEF CachesFollow, QuietInv
<1>4. /\ WillQueue(depCache, depWatch)' <=> WillQueue(depCache, depWatch)
      /\ Serves(crCache)' <=> Serves(crCache)
  BY <1>1 DEF WillQueue, Serves
<1> QED BY <1>1, <1>2, <1>3, <1>4 DEF QuietInv

(* An error leaves nothing behind but the place in the queue. *)
LEMMA ErrorIsQuiet ==
    ASSUME CachesFollow', Error
    PROVE  QuietInv'
<1>1. pc' = "idle" /\ queued' = TRUE
  BY DEF Error, Return
<1> QED BY <1>1 DEF QuietInv

(* What Reconcile writes is followed, too. *)
LEMMA WritesAreFollowed ==
    ASSUME TypeInv, CachesFollow, pc # "idle", UNCHANGED caches
    PROVE  /\ (Creatable /\ Created) \/ (Updatable /\ Updated)
                => /\ Follows(depCache, depWatch, dep)'
                   /\ dep'.there /\ dep'.owner = my.uid /\ dep'.template = Desired(my.spec)
           /\ cr = my /\ PutCR([cr EXCEPT !.status = read.available])
                => /\ Follows(crCache, crWatch, cr)'
                   /\ cr' # cr => crWatch' # <<>>
<1>1. UNCHANGED <<crCache, depCache>>
  BY DEF caches
<1>2. ASSUME (Creatable /\ Created) \/ (Updatable /\ Updated)
      PROVE  /\ Follows(depCache, depWatch, dep)'
             /\ dep'.there /\ dep'.owner = my.uid /\ dep'.template = Desired(my.spec)
  <2>1. PICK new : /\ PutDep(new) /\ new.there
                   /\ new.owner = my.uid /\ new.template = Desired(my.spec)
    <3>1. CASE Creatable /\ Created
      <4> DEFINE new == [there |-> TRUE, owner |-> my.uid, template |-> Desired(my.spec),
                         available |-> 0, selectsUs |-> TRUE, made |-> TRUE]
      <4>1. PutDep(new)
        BY <3>1 DEF Created
      <4> QED BY <4>1
    <3>2. CASE Updatable /\ Updated
      <4> DEFINE new == [dep EXCEPT !.owner = my.uid, !.template = Desired(my.spec)]
      <4>1. dep \in Dep /\ dep.there
        BY <3>2, NothingIsTyped DEF Updatable, TypeInv, TypeOK
      <4>2. new.there /\ new.owner = my.uid /\ new.template = Desired(my.spec)
        BY <4>1 DEF Dep
      <4>3. PutDep(new)
        BY <3>2 DEF Updated
      <4> QED BY <4>2, <4>3
    <3> QED BY <1>2, <3>1, <3>2
  <2>2. dep' = new /\ dep' \in Deps
    BY <1>2, <2>1, WritesAreTyped DEF PutDep
  <2>3. Follows(depCache, depWatch, dep)'
    BY <1>1, <2>1, <2>2, DepIsFollowed
  <2> QED BY <2>1, <2>2, <2>3
<1>3. ASSUME cr = my, PutCR([cr EXCEPT !.status = read.available])
      PROVE  /\ Follows(crCache, crWatch, cr)'
             /\ cr' # cr => crWatch' # <<>>
  <2>1. cr' = [cr EXCEPT !.status = read.available] /\ cr' \in CRs
    BY <1>3, WritesAreTyped DEF PutCR
  <2> QED BY <1>1, <1>3, <2>1, CRIsFollowed
<1> QED BY <1>2, <1>3

LEMMA GetsAreQuiet ==
    ASSUME TypeInv, QuietInv, GetMyCRD \/ GetDeployment
    PROVE  QuietInv'
<1>1. UNCHANGED <<cr, crWatch, crCache, dep, depWatch, depCache>>
  BY DEF GetMyCRD, GetDeployment, objects, crVars, depVars, caches
<1>2. CachesFollow'
  BY <1>1, UnfollowedStay DEF CachesFollow, QuietInv
<1>3. CASE GetMyCRD
  <2>1. pc = "idle" /\ queued' = FALSE
    BY <1>3 DEF GetMyCRD
  <2>2. CASE crCache = NoCR
    <3>1. UNCHANGED pc /\ crCache' = NoCR
      BY <1>1, <1>3, <2>2 DEF GetMyCRD, worker
    <3> QED BY <1>2, <2>1, <3>1 DEF QuietInv
  <2>3. CASE crCache # NoCR
    <3>1. pc' = "get deployment" /\ my' = crCache'
      BY <1>1, <1>3, <2>3 DEF GetMyCRD
    <3> QED BY <1>2, <3>1 DEF QuietInv
  <2> QED BY <2>2, <2>3
<1>4. CASE GetDeployment
  <2>1. CASE Error
    BY <1>2, <2>1, ErrorIsQuiet
  <2>2. CASE ~ Error
    <3>1. pc = "get deployment" /\ pc' \in {"create", "update"} /\ UNCHANGED <<my, queued>>
      BY <1>4, <2>2 DEF GetDeployment
    <3> QED BY <1>1, <1>2, <3>1 DEF QuietInv
  <2> QED BY <2>1, <2>2
<1> QED BY <1>3, <1>4

LEMMA WritesAreQuiet ==
    ASSUME TypeInv, QuietInv, CreateDeployment \/ UpdateDeployment
    PROVE  QuietInv'
<1>1. /\ UNCHANGED <<cr, crWatch, crCache, depCache>> /\ UNCHANGED caches
      /\ pc \in {"create", "update"}
  BY DEF CreateDeployment, UpdateDeployment, crVars, caches
<1>2. Follows(crCache, crWatch, cr)'
  BY <1>1, UnfollowedStay DEF QuietInv
<1>3. CASE (Creatable /\ Created) \/ (Updatable /\ Updated)
  <2>1. CASE Error
    BY <1>1, <1>2, <1>3, <2>1, WritesAreFollowed, ErrorIsQuiet DEF CachesFollow, QuietInv
  <2>2. CASE ~ Error
    <3>1. pc' = "read status" /\ UNCHANGED <<my, queued>>
      BY <2>2 DEF CreateDeployment, UpdateDeployment
    <3>2. /\ Follows(depCache, depWatch, dep)'
          /\ dep'.there /\ dep'.owner = my.uid /\ dep'.template = Desired(my.spec)
      BY <1>1, <1>3, WritesAreFollowed DEF QuietInv
    <3>3. queued = FALSE => crCache' = my
      BY <1>1 DEF QuietInv
    <3>4. queued = FALSE => Serves(crCache)'
      BY <3>2, <3>3 DEF Serves
    <3> QED BY <1>2, <3>1, <3>2, <3>3, <3>4 DEF QuietInv, CachesFollow
  <2> QED BY <2>1, <2>2
<1>4. CASE Error /\ UNCHANGED depVars
  <2>1. Follows(depCache, depWatch, dep)'
    BY <1>1, <1>4, UnfollowedStay DEF QuietInv, depVars
  <2> QED BY <1>2, <1>4, <2>1, ErrorIsQuiet DEF CachesFollow
<1> QED BY <1>3, <1>4 DEF CreateDeployment, UpdateDeployment

LEMMA ReadStatusIsQuiet ==
    ASSUME TypeInv, QuietInv, ReadStatus
    PROVE  QuietInv'
<1>1. /\ UNCHANGED <<cr, crWatch, crCache, dep, depWatch, depCache>>
      /\ pc = "read status"
  BY DEF ReadStatus, objects, crVars, depVars, caches
<1>2. CachesFollow'
  BY <1>1, UnfollowedStay DEF CachesFollow, QuietInv
<1>3. /\ Serves(crCache)' <=> Serves(crCache)
      /\ WillQueue(depCache, depWatch)' <=> WillQueue(depCache, depWatch)
  BY <1>1 DEF Serves, WillQueue
<1>4. queued = FALSE => crCache = my
  BY <1>1 DEF QuietInv
<1>5. queued = FALSE /\ crCache # NoCR => Serves(crCache) \/ WillQueue(depCache, depWatch)
  BY <1>1 DEF QuietInv
<1>6. CASE ~depCache.there \/ my.status = depCache.available
  <2>1. pc' = "idle" /\ UNCHANGED queued
    BY <1>6 DEF ReadStatus, Done, Return
  (* What was read is up to date, or there is more to hear of. *)
  <2>2. ASSUME queued = FALSE, crCache # NoCR
        PROVE  crCache.status = dep.available \/ WillQueue(depCache, depWatch)
    <3>1. CASE depWatch = <<>>
      <4>1. depCache = dep /\ ~ WillQueue(depCache, depWatch)
        BY <3>1 DEF QuietInv, CachesFollow, Follows, WillQueue
      <4> QED BY <1>4, <1>5, <1>6, <2>2, <4>1 DEF Serves
    <3>2. CASE depWatch # <<>> /\ Serves(crCache)
      <4>1. dep.owner \in Uid
        BY <2>2, <3>2 DEF Serves, TypeInv, TypeOK, CR
      <4>2. Len(depWatch) \in DOMAIN depWatch
        <5>1. depWatch \in Seq(Deps)
          BY WatchesAreTyped
        <5> QED BY <3>2, <5>1, EmptySeq, LenProperties
      <4>3. depWatch[Len(depWatch)] = dep
        BY <3>2 DEF QuietInv, CachesFollow, Follows
      <4> QED BY <3>2, <4>1, <4>2, <4>3 DEF WillQueue
    <3> QED BY <1>5, <2>2, <3>1, <3>2
  <2> QED BY <1>1, <1>2, <1>3, <1>5, <2>1, <2>2 DEF QuietInv
<1>7. CASE ~(~depCache.there \/ my.status = depCache.available)
  <2>1. pc' = "write status" /\ read' = depCache /\ UNCHANGED <<my, queued>>
    BY <1>7 DEF ReadStatus
  <2>2. my'.status # read'.available
    BY <1>7, <2>1
  <2> QED BY <1>1, <1>2, <1>3, <1>4, <1>5, <2>1, <2>2 DEF QuietInv
<1> QED BY <1>6, <1>7

LEMMA WriteStatusIsQuiet ==
    ASSUME TypeInv, QuietInv, WriteStatus
    PROVE  QuietInv'
<1>1. /\ UNCHANGED <<crCache, dep, depWatch, depCache>> /\ UNCHANGED caches
      /\ pc = "write status"
  BY DEF WriteStatus, depVars, caches
<1>2. Follows(depCache, depWatch, dep)'
  BY <1>1, UnfollowedStay DEF QuietInv
<1>3. CASE cr = my
  <2>1. PutCR([cr EXCEPT !.status = read.available]) /\ pc' = "idle" /\ UNCHANGED queued
    BY <1>3 DEF WriteStatus, Done, Return
  <2>2. Follows(crCache, crWatch, cr)' /\ (cr' # cr => crWatch' # <<>>)
    BY <1>1, <1>3, <2>1, WritesAreFollowed DEF QuietInv
  <2>3. crWatch' # <<>>
    <3>1. cr \in CR
      BY <1>1, <1>3 DEF TypeInv, TypeOK
    <3>2. cr'.status = read.available
      BY <2>1, <3>1 DEF PutCR, CR
    <3> QED BY <1>1, <1>3, <2>2, <3>2 DEF QuietInv
  <2>4. /\ Serves(crCache)' <=> Serves(crCache)
        /\ WillQueue(depCache, depWatch)' <=> WillQueue(depCache, depWatch)
    BY <1>1 DEF Serves, WillQueue
  <2>5. queued = FALSE /\ crCache # NoCR => Serves(crCache) \/ WillQueue(depCache, depWatch)
    BY <1>1 DEF QuietInv
  <2> QED BY <1>1, <1>2, <2>1, <2>2, <2>3, <2>4, <2>5 DEF QuietInv, CachesFollow
<1>4. CASE cr # my
  <2>1. UNCHANGED crVars /\ Error
    BY <1>4 DEF WriteStatus
  <2>2. Follows(crCache, crWatch, cr)'
    BY <1>1, <2>1, UnfollowedStay DEF QuietInv, crVars
  <2> QED BY <1>2, <2>1, <2>2, ErrorIsQuiet DEF CachesFollow
<1> QED BY <1>3, <1>4

LEMMA HearIsQuiet ==
    ASSUME TypeInv, QuietInv, Hear
    PROVE  QuietInv'
<1>1. CASE HearMyCRD
  <2>1. /\ crWatch # <<>> /\ crCache' = Head(crWatch) /\ crWatch' = Tail(crWatch)
        /\ queued' = TRUE /\ UNCHANGED <<cr, dep, depWatch, depCache, pc, my, read>>
    BY <1>1 DEF HearMyCRD, depVars, worker
  <2>2. Follows(Head(crWatch), Tail(crWatch), cr)
    BY <2>1, WatchesAreTyped, HearFollows DEF QuietInv, CachesFollow
  <2>3. CachesFollow'
    BY <2>1, <2>2 DEF CachesFollow, Follows, QuietInv
  <2> QED BY <2>1, <2>3 DEF QuietInv
<1>2. CASE HearDeployment
  <2>1. /\ depWatch # <<>> /\ depCache' = Head(depWatch) /\ depWatch' = Tail(depWatch)
        /\ queued' = (queued \/ depCache.owner \in Uid \/ depCache'.owner \in Uid)
        /\ UNCHANGED <<cr, crWatch, crCache, dep, pc, my, read>>
    BY <1>2 DEF HearDeployment, crVars, worker
  <2>2. Follows(Head(depWatch), Tail(depWatch), dep)
    BY <2>1, WatchesAreTyped, HearFollows DEF QuietInv, CachesFollow
  <2>3. CachesFollow'
    BY <2>1, <2>2 DEF CachesFollow, Follows, QuietInv
  <2>4. ASSUME queued' = FALSE
        PROVE  /\ queued = FALSE
               /\ WillQueue(depCache, depWatch) => WillQueue(depCache, depWatch)'
    <3>1. queued \in BOOLEAN
      BY DEF TypeInv, TypeOK
    <3>2. queued = FALSE /\ depCache.owner \notin Uid /\ Head(depWatch).owner \notin Uid
      BY <2>1, <2>4, <3>1
    <3>3. WillQueue(depCache, depWatch) => WillQueue(Head(depWatch), Tail(depWatch))
      BY <3>2, WatchesAreTyped, HearWillQueue
    <3>4. WillQueue(Head(depWatch), Tail(depWatch)) => WillQueue(depCache, depWatch)'
      BY <2>1 DEF WillQueue
    <3> QED BY <3>2, <3>3, <3>4
  <2>5. Serves(crCache)' <=> Serves(crCache)
    BY <2>1 DEF Serves
  <2> QED BY <2>1, <2>3, <2>4, <2>5 DEF QuietInv
<1> QED BY <1>1, <1>2 DEF Hear

(* The cluster's own controllers, the users, failures and restarts. *)
LEMMA ClusterIsQuiet ==
    ASSUME TypeInv, TypeInv', QuietInv, CollectGarbage \/ FinishDeletion \/ PodsStart
    PROVE  QuietInv'
<1>1. CASE CollectGarbage \/ PodsStart
  <2>1. UNCHANGED <<crVars, caches, queued, worker>>
    BY <1>1 DEF CollectGarbage, PodsStart
  <2>2. PICK new : PutDep(new)
    BY <1>1 DEF CollectGarbage, PodsStart
  <2>3. new \in Deps
    BY <2>2 DEF PutDep, TypeInv, TypeOK, Deps
  <2> QED BY <2>1, <2>2, <2>3, DepStep
<1>2. CASE FinishDeletion
  <2>1. PutCR(NoCR) /\ NoCR \in CRs /\ UNCHANGED <<depVars, caches, queued, worker>>
    BY <1>2 DEF FinishDeletion, CRs
  <2> QED BY <2>1, CRStep
<1> QED BY <1>1, <1>2

LEMMA CallFailsQuietly ==
    ASSUME TypeInv, QuietInv, CallFails
    PROVE  QuietInv'
<1>1. pc # "idle" /\ Error /\ UNCHANGED caches /\ UNCHANGED <<crCache, depCache>>
  BY DEF CallFails, caches
<1>2. Follows(depCache, depWatch, dep)'
  <2>1. CASE UNCHANGED depVars
    BY <1>1, <2>1, UnfollowedStay DEF QuietInv, depVars
  <2>2. CASE (Creatable /\ Created) \/ (Updatable /\ Updated)
    BY <1>1, <2>2, WritesAreFollowed DEF QuietInv
  <2> QED BY <2>1, <2>2 DEF CallFails
<1>3. Follows(crCache, crWatch, cr)'
  <2>1. CASE UNCHANGED crVars
    BY <1>1, <2>1, UnfollowedStay DEF QuietInv, crVars
  <2>2. CASE cr = my /\ PutCR([cr EXCEPT !.status = read.available])
    BY <1>1, <2>2, WritesAreFollowed DEF QuietInv
  <2> QED BY <2>1, <2>2 DEF CallFails
<1> QED BY <1>1, <1>2, <1>3, ErrorIsQuiet DEF CachesFollow

LEMMA EnvironmentIsQuiet ==
    ASSUME TypeInv, TypeInv', QuietInv, Environment
    PROVE  QuietInv'
<1>1. CASE Restart
  <2>1. /\ crCache' = cr' /\ depCache' = dep' /\ crWatch' = <<>> /\ depWatch' = <<>>
        /\ pc' = "idle" /\ (cr # NoCR => queued' = TRUE) /\ cr' = cr
    BY <1>1 DEF Restart, Return
  <2>2. CachesFollow'
    BY <2>1 DEF CachesFollow, Follows
  <2>3. queued' = FALSE => crCache' = NoCR
    BY <2>1
  <2> QED BY <2>1, <2>2, <2>3 DEF QuietInv
<1>2. CASE /\ UNCHANGED <<caches, queued, worker, depVars>>
           /\ CreateMyCRD \/ EditMyCRD \/ DeleteMyCRD
  <2>1. PICK new : PutCR(new)
    BY <1>2 DEF CreateMyCRD, EditMyCRD, DeleteMyCRD
  <2>2. new \in CRs
    BY <2>1 DEF PutCR, TypeInv, TypeOK, CRs
  <2> QED BY <1>2, <2>1, <2>2, CRStep
<1>3. CASE /\ UNCHANGED <<caches, queued, worker, crVars>>
           /\ EditDeployment \/ CreateForeign
  <2>1. PICK new : PutDep(new)
    BY <1>3 DEF EditDeployment, CreateForeign
  <2>2. new \in Deps
    BY <2>1 DEF PutDep, TypeInv, TypeOK, Deps
  <2> QED BY <1>3, <2>1, <2>2, DepStep
<1> QED BY <1>1, <1>2, <1>3, CallFailsQuietly
        DEF Environment, CreateMyCRD, EditMyCRD, DeleteMyCRD, EditDeployment,
            CreateForeign

LEMMA StutterIsQuiet == QuietInv /\ UNCHANGED vars => QuietInv'
<1> SUFFICES ASSUME QuietInv, UNCHANGED vars PROVE QuietInv'
  OBVIOUS
<1>1. UNCHANGED <<cr, crWatch, crCache, dep, depWatch, depCache, queued, pc, my, read>>
  BY DEF vars
<1>2. CachesFollow'
  BY <1>1, UnfollowedStay DEF CachesFollow, QuietInv
<1>3. /\ Serves(crCache)' <=> Serves(crCache)
      /\ WillQueue(depCache, depWatch)' <=> WillQueue(depCache, depWatch)
  BY <1>1 DEF Serves, WillQueue
<1> QED BY <1>1, <1>2, <1>3 DEF QuietInv

LEMMA QuietKeeps == TypeInv /\ TypeInv' /\ QuietInv /\ [Next]_vars => QuietInv'
BY GetsAreQuiet, WritesAreQuiet, ReadStatusIsQuiet, WriteStatusIsQuiet, HearIsQuiet,
   ClusterIsQuiet, EnvironmentIsQuiet, StutterIsQuiet DEF Next, Reconcile

LEMMA QuietStarts == Init => QuietInv
<1> SUFFICES ASSUME Init PROVE QuietInv
  OBVIOUS
<1>1. CachesFollow
  BY DEF Init, CachesFollow, Follows
<1>2. pc = "idle" /\ crCache = cr /\ (cr # NoCR => queued = TRUE)
  BY DEF Init
<1> QED BY <1>1, <1>2 DEF QuietInv

(* Nothing is left to hear of or to do. *)
AtRest == pc = "idle" /\ ~queued /\ crWatch = <<>> /\ depWatch = <<>>

(* The part of SpecConverges and StatusConverges that no fairness is needed  *)
(* for: the controller comes to rest only when the Deployment is there,      *)
(* owned and as the MyCRD object asks, and the status counts its pods.       *)
(* Stale caches, conflicts, failed calls, drift and restarts lose no work:   *)
(* whatever is not done yet is queued, under way or still to be heard of.    *)
THEOREM NoWorkIsLost ==
    Spec => [](AtRest /\ cr # NoCR
                 => /\ dep.there /\ dep.owner = cr.uid
                    /\ dep.template = Desired(cr.spec) /\ cr.status = dep.available)
<1>1. ASSUME TypeInv, QuietInv, AtRest, cr # NoCR
      PROVE  /\ dep.there /\ dep.owner = cr.uid
             /\ dep.template = Desired(cr.spec) /\ cr.status = dep.available
  <2>1. queued = FALSE /\ pc = "idle" /\ crWatch = <<>>
    BY <1>1 DEF AtRest, TypeInv, TypeOK
  <2>2. crCache = cr
    BY <1>1 DEF QuietInv, CachesFollow, Follows, AtRest
  <2>3. ~ WillQueue(depCache, depWatch)
    BY <1>1 DEF WillQueue, AtRest
  <2> QED BY <1>1, <2>1, <2>2, <2>3 DEF QuietInv, Serves
<1>2. TypeInv /\ QuietInv
        => (AtRest /\ cr # NoCR
              => /\ dep.there /\ dep.owner = cr.uid
                 /\ dep.template = Desired(cr.spec) /\ cr.status = dep.available)
  BY <1>1
<1> QED BY <1>2, TypesStart, TypesKeep, QuietStarts, QuietKeeps, PTL DEF Spec

--------------------------------------------------------------------------------
(* A Deployment that Reconcile created keeps an owner with a uid, whoever    *)
(* scales, edits or updates it.                                              *)
MadeIsOwned == dep.made => dep.owner \in Uid

LEMMA MadeStarts == Init => MadeIsOwned
BY DEF Init, MadeIsOwned, NoDep

LEMMA MadeKeeps == TypeInv /\ MadeIsOwned /\ [Next]_vars => MadeIsOwned'
<1> SUFFICES ASSUME TypeInv, MadeIsOwned, [Next]_vars PROVE MadeIsOwned'
  OBVIOUS
<1> USE DEF MadeIsOwned, PutDep
<1>0. NoDep.made = FALSE /\ (dep.there => dep \in Dep)
  BY NothingIsTyped DEF NoDep, TypeInv, TypeOK
<1>1. CASE UNCHANGED dep
  BY <1>1
<1>2. ASSUME pc # "idle", (Creatable /\ Created) \/ (Updatable /\ Updated)
      PROVE  MadeIsOwned'
  <2>1. my.uid \in Uid
    BY <1>2 DEF TypeInv, TypeOK, CR
  <2>2. dep'.owner = my.uid
    <3>1. CASE Created
      BY <3>1 DEF Created
    <3>2. CASE Updatable /\ Updated
      <4>1. dep \in Dep
        BY <1>0, <3>2 DEF Updatable
      <4>2. dep' = [dep EXCEPT !.owner = my.uid, !.template = Desired(my.spec)]
        BY <3>2 DEF Updated
      <4> QED BY <4>1, <4>2 DEF Dep
    <3> QED BY <1>2, <3>1, <3>2
  <2> QED BY <2>1, <2>2
<1>3. CASE CollectGarbage
  BY <1>0, <1>3 DEF CollectGarbage
<1>4. CASE PodsStart
  BY <1>0, <1>4 DEF PodsStart, Dep
<1>5. CASE EditDeployment
  <2>1. CASE PutDep(NoDep)
    BY <1>0, <2>1
  <2>2. CASE ~ PutDep(NoDep)
    BY <1>0, <1>5, <2>2 DEF EditDeployment, Dep
  <2> QED BY <2>1, <2>2
<1>6. CASE CreateForeign
  BY <1>6 DEF CreateForeign, NoDep
<1>7. CASE Reconcile
  BY <1>1, <1>2, <1>7
     DEF Reconcile, GetMyCRD, GetDeployment, CreateDeployment, UpdateDeployment,
         ReadStatus, WriteStatus, objects, depVars
<1>8. CASE Environment
  <2>1. CASE CallFails
    BY <1>1, <1>2, <2>1 DEF CallFails, depVars
  <2>2. CASE Restart
    BY <1>1, <2>2 DEF Restart
  <2>3. CASE CreateMyCRD \/ EditMyCRD \/ DeleteMyCRD
    BY <1>1, <2>3 DEF CreateMyCRD, EditMyCRD, DeleteMyCRD, depVars
  <2> QED BY <1>5, <1>6, <1>8, <2>1, <2>2, <2>3 DEF Environment
<1>9. CASE Hear \/ FinishDeletion
  BY <1>1, <1>9 DEF Hear, HearMyCRD, HearDeployment, FinishDeletion, depVars
<1> QED BY <1>1, <1>3, <1>4, <1>7, <1>8, <1>9 DEF Next, vars

(* The part of OrphansAreCollected that no fairness is needed for: an orphan, *)
(* for instance one made from a stale cache after the object was deleted,    *)
(* always names a uid, and one that is gone, so the garbage collector will   *)
(* know it: there is none that nobody would ever collect.                    *)
THEOREM OrphansAreKnown ==
    Spec => [](Orphan => dep.owner \in Uid /\ dep.owner # cr.uid)
<1>1. NoCR.uid = 0 /\ 0 \notin Uid
  BY DEF NoCR, Uid
<1>2. MadeIsOwned => (Orphan => dep.owner \in Uid /\ dep.owner # cr.uid)
  BY <1>1 DEF MadeIsOwned, Orphan
<1> QED BY <1>2, TypesStart, TypesKeep, MadeStarts, MadeKeeps, PTL DEF Spec
================================================================================
