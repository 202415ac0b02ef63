----------------------------- MODULE MyCRDOperator -----------------------------
(***************************************************************************)
(* The controller of k8s-operator-example/go-operator for one MyCRD object *)
(* and the Deployment it owns, on an API server.                           *)
(*                                                                         *)
(* Reconcile reads both objects from informer caches that lag behind the   *)
(* API server and writes with the resource version it read, so a write     *)
(* fails if the object changed since.  An error puts the object back in    *)
(* the work queue; so does every change a cache hears of.  One worker      *)
(* handles the object at a time.                                           *)
(*                                                                         *)
(* External, modelled from how the controller uses them: the caches and    *)
(* the work queue of controller-runtime, the garbage collector, the        *)
(* Deployment controller, and the users and controllers that change the    *)
(* two objects.  Versions are compared by content: an object that was      *)
(* changed and changed back between a read and a write is written with the *)
(* same result as after a conflict and a retry.                            *)
(***************************************************************************)
EXTENDS Integers, Sequences

CONSTANTS
    Replicas,  \* values of spec.replicas; a negative one is rejected
    Image,     \* values of spec.image
    Unset,     \* spec.replicas nil, spec.image ""
    MaxUid,    \* bound: how often the MyCRD object is created
    MaxOps,    \* bound: steps of users, failures and crashes
    MaxLag     \* bound: the versions of an object a cache can lag behind

ASSUME OperatorAssumption ==
    /\ Replicas \subseteq Int /\ Unset \notin Image /\ MaxUid \in Nat \ {0}
    /\ MaxOps \in Nat /\ MaxLag \in Nat \ {0}

VARIABLES
    cr,        \* the MyCRD object at the API server
    dep,       \* the Deployment <name>-deploy at the API server
    crCache,   \* the manager's cached copies
    depCache,
    crWatch,   \* the versions the watches still have to deliver
    depWatch,
    queued,    \* the object is in the work queue
    pc,        \* where Reconcile is
    my,        \* Reconcile's copy of the MyCRD object
    read,      \* Reconcile's last copy of the Deployment
    uids,      \* how many uids were given to MyCRD objects
    ops        \* steps counted against MaxOps

vars == <<cr, dep, crCache, depCache, crWatch, depWatch, queued, pc, my, read,
          uids, ops>>

Uid == 1 .. MaxUid
NoOwner == -1        \* no controller reference
OtherOwner == -2     \* a controller reference to some other object

(* Mutant: the image has no default. *)
DesiredWithoutImage(spec) ==
    [replicas |-> IF spec.replicas = Unset THEN 1 ELSE spec.replicas,
     image    |-> spec.image]

(* The template the API server holds; the defaults of Reconcile. *)
Template == [replicas : Replicas \cup {1}, image : Image \cup {"nginx:1.25.3"}]
Desired(spec) ==
    [replicas |-> IF spec.replicas = Unset THEN 1 ELSE spec.replicas,
     image    |-> IF spec.image = Unset THEN "nginx:1.25.3" ELSE spec.image]
Valid(template) == template.replicas >= 0

CRSpec == [replicas : Replicas \cup {Unset}, image : Image \cup {Unset}]
Blank == [replicas |-> Unset, image |-> Unset]
Available == {0, 1} \cup {n \in Replicas : n >= 0}

(* gen is metadata.generation; deleting: metadata.deletionTimestamp is set,  *)
(* and the object waits for the Deployment to go first.                      *)
NoCR == [uid |-> 0, gen |-> 0, spec |-> Blank, status |-> 0, deleting |-> FALSE]
CR == [uid : Uid, gen : 1 .. (MaxOps + 1), spec : CRSpec, status : Available,
       deleting : BOOLEAN]
NewCR(uid, spec) == [uid |-> uid, gen |-> 1, spec |-> spec, status |-> 0, deleting |-> FALSE]

(* selectsUs: spec.selector matches the labels Reconcile puts on the pods.  *)
(* made: history, Reconcile created it.                                     *)
NoDep == [there |-> FALSE, owner |-> NoOwner, template |-> Desired(Blank),
          available |-> 0, selectsUs |-> FALSE, made |-> FALSE]
Dep == [there : {TRUE}, owner : Uid \cup {NoOwner, OtherOwner},
        template : Template, available : Available, selectsUs : BOOLEAN,
        made : BOOLEAN]

(* The manager starts on a cluster where the MyCRD object may exist already, *)
(* and lists it.                                                             *)
Init ==
    /\ \/ cr = NoCR /\ uids = 0
       \/ /\ cr \in {NewCR(1, spec) : spec \in CRSpec}
          /\ uids = 1
    /\ dep = NoDep
    /\ crCache = cr /\ depCache = dep
    /\ crWatch = <<>> /\ depWatch = <<>>
    /\ queued = (cr # NoCR)
    /\ pc = "idle" /\ my = NoCR /\ read = NoDep
    /\ ops = 0

crVars == <<cr, crWatch>>
depVars == <<dep, depWatch>>
objects == <<crVars, depVars, uids>>
caches == <<crCache, depCache>>
worker == <<pc, my, read>>

(* The API server stores a version and sends it to the watches; storing what *)
(* is there already changes nothing.                                         *)
PutCR(new) ==
    /\ cr' = new
    /\ new # cr => Len(crWatch) < MaxLag
    /\ crWatch' = IF new = cr THEN crWatch ELSE Append(crWatch, new)
PutDep(new) ==
    /\ dep' = new
    /\ new # dep => Len(depWatch) < MaxLag
    /\ depWatch' = IF new = dep THEN depWatch ELSE Append(depWatch, new)

--------------------------------------------------------------------------------
(* Reconcile returns: nothing to do, done, or an error, which requeues. *)
Return == pc' = "idle" /\ my' = NoCR /\ read' = NoDep
Done == Return /\ UNCHANGED queued
Error == Return /\ queued' = TRUE

(* The worker takes the object; 1) r.Get(MyCRD). *)
GetMyCRD ==
    /\ pc = "idle" /\ queued
    /\ queued' = FALSE
    /\ IF crCache = NoCR
         THEN UNCHANGED worker
         ELSE pc' = "get deployment" /\ my' = crCache /\ UNCHANGED read
    /\ UNCHANGED <<objects, caches, ops>>

(* Mutant: the controller reference is set without looking at the old one. *)
GetDeploymentOfAnyone ==
    /\ pc = "get deployment"
    /\ pc' = IF depCache.there THEN "update" ELSE "create"
    /\ read' = depCache
    /\ UNCHANGED <<my, queued>>
    /\ UNCHANGED <<objects, caches, ops>>

(* 4) CreateOrUpdate reads the Deployment and mutates it: an error when it   *)
(* has a controller already and that is not this MyCRD object.               *)
GetDeployment ==
    /\ pc = "get deployment"
    /\ IF depCache.there /\ depCache.owner \notin {NoOwner, my.uid}
         THEN Error
         ELSE /\ pc' = IF depCache.there THEN "update" ELSE "create"
              /\ read' = depCache
              /\ UNCHANGED <<my, queued>>
    /\ UNCHANGED <<objects, caches, ops>>

(* The API server accepts the new Deployment. *)
Creatable == ~dep.there /\ Valid(Desired(my.spec))

(* Mutant: no controller reference. *)
CreatedUnowned ==
    PutDep([there |-> TRUE, owner |-> NoOwner, template |-> Desired(my.spec),
            available |-> 0, selectsUs |-> TRUE, made |-> TRUE])

Created ==
    PutDep([there |-> TRUE, owner |-> my.uid, template |-> Desired(my.spec),
            available |-> 0, selectsUs |-> TRUE, made |-> TRUE])

CreateDeployment ==
    /\ pc = "create"
    /\ IF Creatable
         THEN Created /\ pc' = "read status" /\ UNCHANGED <<my, read, queued>>
         ELSE Error /\ UNCHANGED depVars
    /\ UNCHANGED <<crVars, uids, caches, ops>>

(* The version is the one that was read, the labels match the selector. *)
Updatable == dep.there /\ dep = read /\ Valid(Desired(my.spec)) /\ dep.selectsUs

(* Replicas, labels and the pod spec are replaced as a whole. *)
Updated == PutDep([dep EXCEPT !.owner = my.uid, !.template = Desired(my.spec)])

UpdateDeployment ==
    /\ pc = "update"
    /\ IF Updatable
         THEN Updated /\ pc' = "read status" /\ UNCHANGED <<my, read, queued>>
         ELSE Error /\ UNCHANGED depVars
    /\ UNCHANGED <<crVars, uids, caches, ops>>

(* 5) The second r.Get(Deployment); its error is ignored. *)
ReadStatus ==
    /\ pc = "read status"
    /\ IF ~depCache.there \/ my.status = depCache.available
         THEN Done
         ELSE pc' = "write status" /\ read' = depCache /\ UNCHANGED <<my, queued>>
    /\ UNCHANGED <<objects, caches, ops>>

(* r.Status().Update(MyCRD) with the version read in 1). *)
WriteStatus ==
    /\ pc = "write status"
    /\ IF cr = my
         THEN PutCR([cr EXCEPT !.status = read.available]) /\ Done
         ELSE UNCHANGED crVars /\ Error
    /\ UNCHANGED <<depVars, uids, caches, ops>>

Reconcile ==
    \/ GetMyCRD \/ GetDeployment \/ CreateDeployment \/ UpdateDeployment
    \/ ReadStatus \/ WriteStatus

--------------------------------------------------------------------------------
(* The manager's caches and work queue. *)

(* Mutant: For(MyCRD) with a predicate on the generation. *)
HearMyCRDSpecOnly ==
    /\ crWatch # <<>>
    /\ crCache' = Head(crWatch) /\ crWatch' = Tail(crWatch)
    /\ queued' = (queued \/ crCache'.uid # crCache.uid \/ crCache'.gen # crCache.gen)
    /\ UNCHANGED <<cr, depVars, uids, depCache, worker, ops>>

(* For(MyCRD): every change of the object queues it. *)
HearMyCRD ==
    /\ crWatch # <<>>
    /\ crCache' = Head(crWatch) /\ crWatch' = Tail(crWatch)
    /\ queued' = TRUE
    /\ UNCHANGED <<cr, depVars, uids, depCache, worker, ops>>

(* Mutant: Owns(Deployment) is missing. *)
HearDeploymentOnly ==
    /\ depWatch # <<>>
    /\ depCache' = Head(depWatch) /\ depWatch' = Tail(depWatch)
    /\ UNCHANGED <<queued, crVars, dep, uids, crCache, worker, ops>>

(* Owns(Deployment): the old and the new version queue their owner. *)
HearDeployment ==
    /\ depWatch # <<>>
    /\ depCache' = Head(depWatch) /\ depWatch' = Tail(depWatch)
    /\ queued' = (queued \/ depCache.owner \in Uid \/ depCache'.owner \in Uid)
    /\ UNCHANGED <<crVars, dep, uids, crCache, worker, ops>>

Hear == HearMyCRD \/ HearDeployment

(* The manager ends and starts again: it lists the objects and queues them. *)
Restart ==
    /\ Return
    /\ crCache' = cr /\ depCache' = dep
    /\ crWatch' = <<>> /\ depWatch' = <<>>
    /\ queued' = (cr # NoCR \/ dep.owner \in Uid)
    /\ UNCHANGED <<cr, dep, uids>>

(* A call fails although the API server may have done it. *)
CallFails ==
    /\ pc \in {"create", "update", "write status"}
    /\ \/ pc = "create" /\ Creatable /\ Created /\ UNCHANGED crVars
       \/ pc = "update" /\ Updatable /\ Updated /\ UNCHANGED crVars
       \/ pc = "write status" /\ cr = my
          /\ PutCR([cr EXCEPT !.status = read.available]) /\ UNCHANGED depVars
       \/ UNCHANGED <<crVars, depVars>>
    /\ Error
    /\ UNCHANGED <<uids, caches>>

--------------------------------------------------------------------------------
(* The rest of the cluster. *)

(* The garbage collector deletes a Deployment whose owner's uid is gone, or  *)
(* whose owner waits for that.                                               *)
CollectGarbage ==
    /\ dep.owner \in Uid /\ (dep.owner = cr.uid => cr.deleting)
    /\ PutDep(NoDep)
    /\ UNCHANGED <<crVars, uids, caches, queued, worker, ops>>

(* It lets the object go when it knows of no Deployment; Reconcile, which    *)
(* does not look at the deletionTimestamp, may have made one again.          *)
FinishDeletion ==
    /\ cr.deleting
    /\ PutCR(NoCR)
    /\ UNCHANGED <<depVars, uids, caches, queued, worker, ops>>

PodsStart ==
    /\ dep.there /\ dep.available # dep.template.replicas
    /\ PutDep([dep EXCEPT !.available = dep.template.replicas])
    /\ UNCHANGED <<crVars, uids, caches, queued, worker, ops>>

CreateMyCRD ==
    /\ cr = NoCR /\ uids < MaxUid
    /\ uids' = uids + 1
    /\ \E spec \in CRSpec : PutCR(NewCR(uids', spec))
    /\ UNCHANGED depVars

EditMyCRD ==
    /\ cr # NoCR
    /\ \E spec \in CRSpec \ {cr.spec} :
         PutCR([cr EXCEPT !.spec = spec, !.gen = @ + 1])
    /\ UNCHANGED <<depVars, uids>>

(* In the background, or in the foreground. *)
DeleteMyCRD ==
    /\ cr # NoCR
    /\ \/ PutCR(NoCR)
       \/ ~cr.deleting /\ PutCR([cr EXCEPT !.deleting = TRUE, !.gen = @ + 1])
    /\ UNCHANGED <<depVars, uids>>

(* kubectl scale, edit, delete on the Deployment, and pods that die. *)
EditDeployment ==
    /\ dep.there
    /\ \/ \E t \in Template \ {dep.template} :
            Valid(t) /\ PutDep([dep EXCEPT !.template = t])
       \/ dep.available # 0 /\ PutDep([dep EXCEPT !.available = 0])
       \/ PutDep(NoDep)
    /\ UNCHANGED <<crVars, uids>>

(* Somebody else creates a Deployment of that name. *)
CreateForeign ==
    /\ ~dep.there
    /\ \E owner \in {NoOwner, OtherOwner}, selectsUs \in BOOLEAN :
         PutDep([NoDep EXCEPT !.there = TRUE, !.owner = owner, !.selectsUs = selectsUs])
    /\ UNCHANGED <<crVars, uids>>

Environment ==
    /\ ops < MaxOps /\ ops' = ops + 1
    /\ \/ /\ \/ CreateMyCRD \/ EditMyCRD \/ DeleteMyCRD
             \/ EditDeployment \/ CreateForeign
          /\ UNCHANGED <<caches, queued, worker>>
       \/ Restart
       \/ CallFails

Next ==
    \/ Reconcile \/ Hear \/ CollectGarbage \/ FinishDeletion \/ PodsStart
    \/ Environment

(* The worker and the caches run on, errors are retried, and the cluster's *)
(* own controllers do their work.  Users, failures and crashes need not,   *)
(* and a deletion in the foreground need not end, for Reconcile may make   *)
(* the Deployment again each time it goes.                                 *)
Fairness ==
    /\ WF_vars(Reconcile)
    /\ WF_vars(HearMyCRD) /\ WF_vars(HearDeployment)
    /\ WF_vars(CollectGarbage) /\ WF_vars(PodsStart)

Spec == Init /\ [][Next]_vars /\ Fairness

--------------------------------------------------------------------------------
TypeOK ==
    /\ cr \in CR \cup {NoCR} /\ crCache \in CR \cup {NoCR} /\ my \in CR \cup {NoCR}
    /\ dep \in Dep \cup {NoDep} /\ depCache \in Dep \cup {NoDep}
    /\ read \in Dep \cup {NoDep}
    /\ crWatch \in Seq(CR \cup {NoCR}) /\ depWatch \in Seq(Dep \cup {NoDep})
    /\ queued \in BOOLEAN
    /\ pc \in {"idle", "get deployment", "create", "update", "read status",
               "write status"}
    /\ uids \in 0 .. MaxUid /\ ops \in 0 .. MaxOps

(* Reconcile changes a Deployment only if that has no controller or is its   *)
(* own MyCRD object's, even when another controller takes it between the     *)
(* read of the cache and the write; and never one whose selector is foreign. *)
NeverSteals ==
    [][(pc \in {"create", "update"} /\ pc' # pc /\ dep' # dep /\ dep.there)
          => (dep.owner \in {NoOwner, my.uid} /\ dep.selectsUs)]_vars

(* Nothing keeps this MyCRD object from having its Deployment. *)
Feasible ==
    /\ cr # NoCR /\ ~cr.deleting /\ Valid(Desired(cr.spec))
    /\ dep.there => dep.owner # OtherOwner /\ dep.selectsUs

(* When the users rest, the Deployment is the one the MyCRD object asks for: *)
(* whatever drifted, was deleted, failed or crashed, and however stale the   *)
(* caches were.                                                              *)
SpecConverges ==
    <>[](Feasible => dep.owner = cr.uid /\ dep.template = Desired(cr.spec))

(* ... and its status counts the pods that are available. *)
StatusConverges ==
    <>[](Feasible => cr.status = dep.available /\ cr.status = Desired(cr.spec).replicas)

(* A Deployment that Reconcile created and whose MyCRD object is gone. *)
Orphan == dep.made /\ (cr = NoCR \/ dep.owner # cr.uid)

(* A Deployment that Reconcile created goes with its MyCRD object, even if   *)
(* it was created from a stale cache after the object was deleted            *)
(* (mycrd_controller.go:75).                                                 *)
OrphansAreCollected == <>[]~Orphan
================================================================================
