---------------------- MODULE LandscaperDeploymentsProofs ----------------------
(***************************************************************************)
(* Proofs about the LandscaperDeployment controller and the controllers it *)
(* shares Instances and ServiceTargetConfigs with, for every number of     *)
(* deployments, Instances and ServiceTargetConfigs and all bounds.         *)
(*                                                                         *)
(* The argument is one of protection.  A live Instance has a deployment    *)
(* with a finalizer, and is the only one that the deployment's reference,  *)
(* stored or just found, can mean; a worker that is about to create one    *)
(* or to remove the finalizer has made sure that there is none, and while  *)
(* it does so nobody else makes one.  A list that is written is the one    *)
(* that was read, and misses or loses only the worker's own Instance.      *)
(***************************************************************************)
EXTENDS LandscaperDeployments, TLAPS

-----------------------------------------------------------------------------
(***************************************************************************)
(* The inductive invariant.                                                *)
(***************************************************************************)
CreateSteps ==
  {"ensure", "update", "create", "get", "status", "getTarget", "append"}
RemoveSteps == {"delete", "clear", "unfinalize"}

\* Only a deployment with its finalizer refers to an Instance, or is deleted
\* and still there.
DeploymentInv ==
  \A d \in Deployments :
    /\ dep[d].finalizer => dep[d].state \in {"present", "deleting"}
    /\ dep[d].state = "deleting" => dep[d].finalizer
    /\ ~dep[d].finalizer => dep[d].ref = Nil

\* An Instance has an owner and a ServiceTargetConfig, and as long as it lives
\* the owner has its finalizer.
InstanceInv ==
  \A n \in Names :
    /\ insts[n].state # "unused" =>
         insts[n].owner \in Deployments /\ insts[n].target \in Targets
    /\ insts[n].state = "deleting" => insts[n].finalizer
    /\ insts[n].finalizer => Live(n)
    /\ Live(n) => dep[insts[n].owner].finalizer

\* The reference r of the deployment d means the only Instance of d, if d has
\* one.
Only(d, r) ==
  r # Nil => /\ Owned(d) \subseteq {r}
             /\ insts[r].owner = d /\ insts[r].state # "unused"

ReferenceInv == \A d \in Deployments : Only(d, dep[d].ref)

\* What the two resources say of each other.
ClusterInv == DeploymentInv /\ InstanceInv /\ OneInstance /\ ReferenceInv

\* What the worker's copy still tells of the deployment.
CopyInv ==
  /\ pc = "idle" => cur = None
  /\ pc # "idle" =>
       /\ cur \in Deployments
       /\ copy.state \in {"present", "deleting"}
       /\ fresh => /\ copy.state = dep[cur].state
                   /\ copy.finalizer = dep[cur].finalizer
       /\ pc \in CreateSteps \cup {"finalizer"} => copy.state = "present"
       /\ pc \in RemoveSteps => copy.state = "deleting"
       /\ pc # "finalizer" /\ (fresh \/ pc # "error") => dep[cur].finalizer
       /\ copy.state = "deleting" /\ dep[cur].finalizer => dep[cur].state = "deleting"
       /\ Only(cur, copy.ref)
       /\ pc \notin {"finalizer", "adopt", "get", "status", "clear", "error"} =>
            copy.ref = dep[cur].ref

\* The name in use is the reference of the copy, and without one there is no
\* Instance; nor is there one when it is created, or the deployment goes.
NameInv ==
  /\ pc \in CreateSteps \cup {"delete"} => name = copy.ref
  /\ pc \in {"idle", "lookup", "adopt"} => name = Nil
  /\ pc \in {"update", "get", "status", "getTarget", "append", "delete"} =>
       name # Nil
  /\ pc = "adopt" => copy.ref # Nil
  /\ pc = "ensure" /\ name = Nil => Owned(cur) = {}
  /\ pc \in {"create", "clear", "unfinalize"} => Owned(cur) = {}

\* The list at hand is that of the Instance's ServiceTargetConfig, or will be
\* refused; an entry seen in it is still there as long as it is needed.
TargetInv ==
  /\ pc = "create" => target \in Targets
  /\ pc \in {"status", "getTarget", "append"} =>
       target \in Targets /\ target = insts[name].target
  /\ pc = "append" /\ refsFresh => refs = listed[target]
  /\ pc = "append" /\ name \in refs /\ insts[name].state = "present"
       /\ stc[target].state # "gone" => name \in listed[target]

\* The Instance controller has a deleted Instance at hand until it lets it go.
InstanceWorkerInv ==
  /\ ipc # "idle" => inst \in Names /\ insts[inst].state = "deleting"
  /\ ipc = "release" /\ irefsFresh => irefs = listed[insts[inst].target]

\* Of an Instance that nobody has deleted directly: the worker deletes it only
\* for a deployment that is deleted, and to one that is not it stands for an
\* Instance that is there; it is in the list of its own ServiceTargetConfig
\* only, and not put back after it was taken out.
UndisturbedInv ==
  \A n \in Names \ direct :
    /\ insts[n].state = "deleting" =>
         /\ dep[insts[n].owner].state = "deleting"
         /\ cur = insts[n].owner => copy.state = "deleting"
    /\ \A d \in Deployments :
         dep[d].state = "present" /\ dep[d].ref = n => insts[n].state = "present"
    /\ pc # "idle" /\ copy.state = "present" /\ copy.ref = n =>
         insts[n].state = "present"
    /\ \A t \in Targets : n \in listed[t] =>
         insts[n].state # "unused" /\ insts[n].target = t
    /\ ipc = "unfinalize" /\ inst = n => \A t \in Targets : n \notin listed[t]

IndInv ==
  /\ TypeOK /\ ClusterInv /\ CopyInv /\ NameInv /\ TargetInv
  /\ InstanceWorkerInv /\ NotForgotten /\ UndisturbedInv

-----------------------------------------------------------------------------
(***************************************************************************)
(* Types.                                                                  *)
(***************************************************************************)
LEMMA RecordTypes ==
  /\ New \in DeploymentState /\ Gone \in DeploymentState /\ Unused \in InstanceState
  /\ [New EXCEPT !.state = "present", !.spec = 1] \in DeploymentState
<1>1. 0 \in 0 .. MaxSpec /\ 1 \in 0 .. MaxSpec
  BY BoundsAssumption
<1> QED
  BY <1>1 DEF New, Gone, Unused, DeploymentState, InstanceState

LEMMA OutcomeType ==
  ASSUME TypeOK, NEW o \in Outcomes, Outcome(o) PROVE faults' \in 0 .. MaxFaults
BY BoundsAssumption DEF TypeOK, Outcome

LEMMA FailOutcomeType ==
  ASSUME TypeOK, Outcome("fail") PROVE faults' \in 0 .. MaxFaults
BY OutcomeType DEF Outcomes

LEMMA DeletedType ==
  /\ \A r \in DeploymentState : Deleted(r) \in DeploymentState
  /\ \A r \in InstanceState : Deleted(r) \in InstanceState
BY DEF Deleted, DeploymentState, InstanceState

LEMMA FinishType ==
  ASSUME Finish
  PROVE  /\ pc' \in Steps /\ cur' \in Deployments \cup {None}
         /\ copy' \in DeploymentState /\ fresh' \in BOOLEAN
         /\ name' \in Names \cup {Nil} /\ target' \in Targets \cup {None}
         /\ refs' \subseteq Names /\ refsFresh' \in BOOLEAN /\ nameFresh' \in BOOLEAN
BY RecordTypes DEF Finish, Steps

\* What a status update leaves as it is.
LEMMA StoreStatusEffect ==
  ASSUME TypeOK, CopyInv, pc # "idle", NEW o \in Outcomes,
         dep' = [dep EXCEPT ![cur].ref = copy.ref] \/ UNCHANGED dep
  PROVE  /\ dep' \in [Deployments -> DeploymentState]
         /\ \A d \in Deployments :
              /\ dep'[d].state = dep[d].state
              /\ dep'[d].finalizer = dep[d].finalizer
              /\ d # cur => dep'[d].ref = dep[d].ref
              /\ dep'[d].ref \in {dep[d].ref, copy.ref}
<1>1. copy.ref \in Names \cup {Nil}
  BY DEF TypeOK, DeploymentState
<1>2. \A d \in Deployments : dep[d] \in DeploymentState
  BY DEF TypeOK
<1>3. cur \in Deployments
  BY DEF CopyInv
<1> QED
  BY <1>1, <1>2, <1>3 DEF TypeOK, DeploymentState

LEMMA OutdateInstanceType ==
  ASSUME TypeOK, NEW n \in Names, insts'[n].owner \in Deployments, OutdateInstance(n)
  PROVE  instFresh' \in BOOLEAN /\ queue' \subseteq Deployments
BY DEF TypeOK, OutdateInstance

LEMMA InitType == Init => TypeOK
<1> SUFFICES ASSUME Init PROVE TypeOK
  OBVIOUS
<1>1. /\ dep \in [Deployments -> DeploymentState]
      /\ insts \in [Names -> InstanceState] /\ copy \in DeploymentState
  BY RecordTypes DEF Init
<1>2. stc \in [Targets -> TargetState]
  BY DEF Init, TargetState
<1>3. faults \in 0 .. MaxFaults /\ user \in 0 .. MaxUser /\ touched \in 0 .. MaxTouch
  BY BoundsAssumption DEF Init
<1> QED
  BY <1>1, <1>2, <1>3 DEF Init, TypeOK, Steps

\* Every step of the deployment worker keeps the types.
LEMMA DeploymentControllerType ==
  ASSUME IndInv, DeploymentController PROVE TypeOK'
<1> USE DEF IndInv, Goto, Fail, depWorker, instWorker
<1>1. ASSUME NEW d \in Deployments, StartReconcile(d) PROVE TypeOK'
  BY <1>1 DEF StartReconcile, TypeOK, Steps
<1>2. CASE \/ LookupInStatus \/ LookupFindsNothing
           \/ \E n \in Names : LookupOnCluster(n)
  BY <1>2 DEF LookupInStatus, LookupFindsNothing, LookupOnCluster, AfterLookup,
              TypeOK, Steps, DeploymentState
<1>3. CASE LookupFails \/ EnsureFails \/ GetInstanceFails \/ GetTargetFails
  BY <1>3, FailOutcomeType
     DEF LookupFails, EnsureFails, GetInstanceFails, GetTargetFails, TypeOK, Steps
<1>4. CASE \/ FindInstance \/ GetInstance \/ GetTarget \/ InstanceNotFound
           \/ \E t \in Targets : Schedule(t)
  <2>1. CASE GetInstance
    <3>1. insts[name] \in InstanceState
      BY <1>4, <2>1 DEF GetInstance, NameInv, TypeOK, Nil
    <3> QED
      BY <2>1, <3>1 DEF GetInstance, TypeOK, Steps, InstanceState
  <2>2. CASE GetTarget
    BY <2>2 DEF GetTarget, TargetInv, TypeOK, Steps
  <2> QED
    BY <1>4, <2>1, <2>2
       DEF FindInstance, InstanceNotFound, Schedule, TypeOK, Steps, DeploymentState
<1>5. CASE NothingToAppend
  BY <1>5, FinishType DEF NothingToAppend, TypeOK
<1>6. ASSUME NEW o \in Outcomes, AddFinalizer(o) \/ HandleError(o) PROVE TypeOK'
  <2>1. cur \in Deployments /\ faults' \in 0 .. MaxFaults
    BY <1>6, OutcomeType DEF AddFinalizer, HandleError, CopyInv
  <2>2. dep' \in [Deployments -> DeploymentState]
    <3>1. CASE AddFinalizer(o)
      BY <2>1, <3>1 DEF AddFinalizer, TypeOK, DeploymentState
    <3>2. CASE HandleError(o)
      BY <2>1, <3>2 DEF HandleError, TypeOK, DeploymentState
    <3> QED
      BY <1>6, <3>1, <3>2
  <2> QED
    BY <1>6, <2>1, <2>2, FinishType DEF AddFinalizer, HandleError, TypeOK
<1>7. ASSUME NEW o \in Outcomes, Adopt(o) \/ UpdateStatus(o) \/ ClearRef(o)
      PROVE  TypeOK'
  <2>1. cur \in Deployments /\ faults' \in 0 .. MaxFaults
    BY <1>7, OutcomeType DEF Adopt, UpdateStatus, ClearRef, CopyInv
  <2>2. dep' \in [Deployments -> DeploymentState] /\ queue' \subseteq Deployments
    BY <1>7, <2>1 DEF Adopt, UpdateStatus, ClearRef, StoreStatus, TypeOK, DeploymentState
  <2> QED
    BY <1>7, <2>1, <2>2
       DEF Adopt, UpdateStatus, ClearRef, AfterLookup, TypeOK, Steps, DeploymentState
<1>8. ASSUME NEW o \in Outcomes, RemoveFinalizer(o) PROVE TypeOK'
  <2>1. dep' \in [Deployments -> DeploymentState] /\ faults' \in 0 .. MaxFaults
    BY <1>8, OutcomeType, RecordTypes DEF RemoveFinalizer, TypeOK
  <2> QED
    BY <1>8, <2>1, FinishType DEF RemoveFinalizer, TypeOK, Steps
<1>9. ASSUME NEW o \in Outcomes, UpdateInstance(o) PROVE TypeOK'
  <2>1. name \in Names /\ insts[name].owner \in Deployments /\ copy.spec \in 0 .. MaxSpec
    <3>1. name \in Names /\ copy.ref = name /\ cur \in Deployments /\ Only(cur, copy.ref)
      BY <1>9 DEF UpdateInstance, NameInv, CopyInv, CreateSteps, TypeOK
    <3> QED
      BY <3>1 DEF Only, Names, Nil, TypeOK, DeploymentState
  <2>2. insts' \in [Names -> InstanceState] /\ faults' \in 0 .. MaxFaults
    BY <1>9, <2>1, OutcomeType DEF UpdateInstance, TypeOK, InstanceState
  <2>3. insts'[name].owner = insts[name].owner
    BY <1>9, <2>1 DEF UpdateInstance, TypeOK, InstanceState
  <2>4. instFresh' \in BOOLEAN /\ queue' \subseteq Deployments
    BY <1>9, <2>1, <2>3, OutdateInstanceType DEF UpdateInstance, TypeOK
  <2> QED
    BY <1>9, <2>2, <2>4 DEF UpdateInstance, TypeOK, Steps
<1>10. ASSUME NEW n \in Names, NEW o \in Outcomes, CreateInstance(n, o) PROVE TypeOK'
  <2>1. cur \in Deployments /\ target \in Targets /\ copy.spec \in 0 .. MaxSpec
    BY <1>10 DEF CreateInstance, CopyInv, TargetInv, TypeOK, DeploymentState
  <2>2. faults' \in 0 .. MaxFaults
    BY <1>10, OutcomeType DEF CreateInstance
  <2>3. [state |-> "present", finalizer |-> FALSE, owner |-> cur,
         target |-> target, spec |-> copy.spec] \in InstanceState
    BY <2>1 DEF InstanceState
  <2>4. insts' \in [Names -> InstanceState]
    BY <1>10, <2>3 DEF CreateInstance, TypeOK
  <2>5. instFresh' \in BOOLEAN /\ queue' \subseteq Deployments
    BY <1>10, <2>1, OutdateInstanceType DEF CreateInstance, TypeOK
  <2> QED
    BY <1>10, <2>1, <2>2, <2>4, <2>5 DEF CreateInstance, TypeOK, Steps, DeploymentState
<1>11. ASSUME NEW o \in Outcomes, Append(o) PROVE TypeOK'
  <2>1. name \in Names /\ faults' \in 0 .. MaxFaults
    BY <1>11, OutcomeType DEF Append, NameInv, TypeOK
  <2>2. listed' \in [Targets -> SUBSET Names]
    <3>1. refs \cup {name} \in SUBSET Names
      BY <2>1 DEF TypeOK
    <3> QED
      BY <1>11, <3>1 DEF Append, TypeOK
  <2> QED
    BY <1>11, <2>1, <2>2, FinishType DEF Append, TypeOK, Steps, Nil
<1>12. ASSUME NEW o \in Outcomes, DeleteInstance(o) PROVE TypeOK'
  <2>1. name \in Names /\ insts[name].owner \in Deployments /\ faults' \in 0 .. MaxFaults
    BY <1>12, OutcomeType DEF DeleteInstance, Live, NameInv, InstanceInv, ClusterInv, TypeOK
  <2>2. insts' \in [Names -> InstanceState]
    BY <1>12, <2>1, DeletedType DEF DeleteInstance, TypeOK
  <2>3. insts'[name].owner = insts[name].owner
    BY <1>12, <2>1 DEF DeleteInstance, Deleted, TypeOK, InstanceState
  <2>4. instFresh' \in BOOLEAN /\ queue' \subseteq Deployments
    BY <1>12, <2>1, <2>3, OutdateInstanceType DEF DeleteInstance, TypeOK
  <2> QED
    BY <1>12, <2>1, <2>2, <2>4, FinishType DEF DeleteInstance, TypeOK, Steps
<1> QED
  BY <1>1, <1>2, <1>3, <1>4, <1>5, <1>6, <1>7, <1>8, <1>9, <1>10, <1>11, <1>12
     DEF DeploymentController

\* So does every step of the instance worker.
LEMMA InstanceControllerType ==
  ASSUME IndInv, InstanceController PROVE TypeOK'
<1> USE DEF IndInv, depWorker, instWorker
<1>1. ASSUME NEW n \in Names, AddInstanceFinalizer(n) PROVE TypeOK'
  <2>1. insts' \in [Names -> InstanceState] /\ insts'[n].owner = insts[n].owner
    BY <1>1 DEF AddInstanceFinalizer, TypeOK, InstanceState
  <2>2. insts[n].owner \in Deployments
    BY <1>1 DEF AddInstanceFinalizer, InstanceInv, ClusterInv
  <2> QED
    BY <1>1, <2>1, <2>2, OutdateInstanceType DEF AddInstanceFinalizer, OutdateName, TypeOK
<1>2. ASSUME NEW n \in Names, StartInstanceDeletion(n) PROVE TypeOK'
  BY <1>2 DEF StartInstanceDeletion, TypeOK
<1>3. CASE ReadList
  <2>1. inst \in Names /\ insts[inst].target \in Targets
    BY <1>3 DEF ReadList, InstanceWorkerInv, InstanceInv, ClusterInv
  <2> QED
    BY <1>3, <2>1 DEF ReadList, TypeOK
<1>4. CASE ReadListFails
  BY <1>4, FailOutcomeType DEF ReadListFails, FinishInst, TypeOK
<1>5. ASSUME NEW o \in Outcomes, Release(o) PROVE TypeOK'
  <2>1. faults' \in 0 .. MaxFaults
    BY <1>5, OutcomeType DEF Release
  <2>2. listed' \in [Targets -> SUBSET Names] /\ refsFresh' \in BOOLEAN
    BY <1>5 DEF Release, TypeOK
  <2> QED
    BY <1>5, <2>1, <2>2 DEF Release, FinishInst, TypeOK
<1>6. ASSUME NEW o \in Outcomes, RemoveInstanceFinalizer(o) PROVE TypeOK'
  <2>1. inst \in Names /\ insts[inst].owner \in Deployments /\ faults' \in 0 .. MaxFaults
    BY <1>6, OutcomeType
       DEF RemoveInstanceFinalizer, InstanceWorkerInv, InstanceInv, ClusterInv
  <2>2. insts' \in [Names -> InstanceState]
    BY <1>6, <2>1 DEF RemoveInstanceFinalizer, TypeOK, InstanceState
  <2> QED
    BY <1>6, <2>1, <2>2 DEF RemoveInstanceFinalizer, OutdateName, FinishInst, TypeOK
<1> QED
  BY <1>1, <1>2, <1>3, <1>4, <1>5, <1>6 DEF InstanceController, ReconcileInstance

\* So do the users, the restart of the process and the end of a ServiceTargetConfig.
LEMMA SurroundingsType ==
  ASSUME IndInv, Users \/ Restart \/ \E t \in Targets : RemoveTargetFinalizer(t)
  PROVE  TypeOK'
<1> USE DEF IndInv, depWorker, instWorker
<1>1. ASSUME NEW d \in Deployments, NEW r \in DeploymentState,
             WriteDeployment(d, r), user' \in 0 .. MaxUser
      PROVE  TypeOK'
  BY <1>1 DEF WriteDeployment, TypeOK
<1>2. ASSUME NEW d \in Deployments,
             CreateDeployment(d) \/ UpdateDeployment(d) \/ DeleteDeployment(d)
      PROVE  TypeOK'
  <2>1. user' \in 0 .. MaxUser
    BY <1>2, BoundsAssumption
       DEF CreateDeployment, UpdateDeployment, DeleteDeployment, TypeOK
  <2>2. CASE CreateDeployment(d)
    BY <1>1, <2>1, <2>2, RecordTypes DEF CreateDeployment
  <2>3. CASE UpdateDeployment(d)
    <3>1. dep[d] \in DeploymentState /\ dep[d].spec + 1 \in 0 .. MaxSpec
      BY <2>3, BoundsAssumption DEF UpdateDeployment, TypeOK, DeploymentState
    <3>2. [dep[d] EXCEPT !.spec = @ + 1] \in DeploymentState
      BY <3>1 DEF DeploymentState
    <3> QED
      BY <1>1, <2>1, <2>3, <3>2 DEF UpdateDeployment
  <2>4. CASE DeleteDeployment(d)
    BY <1>1, <2>1, <2>4, DeletedType DEF DeleteDeployment, TypeOK
  <2> QED
    BY <1>2, <2>2, <2>3, <2>4
<1>3. ASSUME NEW n \in Names, DeleteInstanceDirectly(n) PROVE TypeOK'
  <2>1. insts' \in [Names -> InstanceState] /\ insts[n].owner \in Deployments
    BY <1>3, DeletedType DEF DeleteInstanceDirectly, InstanceInv, ClusterInv, TypeOK
  <2>2. insts'[n].owner = insts[n].owner
    BY <1>3 DEF DeleteInstanceDirectly, Deleted, TypeOK, InstanceState
  <2>3. user' \in 0 .. MaxUser
    BY <1>3, BoundsAssumption DEF DeleteInstanceDirectly, TypeOK
  <2> QED
    BY <1>3, <2>1, <2>2, <2>3, OutdateInstanceType
       DEF DeleteInstanceDirectly, OutdateName, TypeOK
<1>4. ASSUME NEW t \in Targets,
             WriteTarget(t) \/ DeleteTarget(t) \/ RemoveTargetFinalizer(t)
      PROVE  TypeOK'
  <2>1. stc' \in [Targets -> TargetState]
    BY <1>4 DEF WriteTarget, DeleteTarget, RemoveTargetFinalizer, TypeOK, TargetState
  <2>2. touched' \in 0 .. MaxTouch
    BY <1>4, BoundsAssumption
       DEF WriteTarget, DeleteTarget, RemoveTargetFinalizer, TypeOK
  <2>3. listed' \in [Targets -> SUBSET Names]
    BY <1>4 DEF WriteTarget, DeleteTarget, RemoveTargetFinalizer, TypeOK
  <2> QED
    BY <1>4, <2>1, <2>2, <2>3
       DEF WriteTarget, DeleteTarget, RemoveTargetFinalizer, OutdateTarget, TypeOK
<1>5. CASE Restart
  <2>1. faults' \in 0 .. MaxFaults
    BY <1>5, BoundsAssumption DEF Restart, TypeOK
  <2> QED
    BY <1>5, <2>1, FinishType DEF Restart, FinishInst, TypeOK
<1> QED
  BY <1>2, <1>3, <1>4, <1>5 DEF Users

LEMMA NextType == IndInv /\ [Next]_vars => TypeOK'
<1> SUFFICES ASSUME IndInv, [Next]_vars PROVE TypeOK'
  OBVIOUS
<1>1. CASE UNCHANGED vars
  BY <1>1 DEF IndInv, TypeOK, vars, depWorker, instWorker
<1> QED
  BY <1>1, DeploymentControllerType, InstanceControllerType, SurroundingsType DEF Next

-----------------------------------------------------------------------------
(***************************************************************************)
(* What disturbs which part of the invariant.                              *)
(***************************************************************************)
clusterVars == <<dep, insts, stc, listed>>

\* What the deployment worker knows, but for whether it can write the Instance.
workerData == <<pc, cur, copy, fresh, name, target, refs, refsFresh>>

LEMMA OwnedSame ==
  ASSUME \A n \in Names : /\ insts'[n].state = insts[n].state
                          /\ insts'[n].owner = insts[n].owner
  PROVE  \A d \in Deployments : Owned(d)' = Owned(d)
BY DEF Owned, Live

LEMMA ClusterFrame ==
  ASSUME ClusterInv, UNCHANGED <<dep, insts>> PROVE ClusterInv'
BY DEF ClusterInv, DeploymentInv, InstanceInv, OneInstance, ReferenceInv, Only,
       Owned, Live

LEMMA InstanceWorkerFrame ==
  ASSUME InstanceWorkerInv, UNCHANGED <<insts, listed, ipc, inst, irefs>>,
         irefsFresh' => irefsFresh
  PROVE  InstanceWorkerInv'
BY DEF InstanceWorkerInv

\* Nothing is said about an idle worker.
LEMMA FinishWorker == ASSUME Finish PROVE CopyInv' /\ NameInv' /\ TargetInv'
BY DEF Finish, CopyInv, NameInv, TargetInv, CreateSteps

\* Nor does one that failed rely on names and lists.
LEMMA FailWorker ==
  ASSUME CopyInv, pc \notin {"idle", "finalizer"}, Fail, Owned(cur)' \subseteq Owned(cur),
         UNCHANGED <<dep, cur, copy>>, fresh' => fresh,
         copy.ref # Nil => /\ insts'[copy.ref].owner = insts[copy.ref].owner
                           /\ insts'[copy.ref].state # "unused"
  PROVE  CopyInv' /\ NameInv' /\ TargetInv'
BY DEF Fail, Goto, CopyInv, NameInv, TargetInv, CreateSteps, RemoveSteps, Only

\* A worker is not disturbed by what leaves its deployment, the names of its
\* Instances and the lists as they are.
LEMMA WorkerFrame ==
  ASSUME CopyInv, NameInv, TargetInv, InstanceInv, TypeOK,
         UNCHANGED <<dep, stc, listed, workerData>>,
         \A n \in Names : /\ Live(n)' => Live(n)
                          /\ insts[n].state # "present" => insts'[n].state # "present"
                          /\ insts[n].state # "unused" => insts'[n].state # "unused"
                          /\ insts'[n].owner = insts[n].owner
                          /\ insts'[n].target = insts[n].target
  PROVE  CopyInv' /\ NameInv' /\ TargetInv'
<1>1. \A d \in Deployments : Owned(d)' \subseteq Owned(d)
  BY DEF Owned
<1> USE DEF workerData
<1>2. copy.ref \in Names \cup {Nil} /\ name \in Names \cup {Nil}
  BY DEF TypeOK, DeploymentState
<1>3. CopyInv'
  BY <1>1, <1>2 DEF CopyInv, Only
<1>4. NameInv'
  <2>1. pc \in CreateSteps \cup RemoveSteps => cur \in Deployments
    BY DEF CopyInv, CreateSteps, RemoveSteps
  <2> QED
    BY <1>1, <2>1 DEF NameInv, CreateSteps, RemoveSteps
<1>5. TargetInv'
  BY <1>2 DEF TargetInv, NameInv
<1> QED
  BY <1>3, <1>4, <1>5

\* The deployment and its Instances move on together: a step that leaves the
\* lists and the states of Instances as they are, and refers to none but those
\* that are there.
LEMMA UndisturbedFrame ==
  ASSUME UndisturbedInv, TypeOK, InstanceInv, UNCHANGED <<listed, ipc, inst>>,
         direct \subseteq direct',
         \A n \in Names : /\ insts'[n].state = insts[n].state
                          /\ insts'[n].owner = insts[n].owner
                          /\ insts'[n].target = insts[n].target
                          /\ insts[n].state = "deleting" =>
                               UNCHANGED dep[insts[n].owner].state,
         \A d \in Deployments : dep'[d].state = "present" /\ dep'[d].ref # Nil =>
           \/ dep[d].state = "present" /\ dep[d].ref = dep'[d].ref
           \/ pc # "idle" /\ copy.state = "present" /\ copy.ref = dep'[d].ref,
         \/ cur' = None /\ pc' = "idle"
         \/ /\ pc # "idle" /\ cur' = cur /\ copy'.state = copy.state
            /\ copy.state = "present" =>
                 \/ copy'.ref \in {copy.ref, Nil}
                 \/ insts[copy'.ref].state = "present" \/ copy'.ref \in direct
  PROVE  UndisturbedInv'
<1> SUFFICES ASSUME NEW n \in Names \ direct'
             PROVE  /\ insts'[n].state = "deleting" =>
                         /\ dep'[insts'[n].owner].state = "deleting"
                         /\ cur' = insts'[n].owner => copy'.state = "deleting"
                    /\ \A d \in Deployments : dep'[d].state = "present" /\ dep'[d].ref = n =>
                                               insts'[n].state = "present"
                    /\ pc' # "idle" /\ copy'.state = "present" /\ copy'.ref = n =>
                         insts'[n].state = "present"
                    /\ \A t \in Targets : n \in listed'[t] =>
                         insts'[n].state # "unused" /\ insts'[n].target = t
                    /\ ipc' = "unfinalize" /\ inst' = n =>
                         \A t \in Targets : n \notin listed'[t]
  BY DEF UndisturbedInv
<1>1. n \in Names \ direct /\ n # Nil
  BY DEF Names, Nil
<1>2. insts[n].state = "deleting" => insts[n].owner \in Deployments
  BY <1>1 DEF InstanceInv
<1> QED
  BY <1>1, <1>2, NoneAssumption DEF UndisturbedInv

LEMMA NotForgottenFrame ==
  ASSUME NotForgotten, UNCHANGED <<stc, listed>>,
         \A n \in Names : /\ insts'[n].state = "present" => insts[n].state = "present"
                          /\ insts'[n].owner = insts[n].owner
                          /\ insts'[n].target = insts[n].target,
         queue \cup {cur} \subseteq queue' \cup {cur'}
  PROVE  NotForgotten'
BY DEF NotForgotten

-----------------------------------------------------------------------------
(***************************************************************************)
(* The steps of the deployment worker.                                     *)
(***************************************************************************)

\* A step of the worker alone, at the deployment it has.
LEMMA LocalStep ==
  ASSUME IndInv, TypeOK', CopyInv', NameInv', TargetInv',
         UNCHANGED <<clusterVars, queue, cur, ipc, inst, irefs, irefsFresh, direct>>,
         pc # "idle", copy'.state = copy.state,
         copy.state = "present" =>
           \/ copy'.ref \in {copy.ref, Nil}
           \/ insts[copy'.ref].state = "present" \/ copy'.ref \in direct
  PROVE  IndInv'
<1> USE DEF IndInv, clusterVars
<1>1. UndisturbedInv'
  BY UndisturbedFrame DEF ClusterInv
<1> QED
  BY <1>1, ClusterFrame, InstanceWorkerFrame, NotForgottenFrame

LEMMA LookupStep ==
  ASSUME IndInv, TypeOK',
         \/ LookupInStatus \/ LookupFindsNothing \/ LookupFails \/ InstanceNotFound
         \/ \E n \in Names : LookupOnCluster(n)
  PROVE  IndInv'
<1> USE DEF IndInv, instWorker, clusterVars
<1>1. CopyInv
  OBVIOUS
<1>2. CASE LookupInStatus
  <2>1. CopyInv' /\ NameInv' /\ TargetInv'
    BY <1>2 DEF LookupInStatus, AfterLookup, Goto, CopyInv, NameInv, TargetInv, Only, Owned, Live,
                CreateSteps, RemoveSteps
  <2> QED
    BY <1>2, <2>1, LocalStep DEF LookupInStatus
<1>3. CASE LookupFindsNothing
  <2>1. CopyInv' /\ NameInv' /\ TargetInv'
    BY <1>3 DEF LookupFindsNothing, Goto, CopyInv, NameInv, TargetInv, Only, Owned, Live,
                CreateSteps, RemoveSteps
  <2> QED
    BY <1>3, <2>1, LocalStep DEF LookupFindsNothing
<1>4. CASE LookupFails
  <2>1. CopyInv' /\ NameInv' /\ TargetInv'
    BY <1>4 DEF LookupFails, Fail, Goto, CopyInv, NameInv, TargetInv, Only, Owned, Live,
                CreateSteps, RemoveSteps
  <2> QED
    BY <1>4, <2>1, LocalStep DEF LookupFails
<1>5. ASSUME NEW n \in Names, LookupOnCluster(n) PROVE IndInv'
  <2>1. /\ copy'.ref = n /\ copy'.state = copy.state
        /\ copy'.finalizer = copy.finalizer
    BY <1>5 DEF LookupOnCluster, TypeOK, DeploymentState
  <2>2. Only(cur, n) /\ n # Nil
    BY <1>5 DEF LookupOnCluster, Only, Owned, Live, OneInstance, ClusterInv, Names, Nil
  <2>3. CopyInv' /\ NameInv' /\ TargetInv'
    BY <1>5, <2>1, <2>2
       DEF LookupOnCluster, Goto, CopyInv, NameInv, TargetInv, Only, Owned, Live,
           CreateSteps, RemoveSteps
  <2>4. copy.state = "present" => insts[n].state = "present" \/ n \in direct
    BY <1>5 DEF LookupOnCluster, Owned, Live, UndisturbedInv
  <2> QED
    BY <1>5, <2>1, <2>3, <2>4, LocalStep DEF LookupOnCluster
<1>6. CASE InstanceNotFound
  <2>1. /\ copy'.ref = Nil /\ copy'.state = copy.state
        /\ copy'.finalizer = copy.finalizer
    BY <1>6 DEF InstanceNotFound, TypeOK, DeploymentState
  <2>2. Owned(cur) = {}
    BY <1>6 DEF InstanceNotFound, NameInv, CopyInv, Only, Owned
  <2>3. CopyInv' /\ NameInv' /\ TargetInv'
    BY <1>6, <2>1, <2>2
       DEF InstanceNotFound, Goto, CopyInv, NameInv, TargetInv, Only, Owned, Live,
           CreateSteps, RemoveSteps
  <2> QED
    BY <1>6, <2>1, <2>3, LocalStep DEF InstanceNotFound
<1> QED
  BY <1>2, <1>3, <1>4, <1>5, <1>6

LEMMA EnsureStep ==
  ASSUME IndInv, TypeOK',
         \/ EnsureFails \/ FindInstance \/ GetInstance \/ GetInstanceFails \/ GetTarget \/ GetTargetFails
         \/ \E t \in Targets : Schedule(t)
  PROVE  IndInv'
<1> USE DEF IndInv, instWorker, clusterVars
<1>1. CASE EnsureFails \/ GetInstanceFails \/ GetTargetFails
  <2>1. CopyInv' /\ NameInv' /\ TargetInv'
    BY <1>1 DEF EnsureFails, GetInstanceFails, GetTargetFails, Fail, Goto, CopyInv, NameInv,
                TargetInv, Only, Owned, Live, CreateSteps, RemoveSteps
  <2> QED
    BY <1>1, <2>1, LocalStep DEF EnsureFails, GetInstanceFails, GetTargetFails
<1>2. ASSUME NEW t \in Targets, Schedule(t) PROVE IndInv'
  <2>1. Owned(cur) = {}
    BY <1>2 DEF Schedule, Known, NameInv, CopyInv, Only, Owned, CreateSteps
  <2>2. CopyInv' /\ NameInv' /\ TargetInv'
    BY <1>2, <2>1 DEF Schedule, Goto, CopyInv, NameInv,
                TargetInv, Only, Owned, Live, CreateSteps, RemoveSteps
  <2> QED
    BY <1>2, <2>2, LocalStep DEF Schedule
<1>3. CASE GetInstance
  <2>1. insts[name].target \in Targets
    BY <1>3 DEF GetInstance, Live, InstanceInv, ClusterInv, NameInv, TypeOK, Nil
  <2>2. CopyInv' /\ NameInv' /\ TargetInv'
    BY <1>3, <2>1 DEF GetInstance, Goto, CopyInv, NameInv,
                TargetInv, Only, Owned, Live, CreateSteps, RemoveSteps
  <2> QED
    BY <1>3, <2>2, LocalStep DEF GetInstance
<1>4. CASE GetTarget
  <2>1. CopyInv' /\ NameInv' /\ TargetInv'
    BY <1>4 DEF GetTarget, Goto, CopyInv, NameInv,
                TargetInv, Only, Owned, Live, CreateSteps, RemoveSteps
  <2> QED
    BY <1>4, <2>1, LocalStep DEF GetTarget
<1>5. CASE FindInstance
  <2>1. CopyInv' /\ NameInv' /\ TargetInv'
    BY <1>5 DEF FindInstance, Known, Goto, CopyInv, NameInv,
                TargetInv, Only, Owned, Live, CreateSteps, RemoveSteps
  <2> QED
    BY <1>5, <2>1, LocalStep DEF FindInstance
<1> QED
  BY <1>1, <1>2, <1>3, <1>4, <1>5

\* The queued deployment is read.  One that is gone leaves nothing to do.
LEMMA StartReconcileStep ==
  ASSUME IndInv, TypeOK', NEW d \in Deployments, StartReconcile(d) PROVE IndInv'
<1> USE DEF IndInv, instWorker, clusterVars
<1>1. UNCHANGED clusterVars
  BY DEF StartReconcile
<1>2. /\ cur' = d => copy' = dep[d] /\ dep[d].state \in {"present", "deleting"}
      /\ cur' # d => cur' = None /\ dep[d].state \notin {"present", "deleting"} /\ pc' = "idle"
    BY NoneAssumption DEF StartReconcile, CopyInv, Goto
<1>3. CopyInv' /\ NameInv' /\ TargetInv'
  <2>1. CASE cur' # d
    BY <1>2, <2>1 DEF StartReconcile, CopyInv, NameInv, TargetInv, CreateSteps
  <2>2. CASE cur' = d
    <3>1. \/ pc' = "finalizer" /\ copy'.state = "present"
          \/ pc' = "lookup" /\ dep[d].finalizer /\ name' = Nil
      BY <1>2, <2>2
         DEF StartReconcile, Goto, CopyInv, NameInv, ClusterInv, DeploymentInv
    <3> QED
      BY <1>1, <1>2, <2>2, <3>1
       DEF StartReconcile, Goto, CopyInv, NameInv, TargetInv, CreateSteps, RemoveSteps,
           ClusterInv, ReferenceInv, DeploymentInv, Only, Owned, Live
  <2> QED
    BY <2>1, <2>2
<1>4. NotForgotten'
  <2> SUFFICES ASSUME NEW n \in Names, insts[n].state = "present",
                      insts[n].owner \in queue \cup {cur}
               PROVE  insts[n].owner \in queue' \cup {cur'}
    BY <1>1 DEF NotForgotten
  <2>1. insts[n].owner \in Deployments /\ dep[insts[n].owner].state \in {"present", "deleting"}
    BY DEF ClusterInv, InstanceInv, DeploymentInv, Live
  <2> QED
    BY <1>2, <2>1, NoneAssumption DEF StartReconcile, CopyInv
<1>5. UndisturbedInv'
  BY <1>1, <1>2, NoneAssumption
     DEF StartReconcile, Goto, UndisturbedInv, CopyInv, ClusterInv, InstanceInv,
         DeploymentInv
<1> QED
  BY <1>3, <1>4, <1>5, ClusterFrame, InstanceWorkerFrame DEF StartReconcile

\* A step that may write the finalizer or the status of the worker's deployment
\* and leaves it queued or at hand.
LEMMA StatusStep ==
  ASSUME IndInv, TypeOK', CopyInv', NameInv', TargetInv', cur \in Deployments,
         UNCHANGED <<insts, stc, listed, ipc, inst, irefs, irefsFresh, direct>>,
         \A d \in Deployments :
           /\ dep'[d].state = dep[d].state
           /\ d # cur => dep'[d].finalizer = dep[d].finalizer /\ dep'[d].ref = dep[d].ref,
         dep[cur].finalizer => dep'[cur].finalizer,
         dep'[cur].finalizer => dep[cur].state \in {"present", "deleting"},
         ~dep'[cur].finalizer => dep'[cur].ref = Nil,
         Only(cur, dep'[cur].ref),
         \/ dep'[cur].ref = dep[cur].ref
         \/ dep'[cur].ref = copy.ref /\ copy.state = dep[cur].state,
         queue \cup {cur} \subseteq queue' \cup {cur'}, pc # "idle",
         \/ cur' = None /\ pc' = "idle"
         \/ cur' = cur /\ copy' = copy
  PROVE  IndInv'
<1> USE DEF IndInv
<1>1. ClusterInv'
  <2>1. DeploymentInv' /\ InstanceInv' /\ OneInstance'
    BY DEF ClusterInv, DeploymentInv, InstanceInv, OneInstance, Live
  <2>2. ReferenceInv'
    BY DEF ClusterInv, ReferenceInv, Only, Owned, Live
  <2> QED
    BY <2>1, <2>2 DEF ClusterInv
<1>2. UndisturbedInv'
  <2>1. \A n \in Names : insts[n].state = "deleting" => insts[n].owner \in Deployments
    BY DEF ClusterInv, InstanceInv
  <2>2. \A d \in Deployments : dep'[d].state = "present" =>
          \/ dep[d].state = "present" /\ dep[d].ref = dep'[d].ref
          \/ copy.state = "present" /\ copy.ref = dep'[d].ref
    OBVIOUS
  <2> QED
    BY <2>1, <2>2, UndisturbedFrame DEF ClusterInv
<1> QED
  BY <1>1, <1>2, InstanceWorkerFrame, NotForgottenFrame

LEMMA AddFinalizerStep ==
  ASSUME IndInv, TypeOK', NEW o \in Outcomes, AddFinalizer(o) PROVE IndInv'
<1> USE DEF IndInv, instWorker
<1>1. cur \in Deployments /\ copy.state = "present"
  BY DEF AddFinalizer, CopyInv
<1>2. /\ \A d \in Deployments :
           /\ dep'[d].state = dep[d].state /\ dep'[d].ref = dep[d].ref
           /\ d # cur => dep'[d].finalizer = dep[d].finalizer
      /\ dep'[cur].finalizer = (dep[cur].finalizer \/ (fresh /\ o # "fail"))
  <2>1. CASE fresh /\ o # "fail"
    BY <1>1, <2>1 DEF AddFinalizer, TypeOK, DeploymentState
  <2>2. CASE ~(fresh /\ o # "fail")
    BY <1>1, <2>2 DEF AddFinalizer, TypeOK, DeploymentState
  <2> QED
    BY <2>1, <2>2
<1>3. Only(cur, dep'[cur].ref)
  BY <1>1, <1>2 DEF ClusterInv, ReferenceInv
<1>4. /\ dep'[cur].finalizer => dep[cur].state \in {"present", "deleting"}
      /\ ~dep'[cur].finalizer => dep'[cur].ref = Nil
  BY <1>1, <1>2 DEF AddFinalizer, CopyInv, ClusterInv, DeploymentInv
<1>5. cur' = None /\ pc' = "idle" /\ pc # "idle" /\ queue' = queue \cup {cur}
  BY DEF AddFinalizer, Finish
<1> QED
  BY <1>1, <1>2, <1>3, <1>4, <1>5, StatusStep, FinishWorker DEF AddFinalizer

LEMMA StoreStatusStep ==
  ASSUME IndInv, TypeOK', NEW o \in Outcomes,
         HandleError(o) \/ Adopt(o) \/ UpdateStatus(o) \/ ClearRef(o)
  PROVE  IndInv'
<1> USE DEF IndInv, instWorker
<1>1. /\ cur \in Deployments /\ pc \notin {"idle", "finalizer"} /\ Only(cur, copy.ref)
      /\ copy.ref \in Names \cup {Nil}
  BY DEF HandleError, Adopt, UpdateStatus, ClearRef, CopyInv, TypeOK, DeploymentState
<1>2. /\ \/ UNCHANGED dep
         \/ dep' = [dep EXCEPT ![cur].ref = copy.ref] /\ fresh
      /\ queue \cup {cur} \subseteq queue' \cup {cur'}
  BY DEF HandleError, Adopt, UpdateStatus, ClearRef, StoreStatus
<1>3. \A d \in Deployments :
        /\ dep'[d].state = dep[d].state /\ dep'[d].finalizer = dep[d].finalizer
        /\ d # cur => dep'[d].ref = dep[d].ref
        /\ dep'[d].ref \in {dep[d].ref, copy.ref}
  BY <1>1, <1>2, StoreStatusEffect
<1>4. Only(cur, dep'[cur].ref)
  BY <1>1, <1>3 DEF ClusterInv, ReferenceInv
<1>5. /\ dep'[cur].finalizer => dep[cur].state \in {"present", "deleting"}
      /\ ~dep'[cur].finalizer => dep'[cur].ref = Nil
  BY <1>1, <1>2, <1>3 DEF CopyInv, ClusterInv, DeploymentInv
<1>0. \/ dep'[cur].ref = dep[cur].ref
      \/ dep'[cur].ref = copy.ref /\ copy.state = dep[cur].state
  BY <1>1, <1>2, <1>3 DEF CopyInv
<1>6. CASE HandleError(o)
  BY <1>0, <1>1, <1>2, <1>3, <1>4, <1>5, <1>6, StatusStep, FinishWorker DEF HandleError, Finish
<1>7. CASE Adopt(o) \/ UpdateStatus(o) \/ ClearRef(o)
  <2>1. UNCHANGED <<cur, copy, insts, stc, listed, target, refs, refsFresh>>
    BY <1>7 DEF Adopt, UpdateStatus, ClearRef
  <2>2. Stored(o) => dep'[cur].ref = copy.ref
    <3>1. Stored(o) => dep' = [dep EXCEPT ![cur].ref = copy.ref]
      BY <1>7 DEF Adopt, UpdateStatus, ClearRef, Stored, StoreStatus
    <3> QED
      BY <1>1, <3>1 DEF TypeOK, DeploymentState
  <2>3. \/ Stored(o) /\ UNCHANGED fresh /\ pc = "adopt" /\ name' = copy.ref /\ AfterLookup
        \/ Stored(o) /\ UNCHANGED <<fresh, name>> /\ pc = "status" /\ pc' = "getTarget"
        \/ Stored(o) /\ UNCHANGED <<fresh, name>> /\ pc = "clear" /\ pc' = "unfinalize"
        \/ pc' = "error" /\ fresh' = (fresh /\ o = "fail")
    BY <1>7 DEF Adopt, UpdateStatus, ClearRef, Goto, Fail
  <2>4. CopyInv'
    BY <1>1, <1>3, <2>1, <2>2, <2>3
       DEF CopyInv, AfterLookup, Goto, Only, Owned, Live, CreateSteps, RemoveSteps, Stored
  <2>5. NameInv'
    BY <1>1, <1>3, <2>1, <2>2, <2>3
       DEF NameInv, CopyInv, AfterLookup, Goto, Only, Owned, Live, CreateSteps, RemoveSteps
  <2>6. TargetInv'
    BY <2>1, <2>3 DEF TargetInv, AfterLookup, Goto
  <2> QED
    BY <1>0, <1>1, <1>2, <1>3, <1>4, <1>5, <1>7, <2>1, <2>4, <2>5, <2>6, StatusStep
       DEF Adopt, UpdateStatus, ClearRef
<1> QED
  BY <1>6, <1>7

\* The finalizer goes with the deployment, which has no Instance.
LEMMA RemoveFinalizerStep ==
  ASSUME IndInv, TypeOK', NEW o \in Outcomes, RemoveFinalizer(o) PROVE IndInv'
<1> USE DEF IndInv, instWorker
<1>1. cur \in Deployments /\ pc = "unfinalize" /\ Owned(cur) = {}
  BY DEF RemoveFinalizer, CopyInv, NameInv
<1>2. UNCHANGED insts /\ \A d \in Deployments : Owned(d)' = Owned(d)
  BY DEF RemoveFinalizer, Owned, Live
<1>3. \/ UNCHANGED dep
      \/ dep' = [dep EXCEPT ![cur] = Gone] /\ fresh
  BY DEF RemoveFinalizer
<1>4. ClusterInv'
  <2>1. DeploymentInv'
    BY <1>1, <1>3 DEF ClusterInv, DeploymentInv, Gone, New, TypeOK
  <2>2. InstanceInv' /\ OneInstance'
    BY <1>1, <1>2, <1>3 DEF ClusterInv, InstanceInv, OneInstance, Live, Owned, TypeOK
  <2>3. ReferenceInv'
    BY <1>1, <1>2, <1>3 DEF ClusterInv, ReferenceInv, Only, Gone, New, TypeOK
  <2> QED
    BY <2>1, <2>2, <2>3 DEF ClusterInv
<1>5. CopyInv' /\ NameInv' /\ TargetInv'
  <2>1. CASE Stored(o)
    BY <2>1, FinishWorker DEF RemoveFinalizer
  <2>2. CASE ~Stored(o)
    <3>1. /\ pc' = "error" /\ UNCHANGED <<cur, copy>>
          /\ fresh' => fresh /\ UNCHANGED dep
      BY <2>2 DEF RemoveFinalizer, Fail, Goto, Stored
    <3>2. CopyInv'
      <4>1. dep'[cur].finalizer => UNCHANGED dep
        BY <1>1, <1>3 DEF Gone, New, TypeOK
      <4> QED
        BY <1>1, <1>2, <3>1, <4>1 DEF CopyInv, Only, CreateSteps, RemoveSteps
    <3> QED
      BY <3>1, <3>2 DEF NameInv, TargetInv, CreateSteps
  <2> QED
    BY <2>1, <2>2
<1>6. NotForgotten'
  <2> SUFFICES ASSUME NEW n \in Names, insts[n].state = "present",
                      insts[n].owner \in queue \cup {cur}
               PROVE  insts[n].owner \in queue' \cup {cur'}
    BY <1>2 DEF NotForgotten, RemoveFinalizer
  <2> QED
    BY <1>1 DEF RemoveFinalizer, Owned, Live
<1>7. UndisturbedInv'
  <2>1. \A n \in Names : insts[n].state = "deleting" => UNCHANGED dep[insts[n].owner].state
    <3> SUFFICES ASSUME NEW n \in Names, insts[n].state = "deleting"
                 PROVE  dep'[insts[n].owner] = dep[insts[n].owner]
      BY <1>2
    <3>1. insts[n].owner \in Deployments /\ insts[n].owner # cur
      BY <1>1 DEF ClusterInv, InstanceInv, Owned, Live
    <3> QED
      BY <1>1, <1>3, <3>1 DEF TypeOK
  <2>2. \A d \in Deployments : dep'[d].state = "present" => dep'[d] = dep[d]
    BY <1>1, <1>3 DEF Gone, New, TypeOK
  <2>3. \/ cur' = None /\ pc' = "idle"
        \/ cur' = cur /\ copy' = copy
    BY DEF RemoveFinalizer, Finish
  <2> QED
    BY <1>1, <1>2, <2>1, <2>2, <2>3, UndisturbedFrame DEF RemoveFinalizer, ClusterInv
<1> QED
  BY <1>2, <1>4, <1>5, <1>6, <1>7, InstanceWorkerFrame DEF RemoveFinalizer

\* An Instance whose life goes on: its spec or its finalizer is written.
LEMMA LifeGoesOn ==
  ASSUME IndInv, UNCHANGED dep, insts' \in [Names -> InstanceState],
         \A n \in Names : /\ insts'[n].state = insts[n].state
                          /\ insts'[n].owner = insts[n].owner
                          /\ insts'[n].target = insts[n].target
                          /\ insts[n].finalizer => insts'[n].finalizer
                          /\ insts'[n].finalizer => Live(n)
  PROVE  ClusterInv'
<1>1. \A d \in Deployments : Owned(d)' = Owned(d)
  BY OwnedSame
<1>2. DeploymentInv' /\ InstanceInv' /\ OneInstance'
  BY DEF IndInv, ClusterInv, DeploymentInv, InstanceInv, OneInstance, Live
<1>3. ReferenceInv'
  BY <1>1 DEF IndInv, ClusterInv, ReferenceInv, Only, TypeOK, DeploymentState
<1> QED
  BY <1>2, <1>3 DEF ClusterInv

LEMMA UpdateInstanceStep ==
  ASSUME IndInv, TypeOK', NEW o \in Outcomes, UpdateInstance(o) PROVE IndInv'
<1> USE DEF IndInv
<1>1. name \in Names /\ cur \in Deployments /\ pc = "update"
  BY DEF UpdateInstance, NameInv, CopyInv, TypeOK
<1>2. \A n \in Names : /\ insts'[n].state = insts[n].state
                       /\ insts'[n].owner = insts[n].owner
                       /\ insts'[n].target = insts[n].target
                       /\ insts'[n].finalizer = insts[n].finalizer
  BY <1>1 DEF UpdateInstance, TypeOK, InstanceState
<1>3. ClusterInv'
  BY <1>2, LifeGoesOn DEF UpdateInstance, ClusterInv, InstanceInv, TypeOK
<1>4. \A d \in Deployments : Owned(d)' = Owned(d)
  BY <1>2, OwnedSame
<1>5. copy.ref = name /\ name # Nil
  BY <1>1 DEF NameInv, CreateSteps, Names, Nil
<1>6. pc' = "get" \/ pc' = "error"
  BY DEF UpdateInstance, Goto, Fail
<1>7. UNCHANGED <<dep, cur, copy, fresh, name, target>>
  BY DEF UpdateInstance
<1>8. CopyInv' /\ NameInv' /\ TargetInv'
  <2>1. Only(cur, copy.ref)'
    BY <1>1, <1>2, <1>4, <1>5, <1>7 DEF CopyInv, Only
  <2>2. CopyInv'
    BY <1>1, <1>6, <1>7, <2>1 DEF CopyInv, CreateSteps, RemoveSteps
  <2> QED
    BY <1>5, <1>6, <1>7, <2>2 DEF NameInv, TargetInv, CreateSteps
<1>9. InstanceWorkerInv'
  <2>1. inst \in Names => insts'[inst].state = insts[inst].state
                          /\ insts'[inst].target = insts[inst].target
    BY <1>2
  <2> QED
    BY <2>1 DEF UpdateInstance, InstanceWorkerInv
<1>10. queue \subseteq queue'
  BY DEF UpdateInstance, OutdateInstance
<1>11. UndisturbedInv'
  BY <1>1, <1>2, <1>7, UndisturbedFrame DEF UpdateInstance, ClusterInv
<1>12. NotForgotten'
  BY <1>2, <1>7, <1>10, NotForgottenFrame DEF UpdateInstance
<1> QED
  BY <1>3, <1>8, <1>9, <1>11, <1>12

\* The deployment has no Instance yet.
LEMMA CreateInstanceStep ==
  ASSUME IndInv, TypeOK', NEW n \in Names, NEW o \in Outcomes, CreateInstance(n, o)
  PROVE  IndInv'
<1> USE DEF IndInv
<1>1. /\ cur \in Deployments /\ pc = "create" /\ Owned(cur) = {} /\ target \in Targets
      /\ dep[cur].finalizer /\ copy.state = "present" /\ name = copy.ref /\ copy.ref = dep[cur].ref
      /\ UNCHANGED <<dep, stc, listed, cur, fresh, target, ipc, inst, irefs, irefsFresh,
                     direct>>
  BY DEF CreateInstance, CopyInv, NameInv, TargetInv, CreateSteps
<1>2. ~Live(n) /\ (name = Nil \/ n = name) /\ n # Nil
      /\ (name = Nil => insts[n].state = "unused")
  BY <1>1 DEF CreateInstance, GeneratedName, CopyInv, Only, Owned, Live, Names, Nil
<1>3. CASE UNCHANGED insts
  <2>1. pc' = "error" /\ UNCHANGED copy /\ queue \subseteq queue'
    <3>1. insts[n].state # "present"
      BY <1>2 DEF Live
    <3>2. o = "fail"
      BY <1>3, <3>1 DEF CreateInstance, TypeOK
    <3> QED
      BY <3>2 DEF CreateInstance, Fail, Goto
  <2>2. CopyInv' /\ NameInv' /\ TargetInv'
    BY <1>1, <1>3, <2>1, FailWorker DEF Fail, Goto, Owned, Live, CopyInv, Only
  <2> QED
    BY <1>1, <1>3, <2>1, <2>2, ClusterFrame, InstanceWorkerFrame, NotForgottenFrame,
       UndisturbedFrame DEF ClusterInv
<1>4. CASE insts' # insts
  <2>1. /\ insts' = [insts EXCEPT ![n] =
               [state |-> "present", finalizer |-> FALSE, owner |-> cur,
                target |-> target, spec |-> copy.spec]]
        /\ queue' = queue \cup {cur}
        /\ \/ pc' = "get" /\ name' = n /\ copy' = [copy EXCEPT !.ref = n]
           \/ pc' = "error" /\ UNCHANGED <<name, copy>>
    BY <1>4 DEF CreateInstance, OutdateInstance, Goto, Fail, TypeOK
  <2>2. /\ insts'[n].state = "present" /\ insts'[n].finalizer = FALSE
        /\ insts'[n].owner = cur /\ insts'[n].target = target
        /\ \A m \in Names \ {n} : insts'[m] = insts[m]
    BY <2>1 DEF TypeOK
  <2>3. Owned(cur)' = {n} /\ \A d \in Deployments \ {cur} : Owned(d)' = Owned(d) /\ n \notin Owned(d)
    BY <1>1, <1>2, <2>2 DEF Owned, Live
  <2>4. DeploymentInv' /\ InstanceInv' /\ OneInstance'
    <3>1. DeploymentInv'
      BY <1>1 DEF ClusterInv, DeploymentInv
    <3>2. InstanceInv'
      BY <1>1, <2>2 DEF ClusterInv, InstanceInv, Live
    <3>3. OneInstance'
      BY <1>1, <1>2, <2>2 DEF ClusterInv, OneInstance, Live, Owned
    <3> QED
      BY <3>1, <3>2, <3>3
  <2>5. ReferenceInv'
    <3> SUFFICES ASSUME NEW d \in Deployments, dep[d].ref # Nil PROVE Only(d, dep[d].ref)'
      BY <1>1 DEF ReferenceInv, Only
    <3>1. dep[d].ref \in Names
      BY DEF TypeOK, DeploymentState
    <3>2. Only(d, dep[d].ref)
      BY DEF ClusterInv, ReferenceInv
    <3>3. CASE d = cur
      BY <1>1, <1>2, <2>2, <2>3, <3>3 DEF Only
    <3>4. CASE d # cur
      <4>1. n # dep[d].ref
        BY <1>1, <1>2, <3>2, <3>4 DEF Only, CopyInv
      <4> QED
        BY <1>1, <2>2, <2>3, <3>1, <3>2, <3>4, <4>1 DEF Only
    <3> QED
      BY <3>3, <3>4
  <2>6. CopyInv' /\ NameInv' /\ TargetInv'
    <3>1. copy'.state = copy.state /\ copy'.finalizer = copy.finalizer /\ copy'.ref \in {n, copy.ref}
      BY <2>1 DEF TypeOK, DeploymentState
    <3>2. Only(cur, copy.ref)' 
      BY <1>1, <1>2, <2>2, <2>3, <3>1 DEF Only
    <3>3. CopyInv'
      BY <1>1, <2>1, <3>1, <3>2 DEF CopyInv, CreateSteps, RemoveSteps
    <3>4. pc' = "get" => copy'.ref = n
      BY <2>1 DEF TypeOK, DeploymentState
    <3> QED
      BY <1>2, <2>1, <3>3, <3>4 DEF NameInv, TargetInv, CreateSteps
  <2>7. InstanceWorkerInv'
    <3>1. ipc # "idle" => inst # n /\ inst \in Names
      BY <1>2 DEF InstanceWorkerInv, Live
    <3> QED
      BY <1>1, <2>2, <3>1 DEF InstanceWorkerInv
  <2>8. NotForgotten'
    BY <1>1, <2>1, <2>2 DEF NotForgotten
  <2>9. UndisturbedInv'
    <3>1. n \notin direct => insts[n].state = "unused" /\ \A t \in Targets : n \notin listed[t]
      <4>1. n \notin direct => name = Nil
        BY <1>1, <1>2 DEF UndisturbedInv, Live
      <4> QED
        BY <1>2, <4>1 DEF UndisturbedInv
    <3>2. copy'.state = copy.state /\ copy'.ref \in {copy.ref, n}
      BY <2>1 DEF TypeOK, DeploymentState
    <3> QED
      BY <1>1, <2>1, <2>2, <3>1, <3>2 DEF UndisturbedInv, TypeOK
  <2> QED
    BY <2>4, <2>5, <2>6, <2>7, <2>8, <2>9 DEF ClusterInv
<1> QED
  BY <1>3, <1>4

\* The entry is written into the list that was read.
LEMMA AppendEffect ==
  ASSUME IndInv, NEW o \in Outcomes, Append(o) \/ NothingToAppend
  PROVE  /\ cur \in Deployments /\ pc = "append" /\ copy.state = "present"
         /\ name \in Names /\ insts[name].owner = cur
         /\ target \in Targets /\ insts[name].target = target
         /\ UNCHANGED <<dep, insts, stc, queue, ipc, inst, irefs, direct>>
         /\ \A t \in Targets : /\ listed[t] \subseteq listed'[t]
                               /\ t # target => listed'[t] = listed[t]
                               /\ listed'[t] \subseteq listed[t] \cup {name}
         /\ \/ UNCHANGED <<listed, irefsFresh>>
            \/ irefsFresh' = (irefsFresh /\ insts[inst].target # target)
         /\ \/ Finish /\ (name \in refs \/ name \in listed'[target])
            \/ Fail /\ UNCHANGED <<cur, copy, fresh, name, target, refs, refsFresh>>
<1> USE DEF IndInv, instWorker
<1>1. /\ cur \in Deployments /\ pc = "append" /\ copy.state = "present" /\ name \in Names
      /\ target \in Targets /\ target = insts[name].target /\ insts[name].owner = cur
      /\ UNCHANGED <<dep, insts, stc, queue, ipc, inst, irefs, direct>>
  BY DEF Append, NothingToAppend, CopyInv, NameInv, TargetInv, CreateSteps, Only, TypeOK
<1>2. CASE NothingToAppend
  BY <1>1, <1>2 DEF NothingToAppend
<1>3. CASE Append(o)
  <2>1. CASE refsFresh /\ o # "fail"
    <3>1. listed' = [listed EXCEPT ![target] = listed[target] \cup {name}]
      BY <1>1, <1>3, <2>1 DEF Append, TargetInv
    <3>2. /\ \A t \in Targets : /\ listed[t] \subseteq listed'[t]
                                /\ t # target => listed'[t] = listed[t]
                                /\ listed'[t] \subseteq listed[t] \cup {name}
          /\ name \in listed'[target]
      BY <1>1, <3>1 DEF TypeOK
    <3> QED
      BY <1>1, <1>3, <2>1, <3>2 DEF Append
  <2>2. CASE ~(refsFresh /\ o # "fail")
    BY <1>1, <1>3, <2>2 DEF Append
  <2> QED
    BY <2>1, <2>2
<1> QED
  BY <1>2, <1>3

LEMMA AppendStep ==
  ASSUME IndInv, TypeOK', NEW o \in Outcomes, Append(o) \/ NothingToAppend PROVE IndInv'
<1> USE DEF IndInv
<1>1. ClusterInv'
  BY AppendEffect, ClusterFrame
<1>2. CopyInv' /\ NameInv' /\ TargetInv'
  <2>1. CASE Finish
    BY <2>1, FinishWorker
  <2>2. CASE ~Finish
    BY <2>2, AppendEffect, FailWorker DEF CopyInv, Only, Owned, Live
  <2> QED
    BY <2>1, <2>2
<1>3. InstanceWorkerInv'
  <2>1. ipc = "release" /\ irefsFresh' => irefsFresh /\ UNCHANGED listed[insts[inst].target]
    BY AppendEffect DEF InstanceWorkerInv, InstanceInv, ClusterInv
  <2> QED
    BY <2>1, AppendEffect DEF InstanceWorkerInv
<1>4. NotForgotten'
  <2> SUFFICES ASSUME NEW n \in Names, insts[n].state = "present",
                      stc[insts[n].target].state # "gone", n \notin listed'[insts[n].target]
               PROVE  insts[n].owner \in queue \cup {cur'}
    BY AppendEffect DEF NotForgotten
  <2>1. insts[n].target \in Targets
    BY DEF ClusterInv, InstanceInv
  <2>2. n \notin listed[insts[n].target]
    BY <2>1, AppendEffect
  <2>3. insts[n].owner \in queue \cup {cur}
    BY <2>2 DEF NotForgotten
  <2>4. CASE cur' = cur
    BY <2>3, <2>4
  <2>5. CASE insts[n].owner = cur /\ Finish
    <3>1. n = name
      BY <2>5, AppendEffect DEF CopyInv, NameInv, CreateSteps, Only, Owned, Live, Nil
    <3> QED
      BY <2>2, <2>5, <3>1, AppendEffect DEF TargetInv
  <2> QED
    BY <2>3, <2>4, <2>5, AppendEffect
<1>5. UndisturbedInv'
  <2>1. name \notin direct => insts[name].state = "present" /\ (ipc # "idle" => inst # name)
    BY AppendEffect DEF UndisturbedInv, NameInv, CreateSteps, InstanceWorkerInv
  <2>2. \A t \in Targets : \A n \in Names \ {name} : n \in listed'[t] => n \in listed[t]
    BY AppendEffect
  <2>3. \/ cur' = None /\ pc' = "idle"
        \/ pc # "idle" /\ cur' = cur /\ copy' = copy
    BY AppendEffect DEF Finish
  <2> SUFFICES ASSUME NEW n \in Names \ direct
               PROVE  /\ insts[n].state = "deleting" =>
                           /\ dep[insts[n].owner].state = "deleting"
                           /\ cur' = insts[n].owner => copy'.state = "deleting"
                      /\ pc' # "idle" /\ copy'.state = "present" /\ copy'.ref = n =>
                           insts[n].state = "present"
                      /\ \A t \in Targets : n \in listed'[t] =>
                           insts[n].state # "unused" /\ insts[n].target = t
                      /\ ipc = "unfinalize" /\ inst = n =>
                           \A t \in Targets : n \notin listed'[t]
    BY AppendEffect DEF UndisturbedInv
  <2>4. insts[n].state = "deleting" =>
          /\ dep[insts[n].owner].state = "deleting"
          /\ cur' = insts[n].owner => copy'.state = "deleting"
    BY <2>3, NoneAssumption DEF UndisturbedInv, ClusterInv, InstanceInv
  <2>5. pc' # "idle" /\ copy'.state = "present" /\ copy'.ref = n => insts[n].state = "present"
    BY <2>3 DEF UndisturbedInv
  <2>6. CASE n = name
    BY <2>1, <2>4, <2>5, <2>6, AppendEffect DEF UndisturbedInv
  <2>7. CASE n # name
    BY <2>2, <2>4, <2>5, <2>7 DEF UndisturbedInv
  <2> QED
    BY <2>6, <2>7
<1> QED
  BY <1>1, <1>2, <1>3, <1>4, <1>5

\* What happens to an Instance that somebody deletes.
LEMMA DeletedEffect ==
  ASSUME IndInv, NEW m \in Names, insts[m].state = "present",
         insts' = [insts EXCEPT ![m] = Deleted(@)], UNCHANGED dep
  PROVE  /\ insts'[m].state \in {"deleting", "gone"}
         /\ \A n \in Names : /\ Live(n)' => Live(n)
                             /\ insts[n].state # "present" => insts'[n].state # "present"
                             /\ insts[n].state # "unused" => insts'[n].state # "unused"
                             /\ insts'[n].owner = insts[n].owner
                             /\ insts'[n].target = insts[n].target
                             /\ insts[n].state = "deleting" => insts'[n].state = "deleting"
                             /\ n # m => insts'[n] = insts[n]
         /\ ClusterInv'
<1> USE DEF IndInv
<1>1. /\ insts'[m].state = IF insts[m].finalizer THEN "deleting" ELSE "gone"
      /\ insts'[m].owner = insts[m].owner /\ insts'[m].target = insts[m].target
      /\ insts'[m].finalizer = insts[m].finalizer
      /\ \A n \in Names \ {m} : insts'[n] = insts[n]
  BY DEF Deleted, TypeOK, InstanceState
<1>2. /\ insts'[m].state \in {"deleting", "gone"}
      /\ \A n \in Names : /\ Live(n)' => Live(n)
                          /\ insts[n].state # "present" => insts'[n].state # "present"
                          /\ insts[n].state # "unused" => insts'[n].state # "unused"
                          /\ insts'[n].owner = insts[n].owner
                          /\ insts'[n].target = insts[n].target
                          /\ insts[n].state = "deleting" => insts'[n].state = "deleting"
                          /\ n # m => insts'[n] = insts[n]
  BY <1>1 DEF Live
<1>3. DeploymentInv' /\ InstanceInv' /\ OneInstance'
  BY <1>1, <1>2 DEF ClusterInv, DeploymentInv, InstanceInv, OneInstance, Live
<1>4. ReferenceInv'
  <2>1. \A d \in Deployments : Owned(d)' \subseteq Owned(d) /\ dep[d].ref \in Names \cup {Nil}
    BY <1>2 DEF Owned, TypeOK, DeploymentState
  <2> QED
    BY <1>2, <2>1 DEF ClusterInv, ReferenceInv, Only
<1> QED
  BY <1>2, <1>3, <1>4 DEF ClusterInv

LEMMA DeleteInstanceStep ==
  ASSUME IndInv, TypeOK', NEW o \in Outcomes, DeleteInstance(o) PROVE IndInv'
<1> USE DEF IndInv
<1>1. /\ pc = "delete" /\ cur \in Deployments /\ name \in Names /\ copy.state = "deleting"
      /\ copy.ref = name /\ name # Nil /\ insts[name].owner = cur
      /\ dep[cur].finalizer /\ Live(name)
      /\ UNCHANGED <<dep, stc, listed, ipc, inst, irefs, irefsFresh, direct>>
      /\ queue \subseteq queue'
      /\ \/ Finish /\ o = "ok"
         \/ Fail /\ UNCHANGED <<cur, copy, fresh, name, target, refs, refsFresh>>
  BY DEF DeleteInstance, OutdateInstance, CopyInv, NameInv, RemoveSteps, Only, TypeOK
<1>2. /\ ClusterInv'
      /\ \A n \in Names : /\ Live(n)' => Live(n)
                          /\ insts[n].state # "present" => insts'[n].state # "present"
                          /\ insts[n].state # "unused" => insts'[n].state # "unused"
                          /\ insts'[n].owner = insts[n].owner
                          /\ insts'[n].target = insts[n].target
                          /\ insts[n].state = "deleting" => insts'[n].state = "deleting"
                          /\ n # name => insts'[n] = insts[n]
      /\ o = "ok" => insts'[name].state # "present"
  <2>1. CASE insts[name].state = "present" /\ o # "fail"
    BY <1>1, <2>1, DeletedEffect DEF DeleteInstance
  <2>2. CASE ~(insts[name].state = "present" /\ o # "fail")
    BY <1>1, <2>2, ClusterFrame DEF DeleteInstance, Live
  <2> QED
    BY <2>1, <2>2
<1>3. CopyInv' /\ NameInv' /\ TargetInv'
  <2>1. CASE Finish
    BY <2>1, FinishWorker
  <2>2. CASE ~Finish
    <3>1. Owned(cur)' \subseteq Owned(cur) /\ insts[name].state # "unused"
      BY <1>1, <1>2, <2>2 DEF Owned, Live
    <3> QED
      BY <1>1, <1>2, <2>2, <3>1, FailWorker
  <2> QED
    BY <2>1, <2>2
<1>4. InstanceWorkerInv'
  BY <1>1, <1>2 DEF InstanceWorkerInv
<1>5. NotForgotten'
  <2> SUFFICES ASSUME NEW n \in Names, insts'[n].state = "present",
                      insts[n].owner \in queue \cup {cur}
               PROVE  insts[n].owner \in queue' \cup {cur'}
    BY <1>1, <1>2 DEF NotForgotten
  <2>1. CASE cur' = cur
    BY <1>1, <2>1
  <2>2. CASE Finish /\ o = "ok"
    <3>1. insts[n].owner # cur
      BY <1>1, <1>2, <2>2 DEF CopyInv, Only, Owned, Live
    <3> QED
      BY <1>1, <3>1
  <2> QED
    BY <1>1, <2>1, <2>2
<1>6. UndisturbedInv'
  <2>1. dep[cur].state = "deleting"
    BY <1>1 DEF CopyInv
  <2>2. \A d \in Deployments : dep[d].state = "present" => dep[d].ref # name
    BY <1>1, <2>1 DEF ClusterInv, ReferenceInv, Only
  <2>3. \/ cur' = None /\ pc' = "idle"
        \/ pc # "idle" /\ cur' = cur /\ copy' = copy
    BY <1>1 DEF Finish
  <2> SUFFICES ASSUME NEW n \in Names \ direct
               PROVE  /\ insts'[n].state = "deleting" =>
                           /\ dep[insts[n].owner].state = "deleting"
                           /\ cur' = insts[n].owner => copy'.state = "deleting"
                      /\ \A d \in Deployments : dep[d].state = "present" /\ dep[d].ref = n =>
                                                 insts'[n].state = "present"
                      /\ pc' # "idle" /\ copy'.state = "present" /\ copy'.ref = n =>
                           insts'[n].state = "present"
                      /\ \A t \in Targets : n \in listed[t] =>
                           insts'[n].state # "unused" /\ insts[n].target = t
                      /\ ipc = "unfinalize" /\ inst = n =>
                           \A t \in Targets : n \notin listed[t]
    BY <1>1, <1>2 DEF UndisturbedInv
  <2>4. CASE n = name
    <3>1. cur' = insts[n].owner => copy'.state = "deleting"
      BY <1>1, <2>3, <2>4, NoneAssumption
    <3>2. ~(pc' # "idle" /\ copy'.state = "present")
      BY <1>1, <2>3
    <3>3. insts[n].owner = cur /\ insts[n].state # "unused" /\ insts'[n].state # "unused"
      BY <1>1, <1>2, <2>4 DEF Live
    <3>4. \A t \in Targets : n \in listed[t] => insts[n].target = t
      BY DEF UndisturbedInv
    <3>5. ipc = "unfinalize" /\ inst = n => \A t \in Targets : n \notin listed[t]
      BY DEF UndisturbedInv
    <3> QED
      BY <2>1, <2>2, <2>4, <3>1, <3>2, <3>3, <3>4, <3>5
  <2>5. CASE n # name
    <3>1. insts'[n] = insts[n] /\ (insts[n].state = "deleting" => insts[n].owner # None)
      BY <1>2, <2>5, NoneAssumption DEF ClusterInv, InstanceInv
    <3> QED
      BY <2>3, <3>1 DEF UndisturbedInv
  <2> QED
    BY <2>4, <2>5
<1> QED
  BY <1>2, <1>3, <1>4, <1>5, <1>6

LEMMA DeploymentControllerStep ==
  ASSUME IndInv, TypeOK', DeploymentController PROVE IndInv'
BY LookupStep, EnsureStep, StartReconcileStep, AddFinalizerStep, StoreStatusStep,
   RemoveFinalizerStep, UpdateInstanceStep, CreateInstanceStep, AppendStep,
   DeleteInstanceStep DEF DeploymentController, Outcomes

-----------------------------------------------------------------------------
(***************************************************************************)
(* The steps of the instance worker.                                       *)
(***************************************************************************)
LEMMA AddInstanceFinalizerStep ==
  ASSUME IndInv, TypeOK', NEW n \in Names, AddInstanceFinalizer(n) PROVE IndInv'
<1> USE DEF IndInv
<1>1. \A m \in Names : /\ insts'[m].state = insts[m].state
                       /\ insts'[m].owner = insts[m].owner
                       /\ insts'[m].target = insts[m].target
                       /\ insts[m].finalizer => insts'[m].finalizer
                       /\ insts'[m].finalizer => insts[m].finalizer \/ m = n
  <2>1. /\ insts'[n].state = insts[n].state /\ insts'[n].owner = insts[n].owner
        /\ insts'[n].target = insts[n].target /\ insts'[n].finalizer = TRUE
    BY DEF AddInstanceFinalizer, TypeOK, InstanceState
  <2>2. \A m \in Names \ {n} : insts'[m] = insts[m]
    BY DEF AddInstanceFinalizer, TypeOK
  <2> QED
    BY <2>1, <2>2
<1>2. Live(n) /\ queue \subseteq queue'
      /\ UNCHANGED <<dep, stc, listed, workerData, ipc, inst, irefs, irefsFresh, direct>>
  BY DEF AddInstanceFinalizer, Live, OutdateInstance, workerData
<1>3. ClusterInv'
  BY <1>1, <1>2, LifeGoesOn DEF ClusterInv, InstanceInv, TypeOK
<1>4. CopyInv' /\ NameInv' /\ TargetInv'
  BY <1>1, <1>2, WorkerFrame DEF ClusterInv, Live
<1>5. InstanceWorkerInv'
  BY <1>1, <1>2 DEF InstanceWorkerInv
<1>6. NotForgotten' /\ UndisturbedInv'
  BY <1>1, <1>2, NotForgottenFrame DEF UndisturbedInv, workerData
<1> QED
  BY <1>3, <1>4, <1>5, <1>6

\* Reading the list, and giving up.
LEMMA InstanceWorkerLocalStep ==
  ASSUME IndInv, TypeOK',
         \/ \E n \in Names : StartInstanceDeletion(n)
         \/ ReadList \/ ReadListFails
  PROVE  IndInv'
<1> USE DEF IndInv, workerData
<1>1. /\ UNCHANGED <<dep, insts, stc, listed, queue, workerData, direct>>
      /\ ipc' # "unfinalize"
  BY DEF StartInstanceDeletion, ReadList, ReadListFails, FinishInst, depWorker
<1>2. InstanceWorkerInv'
  BY DEF StartInstanceDeletion, ReadList, ReadListFails, FinishInst, InstanceWorkerInv
<1>3. CopyInv' /\ NameInv' /\ TargetInv'
  BY <1>1, WorkerFrame DEF ClusterInv, Live
<1>4. UndisturbedInv'
  BY <1>1 DEF UndisturbedInv
<1> QED
  BY <1>1, <1>2, <1>3, <1>4, ClusterFrame, NotForgottenFrame

\* Only the entry of the deleted Instance is taken out, of its own list.
LEMMA ReleaseEffect ==
  ASSUME IndInv, NEW o \in Outcomes, Release(o)
  PROVE  /\ inst \in Names /\ insts[inst].state = "deleting" /\ insts[inst].target \in Targets
         /\ UNCHANGED <<dep, insts, stc, queue, pc, cur, copy, fresh, name, target, refs,
                        direct>>
         /\ \/ UNCHANGED <<listed, refsFresh>> /\ FinishInst
            \/ /\ listed' = [listed EXCEPT ![insts[inst].target] = @ \ {inst}]
               /\ \/ FinishInst
                  \/ ipc' = "unfinalize" /\ UNCHANGED inst
         /\ refsFresh' => refsFresh /\ (target \in Targets => listed'[target] = listed[target])
<1> USE DEF IndInv
<1>1. inst \in Names /\ insts[inst].state = "deleting" /\ insts[inst].target \in Targets
  BY DEF Release, InstanceWorkerInv, ClusterInv, InstanceInv
<1>2. CASE irefsFresh /\ o # "fail"
  <2>1. irefs = listed[insts[inst].target]
    BY <1>2 DEF Release, InstanceWorkerInv
  <2>2. listed' = [listed EXCEPT ![insts[inst].target] = @ \ {inst}]
    BY <1>2, <2>1 DEF Release
  <2>3. refsFresh' = (refsFresh /\ (target # insts[inst].target \/ irefs \ {inst} = irefs))
    BY <1>2 DEF Release
  <2>4. refsFresh' => refsFresh /\ (target \in Targets => listed'[target] = listed[target])
    <3>1. CASE target # insts[inst].target
      BY <1>1, <2>2, <2>3, <3>1 DEF TypeOK
    <3>2. CASE irefs \ {inst} = irefs
      <4>1. listed' = listed
        BY <1>1, <2>1, <2>2, <3>2 DEF TypeOK
      <4> QED
        BY <2>3, <4>1
    <3> QED
      BY <2>3, <3>1, <3>2
  <2> QED
    BY <1>1, <1>2, <2>2, <2>4 DEF Release
<1>3. CASE ~(irefsFresh /\ o # "fail")
  BY <1>1, <1>3 DEF Release
<1> QED
  BY <1>2, <1>3

LEMMA ReleaseStep ==
  ASSUME IndInv, TypeOK', NEW o \in Outcomes, Release(o) PROVE IndInv'
<1> USE DEF IndInv
<1>1. \A t \in Targets : /\ listed'[t] \subseteq listed[t]
                         /\ listed[t] \ listed'[t] \subseteq {inst}
  BY ReleaseEffect DEF TypeOK
<1>2. ClusterInv'
  BY ReleaseEffect, ClusterFrame
<1>3. CopyInv' /\ NameInv'
  BY ReleaseEffect DEF CopyInv, NameInv, Only, Owned, Live
<1>4. TargetInv'
  <2>1. pc = "append" /\ name \in refs /\ insts[name].state = "present" => name # inst
    BY ReleaseEffect
  <2> QED
    BY <1>1, <2>1, ReleaseEffect DEF TargetInv
<1>5. InstanceWorkerInv'
  BY ReleaseEffect DEF InstanceWorkerInv, FinishInst
<1>6. NotForgotten'
  BY <1>1, ReleaseEffect DEF NotForgotten, ClusterInv, InstanceInv
<1>7. UndisturbedInv'
  <2>1. \A t \in Targets, n \in Names : n \in listed'[t] => n \in listed[t]
    BY <1>1
  <2>2. ASSUME ipc' = "unfinalize", inst' \notin direct, NEW t \in Targets
        PROVE  inst' \notin listed'[t]
    <3>1. inst' = inst /\ listed' = [listed EXCEPT ![insts[inst].target] = @ \ {inst}]
      BY <2>2, ReleaseEffect DEF FinishInst
    <3> QED
      BY <2>2, <3>1, ReleaseEffect DEF UndisturbedInv, TypeOK
  <2> QED
    BY <2>1, <2>2, ReleaseEffect DEF UndisturbedInv
<1> QED
  BY <1>2, <1>3, <1>4, <1>5, <1>6, <1>7

LEMMA RemoveInstanceFinalizerStep ==
  ASSUME IndInv, TypeOK', NEW o \in Outcomes, RemoveInstanceFinalizer(o) PROVE IndInv'
<1> USE DEF IndInv
<1>1. /\ inst \in Names /\ insts[inst].state = "deleting" /\ queue \subseteq queue'
      /\ UNCHANGED <<dep, stc, listed, workerData, direct>>
      /\ ipc' = "idle"
  BY DEF RemoveInstanceFinalizer, FinishInst, InstanceWorkerInv, workerData
<1>2. \/ UNCHANGED insts
      \/ /\ insts'[inst].state = "gone" /\ insts'[inst].finalizer = FALSE
         /\ insts'[inst].owner = insts[inst].owner
         /\ insts'[inst].target = insts[inst].target
         /\ \A n \in Names \ {inst} : insts'[n] = insts[n]
  BY <1>1 DEF RemoveInstanceFinalizer, TypeOK, InstanceState
<1>3. \A n \in Names : /\ Live(n)' => Live(n)
                       /\ insts[n].state # "present" => insts'[n].state # "present"
                       /\ insts[n].state # "unused" => insts'[n].state # "unused"
                       /\ insts'[n].owner = insts[n].owner
                       /\ insts'[n].target = insts[n].target
  BY <1>1, <1>2 DEF Live
<1>4. ClusterInv'
  <2>1. DeploymentInv' /\ InstanceInv' /\ OneInstance'
    BY <1>1, <1>2, <1>3 DEF ClusterInv, DeploymentInv, InstanceInv, OneInstance, Live
  <2>2. ReferenceInv'
    <3>1. \A d \in Deployments : Owned(d)' \subseteq Owned(d) /\ dep[d].ref \in Names \cup {Nil}
      BY <1>3 DEF Owned, TypeOK, DeploymentState
    <3> QED
      BY <1>1, <1>3, <3>1 DEF ClusterInv, ReferenceInv, Only
  <2> QED
    BY <2>1, <2>2 DEF ClusterInv
<1>5. CopyInv' /\ NameInv' /\ TargetInv'
  BY <1>1, <1>3, WorkerFrame DEF ClusterInv
<1>6. InstanceWorkerInv'
  BY <1>1 DEF InstanceWorkerInv
<1>7. NotForgotten'
  BY <1>1, <1>3, NotForgottenFrame DEF workerData
<1>8. UndisturbedInv'
  BY <1>1, <1>2, <1>3 DEF UndisturbedInv, workerData
<1> QED
  BY <1>4, <1>5, <1>6, <1>7, <1>8

LEMMA InstanceControllerStep ==
  ASSUME IndInv, TypeOK', InstanceController PROVE IndInv'
BY AddInstanceFinalizerStep, InstanceWorkerLocalStep, ReleaseStep,
   RemoveInstanceFinalizerStep DEF InstanceController, ReconcileInstance

-----------------------------------------------------------------------------
(***************************************************************************)
(* The surroundings.                                                       *)
(***************************************************************************)

\* After a restart every deployment is queued.
LEMMA RestartStep == ASSUME IndInv, TypeOK', Restart PROVE IndInv'
<1> USE DEF IndInv
<1>1. CopyInv' /\ NameInv' /\ TargetInv'
  BY FinishWorker DEF Restart
<1>2. InstanceWorkerInv'
  BY DEF Restart, FinishInst, InstanceWorkerInv
<1>3. NotForgotten'
  BY DEF Restart, NotForgotten, ClusterInv, InstanceInv
<1>4. UndisturbedInv'
  BY NoneAssumption DEF Restart, Finish, FinishInst, UndisturbedInv, ClusterInv, InstanceInv
<1> QED
  BY <1>1, <1>2, <1>3, <1>4, ClusterFrame DEF Restart

LEMMA WriteDeploymentStep ==
  ASSUME IndInv, TypeOK', NEW d \in Deployments,
         CreateDeployment(d) \/ UpdateDeployment(d) \/ DeleteDeployment(d)
  PROVE  IndInv'
<1> USE DEF IndInv
<1>1. /\ UNCHANGED <<insts, stc, listed, pc, cur, copy, name, target, refs, refsFresh,
                     ipc, inst, irefs, irefsFresh, direct>>
      /\ queue \subseteq queue' /\ fresh' = (fresh /\ cur # d)
  BY DEF CreateDeployment, UpdateDeployment, DeleteDeployment, WriteDeployment, instWorker
<1>2. /\ \A e \in Deployments \ {d} : dep'[e] = dep[e]
      /\ \/ /\ dep[d].state \in {"new", "gone"} /\ dep'[d].state = "present"
            /\ dep'[d].finalizer = FALSE /\ dep'[d].ref = Nil
         \/ /\ dep[d].state = "present"
            /\ dep'[d].state \in {"present"} \cup IF dep[d].finalizer THEN {"deleting"} ELSE {"gone"}
            /\ dep'[d].finalizer = dep[d].finalizer /\ dep'[d].ref = dep[d].ref
  <2>1. dep[d] \in DeploymentState
    BY DEF TypeOK
  <2>2. CASE CreateDeployment(d)
    <3>1. dep' = [dep EXCEPT ![d] = [New EXCEPT !.state = "present", !.spec = 1]]
      BY <2>2 DEF CreateDeployment, WriteDeployment
    <3>2. dep[d].state \in {"new", "gone"}
      BY <2>2 DEF CreateDeployment
    <3> QED
      BY <3>1, <3>2 DEF New, TypeOK
  <2>3. CASE UpdateDeployment(d)
    BY <2>1, <2>3 DEF UpdateDeployment, WriteDeployment, TypeOK, DeploymentState
  <2>4. CASE DeleteDeployment(d)
    BY <2>1, <2>4 DEF DeleteDeployment, WriteDeployment, Deleted, TypeOK, DeploymentState
  <2> QED
    BY <2>2, <2>3, <2>4
<1>3. /\ \A e \in Deployments : dep'[e].finalizer = dep[e].finalizer
      /\ \A e \in Deployments : dep'[e].ref = dep[e].ref
  BY <1>2 DEF ClusterInv, DeploymentInv, TypeOK, DeploymentState
<1>4. ClusterInv'
  <2>1. DeploymentInv' /\ InstanceInv' /\ OneInstance'
    BY <1>1, <1>2, <1>3 DEF ClusterInv, DeploymentInv, InstanceInv, OneInstance, Live
  <2>2. ReferenceInv'
    BY <1>1, <1>3 DEF ClusterInv, ReferenceInv, Only, Owned, Live
  <2> QED
    BY <2>1, <2>2 DEF ClusterInv
<1>5. CopyInv' /\ NameInv' /\ TargetInv'
  <2>1. cur \in Deployments /\ dep[cur].finalizer /\ dep[cur].state = "deleting"
          => dep'[cur].state = "deleting"
    BY <1>2
  <2>2. fresh' /\ cur \in Deployments => fresh /\ dep'[cur] = dep[cur]
    BY <1>1, <1>2
  <2>3. CopyInv'
    BY <1>1, <1>3, <2>1, <2>2 DEF CopyInv, Only, Owned, Live
  <2>4. NameInv' /\ TargetInv'
    BY <1>1 DEF NameInv, TargetInv, Owned, Live
  <2> QED
    BY <2>3, <2>4
<1>6. InstanceWorkerInv' /\ NotForgotten'
  BY <1>1, InstanceWorkerFrame, NotForgottenFrame
<1>7. UndisturbedInv'
  <2>1. \A n \in Names : insts[n].state = "deleting" /\ dep[insts[n].owner].state = "deleting" =>
          dep'[insts[n].owner].state = "deleting"
    BY <1>2 DEF ClusterInv, InstanceInv
  <2>2. \A e \in Deployments : dep'[e].state = "present" /\ dep'[e].ref # Nil =>
          dep[e].state = "present" /\ dep[e].ref = dep'[e].ref
    BY <1>2
  <2>3. \A n \in Names : n # Nil
    BY DEF Names, Nil
  <2> QED
    BY <1>1, <2>1, <2>2, <2>3 DEF UndisturbedInv
<1> QED
  BY <1>4, <1>5, <1>6, <1>7

LEMMA DeleteInstanceDirectlyStep ==
  ASSUME IndInv, TypeOK', NEW n \in Names, DeleteInstanceDirectly(n) PROVE IndInv'
<1> USE DEF IndInv
<1>1. /\ UNCHANGED <<dep, stc, listed, workerData, ipc, inst, irefs, irefsFresh>>
      /\ queue \subseteq queue' /\ direct' = direct \cup {n}
  BY DEF DeleteInstanceDirectly, OutdateInstance, workerData
<1>2. /\ ClusterInv'
      /\ \A m \in Names : /\ Live(m)' => Live(m)
                          /\ insts[m].state # "present" => insts'[m].state # "present"
                          /\ insts[m].state # "unused" => insts'[m].state # "unused"
                          /\ insts'[m].owner = insts[m].owner
                          /\ insts'[m].target = insts[m].target
                          /\ insts[m].state = "deleting" => insts'[m].state = "deleting"
                          /\ m # n => insts'[m] = insts[m]
  BY DeletedEffect DEF DeleteInstanceDirectly
<1>3. CopyInv' /\ NameInv' /\ TargetInv'
  BY <1>1, <1>2, WorkerFrame DEF ClusterInv
<1>4. InstanceWorkerInv' /\ NotForgotten'
  BY <1>1, <1>2, NotForgottenFrame DEF InstanceWorkerInv, workerData
<1>5. UndisturbedInv'
  <2>1. \A m \in Names \ direct' : m \in Names \ direct /\ insts'[m] = insts[m]
    BY <1>1, <1>2
  <2> QED
    BY <1>1, <2>1 DEF UndisturbedInv, workerData
<1> QED
  BY <1>2, <1>3, <1>4, <1>5

\* A ServiceTargetConfig does not come back, and takes its list with it.
LEMMA TargetStep ==
  ASSUME IndInv, TypeOK', NEW t \in Targets,
         WriteTarget(t) \/ DeleteTarget(t) \/ RemoveTargetFinalizer(t)
  PROVE  IndInv'
<1> USE DEF IndInv
<1>1. /\ UNCHANGED <<dep, insts, queue, pc, cur, copy, fresh, name, target, refs,
                     ipc, inst, instFresh, irefs, direct>>
      /\ OutdateTarget(t)
  BY DEF WriteTarget, DeleteTarget, RemoveTargetFinalizer
<1>2. \A u \in Targets : /\ stc[u].state = "gone" => stc'[u].state = "gone"
                         /\ u # t => UNCHANGED listed[u]
                         /\ UNCHANGED listed[t] \/ (listed'[t] = {} /\ stc'[t].state = "gone")
  BY DEF WriteTarget, DeleteTarget, RemoveTargetFinalizer, TypeOK, TargetState
<1>3. ClusterInv'
  BY <1>1, ClusterFrame
<1>4. CopyInv' /\ NameInv'
  BY <1>1 DEF CopyInv, NameInv, Only, Owned, Live
<1>5. TargetInv'
  BY <1>1, <1>2 DEF TargetInv, OutdateTarget
<1>6. InstanceWorkerInv'
  BY <1>1, <1>2 DEF InstanceWorkerInv, OutdateTarget, ClusterInv, InstanceInv
<1>7. NotForgotten'
  BY <1>1, <1>2 DEF NotForgotten, ClusterInv, InstanceInv
<1>8. UndisturbedInv'
  BY <1>1, <1>2 DEF UndisturbedInv
<1> QED
  BY <1>3, <1>4, <1>5, <1>6, <1>7, <1>8

-----------------------------------------------------------------------------
(***************************************************************************)
(* Theorems.                                                               *)
(***************************************************************************)
LEMMA InitInv == Init => IndInv
<1> SUFFICES ASSUME Init PROVE IndInv
  OBVIOUS
<1>1. \A n \in Names : ~Live(n) /\ insts[n].finalizer = FALSE /\ insts[n].state = "unused"
  BY DEF Init, Unused, Live
<1>2. \A d \in Deployments : dep[d].state = "new" /\ dep[d].finalizer = FALSE /\ dep[d].ref = Nil
  BY DEF Init, New
<1>3. ClusterInv
  BY <1>1, <1>2 DEF ClusterInv, DeploymentInv, InstanceInv, OneInstance, ReferenceInv, Only
<1>4. CopyInv /\ NameInv /\ TargetInv
  BY DEF Init, CopyInv, NameInv, TargetInv, CreateSteps
<1>5. InstanceWorkerInv /\ NotForgotten /\ UndisturbedInv
  BY <1>1, <1>2 DEF Init, InstanceWorkerInv, NotForgotten, UndisturbedInv
<1> QED
  BY <1>3, <1>4, <1>5, InitType DEF IndInv

LEMMA NextInv == IndInv /\ [Next]_vars => IndInv'
<1> SUFFICES ASSUME IndInv, [Next]_vars PROVE IndInv'
  OBVIOUS
<1>1. TypeOK'
  BY NextType
<1>2. CASE UNCHANGED vars
  <2>1. CopyInv' /\ NameInv' /\ TargetInv'
    BY <1>2, WorkerFrame DEF IndInv, ClusterInv, vars, depWorker, workerData, Live
  <2> QED
    BY <1>1, <1>2, <2>1, ClusterFrame, InstanceWorkerFrame, NotForgottenFrame
       DEF IndInv, UndisturbedInv, vars, depWorker, instWorker
<1> QED
  BY <1>1, <1>2, DeploymentControllerStep, InstanceControllerStep, RestartStep,
     WriteDeploymentStep, DeleteInstanceDirectlyStep, TargetStep DEF Next, Users

LEMMA Invariant == Spec => []IndInv
BY InitInv, NextInv, PTL DEF Spec

\* Every variable has its type.
THEOREM TypeCorrect == Spec => []TypeOK
<1>1. IndInv => TypeOK
  BY DEF IndInv
<1> QED
  BY <1>1, Invariant, PTL

\* A deployment never has two Instances, whatever answers, conflicts and
\* restarts lose the name of the one it has (getInstanceRef).
THEOREM AtMostOneInstance == Spec => []OneInstance
<1>1. IndInv => OneInstance
  BY DEF IndInv, ClusterInv
<1> QED
  BY <1>1, Invariant, PTL

\* An Instance never outlives its deployment (handleDelete).
THEOREM NoInstanceOrphaned == Spec => []NoOrphan
<1>1. IndInv => NoOrphan
  BY DEF IndInv, ClusterInv, InstanceInv, DeploymentInv, NoOrphan, Owned
<1> QED
  BY <1>1, Invariant, PTL

\* While an Instance is missing in the list of its ServiceTargetConfig, its
\* deployment is queued or at work.
THEOREM MissingEntryIsWork == Spec => []NotForgotten
<1>1. IndInv => NotForgotten
  BY DEF IndInv
<1> QED
  BY <1>1, Invariant, PTL

-----------------------------------------------------------------------------
(***************************************************************************)
(* What a step does to an Instance and its entry.                          *)
(***************************************************************************)
SameLife(n) ==
  /\ insts'[n].state = insts[n].state /\ insts'[n].finalizer = insts[n].finalizer
  /\ insts'[n].owner = insts[n].owner /\ insts'[n].target = insts[n].target

SameAssignment(n) ==
  insts'[n].owner = insts[n].owner /\ insts'[n].target = insts[n].target

Released(n) == ipc = "unfinalize" /\ inst = n

\* The Instance n begins, is protected or is deleted, by one of the workers or
\* a user.
Begins(n) ==
  /\ ~Live(n) /\ insts'[n].state = "present" /\ insts'[n].finalizer = FALSE
  /\ ~Released(n)

Protects(n) ==
  /\ insts[n].state = "present" /\ insts'[n].state = "present"
  /\ insts'[n].finalizer = TRUE /\ SameAssignment(n)

Deletes(n) ==
  /\ insts[n].state = "present"
  /\ insts'[n].state = IF insts[n].finalizer THEN "deleting" ELSE "gone"
  /\ insts'[n].finalizer = insts[n].finalizer /\ SameAssignment(n)

Touches(n) ==
  /\ Begins(n) \/ Protects(n) \/ Deletes(n)
  /\ \A m \in Names \ {n} : SameLife(m)
  /\ UNCHANGED <<listed, stc, ipc, inst>>

\* The instance worker lets its Instance go.
Leaves ==
  /\ inst \in Names /\ ipc = "unfinalize" /\ ipc' # "unfinalize"
  /\ insts[inst].state = "deleting" /\ insts'[inst].state = "gone"
  /\ insts'[inst].finalizer = FALSE /\ SameAssignment(inst)
  /\ \A m \in Names \ {inst} : SameLife(m)
  /\ UNCHANGED <<listed, stc>>

\* The deployment worker puts its Instance into the list.
Enlists ==
  /\ name \in Names /\ target \in Targets /\ insts[name].target = target
  /\ copy.state = "present" /\ insts[name].owner = cur
  /\ listed' = [listed EXCEPT ![target] = @ \cup {name}]
  /\ UNCHANGED <<insts, stc, ipc, inst>>

\* The instance worker takes its Instance out of the list.
Delists ==
  /\ inst \in Names /\ insts[inst].state = "deleting" /\ insts[inst].target \in Targets
  /\ ipc = "release"
  /\ listed' = [listed EXCEPT ![insts[inst].target] = @ \ {inst}]
  /\ \A n \in Names : Released(n)' => n = inst
  /\ UNCHANGED <<insts, stc>>

\* A ServiceTargetConfig goes.
Vanishes(t) ==
  /\ listed' = [listed EXCEPT ![t] = {}]
  /\ stc[t].state # "gone" /\ stc' = [stc EXCEPT ![t].state = "gone"]
  /\ UNCHANGED <<insts, ipc, inst>>

\* Nothing of all that, but the instance worker may give up.
Idles ==
  /\ \A n \in Names : SameLife(n) /\ (Released(n)' => Released(n))
  /\ \A t \in Targets : stc'[t].state = "gone" <=> stc[t].state = "gone"
  /\ UNCHANGED listed

\* Every step is of one of these kinds.
LEMMA StepKinds ==
  ASSUME IndInv, [Next]_vars
  PROVE  \/ \E n \in Names : Touches(n)
         \/ Leaves \/ Enlists \/ Delists \/ Idles
         \/ \E t \in Targets : Vanishes(t)
<1> USE DEF IndInv
<1>1. ASSUME NEW n \in Names, NEW o \in Outcomes, CreateInstance(n, o)
      PROVE  Idles \/ Touches(n)
  <2>1. cur \in Deployments /\ pc = "create" /\ Owned(cur) = {} /\ name = copy.ref
    BY <1>1 DEF CreateInstance, CopyInv, NameInv, CreateSteps
  <2>2. ~Live(n)
    BY <1>1, <2>1 DEF CreateInstance, GeneratedName, CopyInv, Only, Owned, Live, Names, Nil
  <2>3. ~Released(n)
    BY <2>2 DEF InstanceWorkerInv, Released, Live
  <2>4. UNCHANGED <<listed, stc, ipc, inst>>
    BY <1>1 DEF CreateInstance
  <2>5. CASE UNCHANGED insts
    BY <2>4, <2>5 DEF Idles, SameLife, Released
  <2>6. CASE insts' = [insts EXCEPT ![n] =
               [state |-> "present", finalizer |-> FALSE, owner |-> cur,
                target |-> target, spec |-> copy.spec]]
    <3>1. /\ insts'[n].state = "present" /\ insts'[n].finalizer = FALSE
          /\ \A m \in Names \ {n} : insts'[m] = insts[m]
      BY <2>6 DEF TypeOK
    <3> QED
      BY <2>2, <2>3, <2>4, <3>1 DEF Touches, Begins, SameLife
  <2> QED
    BY <1>1, <2>5, <2>6 DEF CreateInstance
<1>2. ASSUME NEW n \in Names, insts[n].state = "present", UNCHANGED <<listed, stc, ipc, inst>>,
             insts' = [insts EXCEPT ![n] = Deleted(@)]
      PROVE  Touches(n)
  BY <1>2 DEF Touches, Deletes, SameAssignment, SameLife, Deleted, TypeOK, InstanceState
<1>3. ASSUME NEW o \in Outcomes, DeleteInstance(o) PROVE Idles \/ Touches(name)
  <2>1. name \in Names
    BY <1>3 DEF DeleteInstance, NameInv, TypeOK
  <2>2. CASE insts[name].state = "present" /\ o # "fail"
    BY <1>2, <1>3, <2>1, <2>2 DEF DeleteInstance
  <2>3. CASE ~(insts[name].state = "present" /\ o # "fail")
    BY <1>3, <2>3 DEF DeleteInstance, Idles, SameLife, Released
  <2> QED
    BY <2>2, <2>3
<1>4. ASSUME NEW n \in Names, DeleteInstanceDirectly(n) PROVE Touches(n)
  BY <1>2, <1>4 DEF DeleteInstanceDirectly
<1>5. ASSUME NEW n \in Names, AddInstanceFinalizer(n) PROVE Touches(n)
  BY <1>5 DEF AddInstanceFinalizer, Touches, Protects, SameAssignment, SameLife,
     depWorker, TypeOK, InstanceState
<1>6. ASSUME NEW o \in Outcomes, UpdateInstance(o) PROVE Idles
  BY <1>6 DEF UpdateInstance, Idles, SameLife, Released, TypeOK, InstanceState
<1>7. ASSUME NEW o \in Outcomes, RemoveInstanceFinalizer(o) PROVE Idles \/ Leaves
  <2>1. inst \in Names /\ insts[inst].state = "deleting" /\ ipc = "unfinalize" /\ ipc' = "idle"
        /\ UNCHANGED <<stc, listed>>
    BY <1>7 DEF RemoveInstanceFinalizer, FinishInst, InstanceWorkerInv
  <2>2. CASE instFresh /\ o # "fail"
    BY <1>7, <2>1, <2>2
       DEF RemoveInstanceFinalizer, Leaves, SameAssignment, SameLife, TypeOK, InstanceState
  <2>3. CASE ~(instFresh /\ o # "fail")
    BY <1>7, <2>1, <2>3 DEF RemoveInstanceFinalizer, Idles, SameLife, Released
  <2> QED
    BY <2>2, <2>3
<1>8. ASSUME NEW o \in Outcomes, Append(o) \/ NothingToAppend PROVE Idles \/ Enlists
  <2>1. /\ name \in Names /\ target \in Targets /\ insts[name].target = target
        /\ copy.state = "present" /\ insts[name].owner = cur
        /\ UNCHANGED <<insts, stc, ipc, inst>>
    BY <1>8, AppendEffect
  <2>2. CASE UNCHANGED listed
    BY <2>1, <2>2 DEF Idles, SameLife, Released
  <2>3. CASE listed' # listed
    <3>1. listed' = [listed EXCEPT ![target] = listed[target] \cup {name}]
      BY <1>8, <2>3 DEF Append, NothingToAppend, TargetInv
    <3> QED
      BY <2>1, <3>1 DEF Enlists
  <2> QED
    BY <2>2, <2>3
<1>9. ASSUME NEW o \in Outcomes, Release(o) PROVE Idles \/ Delists
  <2>1. CASE UNCHANGED listed /\ FinishInst
    BY <1>9, <2>1, ReleaseEffect DEF Idles, SameLife, Released, FinishInst
  <2>2. CASE ~(UNCHANGED listed /\ FinishInst)
    BY <1>9, <2>2, ReleaseEffect DEF Delists, Release, Released, FinishInst
  <2> QED
    BY <2>1, <2>2
<1>10. ASSUME NEW t \in Targets, RemoveTargetFinalizer(t) PROVE Vanishes(t)
  BY <1>10 DEF RemoveTargetFinalizer, Vanishes
<1>11. ASSUME NEW t \in Targets, WriteTarget(t) \/ DeleteTarget(t) PROVE Idles
  BY <1>11 DEF WriteTarget, DeleteTarget, Idles, SameLife, Released, TypeOK, TargetState
<1>12. CASE \/ UNCHANGED vars \/ Restart
            \/ \E n \in Names : StartInstanceDeletion(n)
            \/ ReadList \/ ReadListFails
            \/ \E d \in Deployments :
                 CreateDeployment(d) \/ UpdateDeployment(d) \/ DeleteDeployment(d)
  BY <1>12 DEF vars, instWorker, Restart, FinishInst, StartInstanceDeletion, ReadList,
     ReadListFails, CreateDeployment, UpdateDeployment, DeleteDeployment,
     WriteDeployment, Idles, SameLife, Released
<1>13. CASE \/ \E d \in Deployments : StartReconcile(d)
            \/ LookupInStatus \/ LookupFindsNothing \/ LookupFails
            \/ EnsureFails \/ FindInstance \/ GetInstance \/ GetInstanceFails
            \/ GetTarget \/ GetTargetFails \/ InstanceNotFound
            \/ \E n \in Names : LookupOnCluster(n)
            \/ \E t \in Targets : Schedule(t)
            \/ \E o \in Outcomes :
                 \/ AddFinalizer(o) \/ HandleError(o) \/ Adopt(o)
                 \/ UpdateStatus(o) \/ ClearRef(o) \/ RemoveFinalizer(o)
  BY <1>13 DEF instWorker, StartReconcile, LookupInStatus, LookupFindsNothing, LookupFails,
     FindInstance, EnsureFails, GetInstance, GetInstanceFails, GetTarget, GetTargetFails,
     InstanceNotFound,
     LookupOnCluster, Schedule, AddFinalizer, HandleError, Adopt, UpdateStatus, ClearRef,
     RemoveFinalizer, Idles, SameLife, Released
<1>14. CASE DeploymentController
  <2>1. CASE \E o \in Outcomes : \/ UpdateInstance(o) \/ Append(o) \/ DeleteInstance(o)
                                 \/ \E n \in Names : CreateInstance(n, o)
    <3>1. ASSUME NEW o \in Outcomes, DeleteInstance(o) PROVE name \in Names
      BY <3>1 DEF DeleteInstance, NameInv, TypeOK
    <3> QED
      BY <1>1, <1>3, <1>6, <1>8, <2>1, <3>1
  <2> QED
    BY <1>8, <1>13, <1>14, <2>1 DEF DeploymentController, Outcomes
<1>15. CASE InstanceController
  BY <1>5, <1>7, <1>9, <1>12, <1>15 DEF InstanceController, ReconcileInstance
<1>16. CASE Users
  BY <1>4, <1>11, <1>12, <1>16 DEF Users
<1> QED
  BY <1>10, <1>12, <1>14, <1>15, <1>16 DEF Next

\* As long as it lives, an Instance stays on its ServiceTargetConfig and with
\* its deployment.
THEOREM TargetIsFixed == Spec => TargetFixed
<1> DEFINE Fixed == \A n \in Names :
       Live(n) /\ insts'[n].state \in {"present", "deleting"} =>
         insts'[n].target = insts[n].target /\ insts'[n].owner = insts[n].owner
<1>1. ASSUME IndInv, [Next]_vars PROVE Fixed
  BY <1>1, StepKinds DEF Touches, Begins, Protects, Deletes, Leaves, Enlists, Delists,
     Vanishes, Idles, SameLife, SameAssignment
<1>2. ASSUME IndInv, [Next]_vars PROVE [Fixed]_vars
  BY <1>1, <1>2
<1> QED
  BY <1>2, Invariant, PTL DEF Spec, TargetFixed

\* Two controllers that write the same list do not undo what the other wrote:
\* an entry goes with its own Instance only, or with the ServiceTargetConfig.
THEOREM NoEntryIsLost == Spec => NoLostEntry
<1> DEFINE Keeps == \A t \in Targets : \A n \in listed[t] \ listed'[t] :
       stc'[t].state # "gone" => insts[n].state # "present"
<1>1. ASSUME IndInv, [Next]_vars PROVE Keeps
  <2> SUFFICES ASSUME NEW t \in Targets, NEW n \in listed[t], n \notin listed'[t],
                      stc'[t].state # "gone"
               PROVE  insts[n].state # "present"
    OBVIOUS
  <2>1. CASE UNCHANGED listed
    BY <2>1
  <2>2. CASE Enlists
    BY <1>1, <2>2 DEF Enlists, IndInv, TypeOK
  <2>3. CASE Delists
    BY <1>1, <2>3 DEF Delists, IndInv, TypeOK
  <2>4. ASSUME NEW u \in Targets, Vanishes(u) PROVE insts[n].state # "present"
    BY <1>1, <2>4 DEF Vanishes, IndInv, TypeOK, TargetState
  <2> QED
    BY <1>1, <2>1, <2>2, <2>3, <2>4, StepKinds DEF Touches, Leaves, Idles
<1>2. ASSUME IndInv, [Next]_vars PROVE [Keeps]_vars
  BY <1>1, <1>2
<1> QED
  BY <1>2, Invariant, PTL DEF Spec, NoLostEntry

\* An Instance with a finalizer has left the list when it goes, although the
\* deployment controller writes the list in between, unless somebody has deleted
\* this Instance, or an earlier one of its name, directly.
THEOREM ReleasedBeforeGone == Spec => ReleasedFirst
<1> DEFINE First == \A n \in Names :
       n \notin direct /\ insts[n].finalizer /\ insts'[n].state = "gone" =>
         \A t \in Targets : n \notin listed'[t]
<1>1. ASSUME IndInv, [Next]_vars PROVE First
  <2> SUFFICES ASSUME NEW n \in Names, n \notin direct, insts[n].finalizer,
                      insts'[n].state = "gone"
               PROVE  \A t \in Targets : n \notin listed'[t]
    OBVIOUS
  <2>1. Live(n)
    BY <1>1 DEF IndInv, ClusterInv, InstanceInv
  <2>2. Leaves /\ inst = n
    BY <1>1, <2>1, StepKinds DEF Touches, Begins, Protects, Deletes, Leaves, Enlists, Delists,
       Vanishes, Idles, SameLife, Live
  <2> QED
    BY <1>1, <2>2 DEF Leaves, IndInv, UndisturbedInv
<1>2. ASSUME IndInv, [Next]_vars PROVE [First]_vars
  BY <1>1, <1>2
<1> QED
  BY <1>2, Invariant, PTL DEF Spec, ReleasedFirst

-----------------------------------------------------------------------------
(***************************************************************************)
(* Each Instance lives as module InstanceLifecycle has it.                 *)
(***************************************************************************)

\* The two things its life depends on that are not its own.
Entry(n) == \E t \in Targets : t = insts[n].target /\ n \in listed[t]
TargetThere(n) == \E t \in Targets : t = insts[n].target /\ stc[t].state # "gone"

\* What the life of n consists of.
LEMMA LifeStutters ==
  ASSUME NEW n \in Names, SameLife(n), Entry(n)' = Entry(n),
         TargetThere(n)' = TargetThere(n), Released(n)' = Released(n)
  PROVE  UNCHANGED Lifecycle(n)!vars
BY DEF SameLife, Entry, TargetThere, Released, Live, Lifecycle!vars

LEMMA LifeRetreats ==
  ASSUME NEW n \in Names, SameLife(n), Entry(n)' = Entry(n),
         TargetThere(n)' = TargetThere(n), Released(n), ~Released(n)'
  PROVE  Lifecycle(n)!Retreat
BY DEF SameLife, Entry, TargetThere, Released, Live, Lifecycle!Retreat

LEMMA InitSimulated == Init => \A n \in Names : Lifecycle(n)!Init
<1> SUFFICES ASSUME Init, NEW n \in Names PROVE Lifecycle(n)!Init
  OBVIOUS
<1>1. insts[n].target = None /\ insts[n].finalizer = FALSE /\ ~Live(n)
  BY DEF Init, Unused, Live
<1>2. (ipc = "unfinalize" /\ inst = n) = FALSE
  BY DEF Init
<1>3. (\E t \in Targets : t = insts[n].target /\ n \in listed[t]) = FALSE
  BY <1>1, NoneAssumption
<1> QED
  BY <1>1, <1>2, <1>3 DEF Lifecycle!Init

LEMMA StepSimulated ==
  ASSUME IndInv, [Next]_vars, NEW n \in Names
  PROVE  [Lifecycle(n)!Next]_(Lifecycle(n)!vars)
<1> USE DEF IndInv
<1>1. ASSUME SameLife(n), UNCHANGED listed,
             \A t \in Targets : stc'[t].state = "gone" <=> stc[t].state = "gone",
             Released(n)' => Released(n)
      PROVE  [Lifecycle(n)!Next]_(Lifecycle(n)!vars)
  <2>1. Entry(n)' = Entry(n) /\ TargetThere(n)' = TargetThere(n)
    BY <1>1 DEF SameLife, Entry, TargetThere
  <2>2. CASE Released(n)' = Released(n)
    BY <1>1, <2>1, <2>2, LifeStutters
  <2>3. CASE Released(n) /\ ~Released(n)'
    BY <1>1, <2>1, <2>3, LifeRetreats DEF Lifecycle!Next
  <2> QED
    BY <1>1, <2>2, <2>3 DEF Released
<1>2. ASSUME NEW m \in Names, Touches(m)
      PROVE  [Lifecycle(n)!Next]_(Lifecycle(n)!vars)
  <2>1. CASE m # n
    BY <1>1, <1>2, <2>1 DEF Touches, Released
  <2>2. CASE m = n
    <3>1. (ipc' = "unfinalize" /\ inst' = n) = (ipc = "unfinalize" /\ inst = n)
      BY <1>2 DEF Touches
    <3>2. CASE Begins(n)
      <4>1. insts[n].finalizer = FALSE
        BY <3>2 DEF Begins, ClusterInv, InstanceInv, TypeOK, InstanceState
      <4>2. Lifecycle(n)!Create
        BY <3>1, <3>2, <4>1 DEF Begins, Live, Lifecycle!Create
      <4> QED
        BY <4>2 DEF Lifecycle!Next
    <3>3. ASSUME SameAssignment(n)
          PROVE  /\ Entry(n)' = Entry(n) /\ TargetThere(n)' = TargetThere(n)
      BY <1>2, <3>3 DEF Touches, SameAssignment, Entry, TargetThere
    <3>4. CASE Protects(n)
      <4>1. Lifecycle(n)!Protect
        BY <3>1, <3>3, <3>4 DEF Protects, Live, Entry, TargetThere, Lifecycle!Protect
      <4> QED
        BY <4>1 DEF Lifecycle!Next
    <3>5. CASE Deletes(n)
      <4>1. Lifecycle(n)!Delete
        BY <3>1, <3>3, <3>5 DEF Deletes, Live, Entry, TargetThere, Lifecycle!Delete
      <4> QED
        BY <4>1 DEF Lifecycle!Next
    <3> QED
      BY <1>2, <2>2, <3>2, <3>4, <3>5 DEF Touches
  <2> QED
    BY <2>1, <2>2
<1>3. CASE Leaves
  <2>1. CASE inst # n
    BY <1>1, <1>3, <2>1 DEF Leaves, Released
  <2>2. CASE inst = n
    <3>1. Entry(n)' = Entry(n) /\ TargetThere(n)' = TargetThere(n)
      BY <1>3, <2>2 DEF Leaves, SameAssignment, Entry, TargetThere
    <3>2. (ipc' = "unfinalize" /\ inst' = n) = FALSE
      BY <1>3 DEF Leaves
    <3>3. Lifecycle(n)!Leave
      BY <1>3, <2>2, <3>1, <3>2 DEF Leaves, Live, Entry, TargetThere, Lifecycle!Leave
    <3> QED
      BY <3>3 DEF Lifecycle!Next
  <2> QED
    BY <2>1, <2>2
<1>4. CASE Enlists
  <2>1. SameLife(n) /\ TargetThere(n)' = TargetThere(n) /\ Released(n)' = Released(n)
    BY <1>4 DEF Enlists, SameLife, TargetThere, Released
  <2>2. CASE name # n
    <3>1. Entry(n)' = Entry(n)
      BY <1>4, <2>2 DEF Enlists, Entry, TypeOK
    <3> QED
      BY <2>1, <3>1, LifeStutters
  <2>3. CASE name = n
    <3>1. Entry(n)' = TRUE
      BY <1>4, <2>3 DEF Enlists, Entry, TypeOK
    <3>2. Lifecycle(n)!Enlist
      BY <1>4, <2>1, <3>1 DEF Enlists, Live, Entry, TargetThere, Released, Lifecycle!Enlist
    <3> QED
      BY <3>2 DEF Lifecycle!Next
  <2> QED
    BY <2>2, <2>3
<1>5. CASE Delists
  <2>1. SameLife(n) /\ TargetThere(n)' = TargetThere(n)
    BY <1>5 DEF Delists, SameLife, TargetThere
  <2>2. CASE inst # n
    <3>1. Entry(n)' = Entry(n)
      BY <1>5, <2>2 DEF Delists, Entry, TypeOK
    <3>2. Released(n)' = Released(n)
      BY <1>5, <2>2 DEF Delists, Released
    <3> QED
      BY <2>1, <3>1, <3>2, LifeStutters
  <2>3. CASE inst = n
    <3>1. Entry(n)' = FALSE
      BY <1>5, <2>3 DEF Delists, Entry, TypeOK
    <3>2. Lifecycle(n)!Release
      BY <1>5, <2>1, <2>3, <3>1 DEF Delists, Live, Entry, TargetThere, Released, Lifecycle!Release
    <3> QED
      BY <3>2 DEF Lifecycle!Next
  <2> QED
    BY <2>2, <2>3
<1>6. ASSUME NEW t \in Targets, Vanishes(t)
      PROVE  [Lifecycle(n)!Next]_(Lifecycle(n)!vars)
  <2>1. SameLife(n) /\ Released(n)' = Released(n)
    BY <1>6 DEF Vanishes, SameLife, Released
  <2>2. stc'[t].state = "gone" /\ \A u \in Targets \ {t} : stc'[u] = stc[u] /\ listed'[u] = listed[u]
    BY <1>6 DEF Vanishes, TypeOK, TargetState
  <2>3. CASE insts[n].target # t
    <3>1. Entry(n)' = Entry(n) /\ TargetThere(n)' = TargetThere(n)
      BY <1>6, <2>2, <2>3 DEF Vanishes, Entry, TargetThere
    <3> QED
      BY <2>1, <3>1, LifeStutters
  <2>4. CASE insts[n].target = t
    <3>1. Entry(n)' = FALSE /\ TargetThere(n) = TRUE /\ TargetThere(n)' = FALSE
      BY <1>6, <2>2, <2>4 DEF Vanishes, Entry, TargetThere, TypeOK
    <3>2. Lifecycle(n)!LoseTarget
      BY <1>6, <2>1, <3>1 DEF Vanishes, Live, Entry, TargetThere, Released, Lifecycle!LoseTarget
    <3> QED
      BY <3>2 DEF Lifecycle!Next
  <2> QED
    BY <2>3, <2>4
<1>7. CASE Idles
  BY <1>1, <1>7 DEF Idles
<1> QED
  BY <1>2, <1>3, <1>4, <1>5, <1>6, <1>7, StepKinds

\* Each Instance lives as InstanceLifecycle has it, between the two workers,
\* the users and the end of ServiceTargetConfigs: protected, deleted, taken out
\* of the list and only then let go.
THEOREM LifecyclesAreKept == Spec => KeepsLifecycle
<1>1. ASSUME IndInv, [Next]_vars
      PROVE  [\A n \in Names : [Lifecycle(n)!Next]_(Lifecycle(n)!vars)]_vars
  BY <1>1, StepSimulated
<1>2. Init => \A n \in Names : Lifecycle(n)!Init
  BY InitSimulated
<1> QED
  BY <1>1, <1>2, Invariant, PTL DEF Spec, KeepsLifecycle
=============================================================================
