----------------------- MODULE LandscaperDeployments -----------------------
(***************************************************************************)
(* The LandscaperDeployment controller (pkg/controllers/landscaper-        *)
(* deployments) with the two it shares resources with: it creates and      *)
(* deletes the Instances, and it writes the list of Instances in the       *)
(* status of a ServiceTargetConfig, as does the Instance controller; the   *)
(* ServiceTargetConfig controller writes other parts of that resource.     *)
(*                                                                         *)
(* Each controller has one worker and makes one API call per action.  What *)
(* the Instance controller does with the objects of an Instance is left to *)
(* the module Instances; what is left here is the finalizer and the entry  *)
(* in the ServiceTargetConfig.                                             *)
(*                                                                         *)
(* Left out as nothing here reads them: status.observedGeneration, phase,  *)
(* data plane type and last error.  The ignore annotation is one more part *)
(* of the spec that is copied to the Instance.                             *)
(***************************************************************************)
EXTENDS Integers, FiniteSets

CONSTANTS
  Deployments,  \* names of LandscaperDeployments
  Targets,      \* names of ServiceTargetConfigs
  None,         \* no deployment, no target
  MaxNames,     \* bound: generated names of Instances
  MaxSpec,      \* bound: generations of a deployment's spec
  MaxFaults,    \* bound: failed calls and restarts of the process
  MaxUser,      \* bound: Instances deleted directly, deployments recreated
  MaxTouch      \* bound: writes to ServiceTargetConfigs by others

ASSUME NamesAssumption == MaxNames \in Nat \ {0}
ASSUME NoneAssumption == None \notin Deployments /\ None \notin Targets
ASSUME BoundsAssumption ==
  /\ MaxSpec \in Nat \ {0} /\ MaxFaults \in Nat
  /\ MaxUser \in Nat /\ MaxTouch \in Nat

VARIABLES
  dep,        \* the LandscaperDeployments
  insts,      \* the Instances, by name
  stc,        \* the ServiceTargetConfigs
  listed,     \* status.instanceRefs of every ServiceTargetConfig
  queue,      \* the work queue of the deployment controller
  pc,         \* the deployment worker's next call
  cur,        \* the deployment it works on
  copy,       \* its copy of that deployment
  fresh,      \* the copy has the stored resource version
  name,       \* the name of the deployment's Instance, if known
  target,     \* the ServiceTargetConfig chosen for or read from the Instance
  refs,       \* its copy of the list of that ServiceTargetConfig
  refsFresh,  \* that copy has the stored resource version
  nameFresh,  \* its copy of the Instance has the stored resource version
  ipc,        \* the instance worker's next call
  inst,       \* the Instance it works on
  instFresh,  \* its copy of the Instance has the stored resource version
  irefs,      \* its copy of the list of the Instance's ServiceTargetConfig
  irefsFresh, \* that copy has the stored resource version
  direct,     \* history: the Instances that somebody has deleted directly
  faults, user, touched  \* what the bounds count

depWorker == <<pc, cur, copy, fresh, name, target, refs, refsFresh, nameFresh>>
instWorker == <<ipc, inst, instFresh, irefs, irefsFresh>>
vars == <<dep, insts, stc, listed, queue, depWorker, instWorker,
          direct, faults, user, touched>>

-----------------------------------------------------------------------------
(***************************************************************************)
(* Data.                                                                   *)
(***************************************************************************)

Names == 1 .. MaxNames
Nil == 0    \* no reference

DeploymentState ==
  [state: {"new", "present", "deleting", "gone"}, finalizer: BOOLEAN,
   ref: Names \cup {Nil}, spec: 0 .. MaxSpec]

InstanceState ==
  [state: {"unused", "present", "deleting", "gone"}, finalizer: BOOLEAN,
   owner: Deployments \cup {None}, target: Targets \cup {None},
   spec: 0 .. MaxSpec]

TargetState == [state: {"present", "deleting", "gone"}, visible: BOOLEAN]

New == [state |-> "new", finalizer |-> FALSE, ref |-> Nil, spec |-> 0]
Gone == [New EXCEPT !.state = "gone"]
Unused == [state |-> "unused", finalizer |-> FALSE, owner |-> None,
           target |-> None, spec |-> 0]

Live(n) == insts[n].state \in {"present", "deleting"}
Owned(d) == {n \in Names : Live(n) /\ insts[n].owner = d}

Steps == {"idle", "finalizer", "lookup", "adopt", "ensure", "update",
          "create", "get", "status", "getTarget", "append", "delete", "clear",
          "unfinalize", "error"}

Init ==
  /\ dep = [d \in Deployments |-> New]
  /\ insts = [n \in Names |-> Unused]
  /\ stc \in [Targets -> [state: {"present"}, visible: BOOLEAN]]
  /\ listed = [t \in Targets |-> {}]
  /\ queue = {}
  /\ pc = "idle" /\ cur = None /\ copy = New /\ fresh = FALSE
  /\ name = Nil /\ target = None /\ refs = {}
  /\ refsFresh = FALSE /\ nameFresh = FALSE /\ direct = {}
  /\ ipc = "idle" /\ inst = Nil /\ instFresh = FALSE
  /\ irefs = {} /\ irefsFresh = FALSE
  /\ faults = 0 /\ user = 0 /\ touched = 0

-----------------------------------------------------------------------------
(***************************************************************************)
(* API calls.                                                              *)
(***************************************************************************)
Outcomes == {"ok", "fail", "lost"}

\* A call succeeds, fails without effect, or takes effect without an answer.
Outcome(o) ==
  IF o = "ok" THEN UNCHANGED faults
  ELSE faults < MaxFaults /\ faults' = faults + 1

\* The status of the deployment's copy, which differs from the stored one, is
\* written unless the copy is outdated: an event that queues the deployment.
StoreStatus(o) ==
  IF fresh /\ o # "fail"
  THEN dep' = [dep EXCEPT ![cur].ref = copy.ref] /\ queue' = queue \cup {cur}
  ELSE UNCHANGED <<dep, queue>>

Stored(o) == fresh /\ o = "ok"

\* A new version of the ServiceTargetConfig t outdates the workers' copies.
OutdateTarget(t) ==
  /\ refsFresh' = (refsFresh /\ target # t)
  /\ irefsFresh' = (irefsFresh /\ insts[inst].target # t)

\* A write of the Instance n outdates the instance worker's copy, and is an
\* event that queues the owner.
OutdateInstance(n) ==
  /\ instFresh' = (instFresh /\ inst # n)
  /\ queue' = queue \cup {insts'[n].owner}

\* The same for the copy with which the deployment worker updates an Instance.
OutdateName(n) == nameFresh' = (nameFresh /\ name # n)

Goto(step) == pc' = step
Fail == Goto("error")
Finish ==
  /\ pc' = "idle" /\ cur' = None /\ copy' = New /\ fresh' = FALSE
  /\ name' = Nil /\ target' = None /\ refs' = {}
  /\ refsFresh' = FALSE /\ nameFresh' = FALSE

FinishInst ==
  /\ ipc' = "idle" /\ inst' = Nil /\ instFresh' = FALSE
  /\ irefs' = {} /\ irefsFresh' = FALSE

-----------------------------------------------------------------------------
(***************************************************************************)
(* The deployment controller: Reconcile.                                   *)
(***************************************************************************)

\* The deployment is read.  (A read that fails leaves it in the queue.)
StartReconcile(d) ==
  /\ pc = "idle" /\ d \in queue
  /\ queue' = queue \ {d}
  /\ IF dep[d].state \notin {"present", "deleting"}
     THEN UNCHANGED <<pc, cur, copy, fresh>>
     ELSE /\ cur' = d /\ copy' = dep[d] /\ fresh' = TRUE
          /\ Goto(IF dep[d].state = "present" /\ ~dep[d].finalizer
                  THEN "finalizer" ELSE "lookup")
  /\ UNCHANGED <<dep, insts, stc, listed, name, target, refs, refsFresh,
                 nameFresh, instWorker, direct, faults, user, touched>>

AddFinalizer(o) ==
  /\ pc = "finalizer"
  /\ Outcome(o)
  /\ dep' = IF fresh /\ o # "fail" THEN [dep EXCEPT ![cur].finalizer = TRUE]
                                   ELSE dep
  /\ queue' = queue \cup {cur}
  /\ Finish
  /\ UNCHANGED <<insts, stc, listed, instWorker, direct, user, touched>>

\* Mutant: a failed reconcile is not repeated.
HandleError_NoRetry(o) ==
  /\ pc = "error"
  /\ Outcome(o)
  /\ StoreStatus(o)
  /\ Finish
  /\ UNCHANGED <<insts, stc, listed, instWorker, direct, user, touched>>

\* handleErrorFunc: the status of the copy is written with the error; the
\* request is queued again in any case.
HandleError(o) ==
  /\ pc = "error"
  /\ Outcome(o)
  /\ dep' = IF fresh /\ o # "fail" THEN [dep EXCEPT ![cur].ref = copy.ref]
                                   ELSE dep
  /\ queue' = queue \cup {cur}
  /\ Finish
  /\ UNCHANGED <<insts, stc, listed, instWorker, direct, user, touched>>

\* getInstanceRef: the reference in the status, or else an Instance found on
\* the cluster that the deployment owns.  Then the Instance is created or
\* updated, or deleted with the deployment.
AfterLookup == Goto(IF copy.state = "deleting" THEN "delete" ELSE "ensure")

LookupInStatus ==
  /\ pc = "lookup" /\ copy.ref # Nil
  /\ name' = copy.ref
  /\ AfterLookup
  /\ UNCHANGED <<dep, insts, stc, listed, queue, cur, copy, fresh, target, refs,
                 refsFresh, nameFresh, instWorker, direct, faults, user,
                 touched>>

LookupOnCluster(n) ==
  /\ pc = "lookup" /\ copy.ref = Nil /\ n \in Owned(cur)
  /\ copy' = [copy EXCEPT !.ref = n]
  /\ Goto("adopt")
  /\ UNCHANGED <<dep, insts, stc, listed, queue, cur, fresh, name, target, refs,
                 refsFresh, nameFresh, instWorker, direct, faults, user,
                 touched>>

\* Mutant: only the status is asked.
LookupFindsNothing_Trusting ==
  /\ pc = "lookup" /\ copy.ref = Nil
  /\ Goto(IF copy.state = "deleting" THEN "unfinalize" ELSE "ensure")
  /\ UNCHANGED <<dep, insts, stc, listed, queue, cur, copy, fresh, name, target,
                 refs, refsFresh, nameFresh, instWorker, direct, faults, user,
                 touched>>

LookupFindsNothing ==
  /\ pc = "lookup" /\ copy.ref = Nil /\ Owned(cur) = {}
  /\ Goto(IF copy.state = "deleting" THEN "unfinalize" ELSE "ensure")
  /\ UNCHANGED <<dep, insts, stc, listed, queue, cur, copy, fresh, name, target,
                 refs, refsFresh, nameFresh, instWorker, direct, faults, user,
                 touched>>

LookupFails ==
  /\ pc = "lookup" /\ copy.ref = Nil
  /\ Outcome("fail")
  /\ Fail
  /\ UNCHANGED <<dep, insts, stc, listed, queue, cur, copy, fresh, name, target,
                 refs, refsFresh, nameFresh, instWorker, direct, user, touched>>

\* The reference found on the cluster is written into the status.
Adopt(o) ==
  /\ pc = "adopt"
  /\ Outcome(o)
  /\ StoreStatus(o)
  /\ IF Stored(o) THEN name' = copy.ref /\ AfterLookup /\ UNCHANGED fresh
                  ELSE UNCHANGED name /\ Fail /\ fresh' = (fresh /\ o = "fail")
  /\ UNCHANGED <<insts, stc, listed, cur, copy, target, refs, refsFresh,
                 nameFresh, instWorker, direct, user, touched>>

-----------------------------------------------------------------------------
(***************************************************************************)
(* The deployment controller: creating and updating the Instance.          *)
(***************************************************************************)

Known == name # Nil /\ Live(name)

\* CreateOrUpdate reads the Instance; mutateInstance copies the spec, and keeps
\* the ServiceTargetConfig of an Instance that has one.
FindInstance ==
  /\ pc = "ensure" /\ Known
  /\ LET changed == insts[name].spec # copy.spec
     IN  nameFresh' = changed /\ Goto(IF changed THEN "update" ELSE "get")
  /\ UNCHANGED <<dep, insts, stc, listed, queue, cur, copy, fresh, name, target,
                 refs, refsFresh, instWorker, direct, faults, user, touched>>

\* Mutant: the ServiceTargetConfig is chosen again.
UpdateInstance_Reschedules(o) ==
  /\ pc = "update"
  /\ Outcome(o)
  /\ IF nameFresh /\ o # "fail"
     THEN /\ \E t \in {u \in Targets : stc[u].visible} :
               insts' = [insts EXCEPT ![name].spec = copy.spec,
                                      ![name].target = t]
          /\ OutdateInstance(name)
     ELSE UNCHANGED <<insts, instFresh, queue>>
  /\ IF nameFresh /\ o = "ok" THEN Goto("get") ELSE Fail
  /\ nameFresh' = FALSE
  /\ UNCHANGED <<dep, stc, listed, cur, copy, fresh, name, target, refs,
                 refsFresh, ipc, inst, irefs, irefsFresh, direct, user,
                 touched>>

\* It writes the Instance, unless somebody has written it in between.
UpdateInstance(o) ==
  /\ pc = "update"
  /\ Outcome(o)
  /\ IF nameFresh /\ o # "fail"
     THEN /\ insts' = [insts EXCEPT ![name].spec = copy.spec]
          /\ OutdateInstance(name)
     ELSE UNCHANGED <<insts, instFresh, queue>>
  /\ IF nameFresh /\ o = "ok" THEN Goto("get") ELSE Fail
  /\ nameFresh' = FALSE
  /\ UNCHANGED <<dep, stc, listed, cur, copy, fresh, name, target, refs,
                 refsFresh, ipc, inst, irefs, irefsFresh, direct, user,
                 touched>>

Visible == {t \in Targets : stc[t].state # "gone" /\ stc[t].visible}

\* CreateOrUpdate of a new Instance: mutateInstance chooses a visible
\* ServiceTargetConfig (which one is left to the module on scheduling).
Schedule(t) ==
  /\ pc = "ensure" /\ ~Known
  /\ t \in Visible
  /\ target' = t
  /\ Goto("create")
  /\ UNCHANGED <<dep, insts, stc, listed, queue, cur, copy, fresh, name, refs,
                 refsFresh, nameFresh, instWorker, direct, faults, user,
                 touched>>

\* The Instance cannot be read, or no ServiceTargetConfig be chosen.
EnsureFails ==
  /\ pc = "ensure"
  /\ IF ~Known /\ Visible = {} THEN UNCHANGED faults ELSE Outcome("fail")
  /\ Fail
  /\ UNCHANGED <<dep, insts, stc, listed, queue, cur, copy, fresh, name, target,
                 refs, refsFresh, nameFresh, instWorker, direct, user, touched>>

\* The Instance is created, under the name in the status if there is one (its
\* Instance was deleted), or else under a new name.
GeneratedName(n) ==
  /\ insts[n].state = "unused"
  /\ \A m \in Names : insts[m].state = "unused" => n <= m

CreateInstance(n, o) ==
  /\ pc = "create"
  /\ IF name = Nil THEN GeneratedName(n) ELSE n = name
  /\ Outcome(o)
  /\ IF o = "fail" THEN UNCHANGED <<insts, instFresh, queue>>
     ELSE /\ insts' = [insts EXCEPT ![n] =
               [state |-> "present", finalizer |-> FALSE, owner |-> cur,
                target |-> target, spec |-> copy.spec]]
          /\ OutdateInstance(n)
  /\ IF o = "ok" THEN name' = n /\ copy' = [copy EXCEPT !.ref = n] /\ Goto("get")
                 ELSE Fail /\ UNCHANGED <<name, copy>>
  /\ UNCHANGED <<dep, stc, listed, cur, fresh, target, refs, refsFresh,
                 nameFresh, ipc, inst, irefs, irefsFresh, direct, user,
                 touched>>

\* The Instance is read again; the status of the deployment is written if the
\* reference is new, or if the phase of the Instance has changed.
GetInstance ==
  /\ pc = "get" /\ Live(name)
  /\ target' = insts[name].target
  /\ \/ Goto("status")
     \/ copy.ref = dep[cur].ref /\ Goto("getTarget")
  /\ UNCHANGED <<dep, insts, stc, listed, queue, cur, copy, fresh, name, refs,
                 refsFresh, nameFresh, instWorker, direct, faults, user,
                 touched>>

GetInstanceFails ==
  /\ pc = "get"
  /\ IF Live(name) THEN Outcome("fail") ELSE UNCHANGED faults
  /\ Fail
  /\ UNCHANGED <<dep, insts, stc, listed, queue, cur, copy, fresh, name, target,
                 refs, refsFresh, nameFresh, instWorker, direct, user, touched>>

UpdateStatus(o) ==
  /\ pc = "status"
  /\ Outcome(o)
  /\ StoreStatus(o)
  /\ IF Stored(o) THEN Goto("getTarget") /\ UNCHANGED fresh
                  ELSE Fail /\ fresh' = (fresh /\ o = "fail")
  /\ UNCHANGED <<insts, stc, listed, cur, copy, name, target, refs, refsFresh,
                 nameFresh, instWorker, direct, user, touched>>

GetTarget ==
  /\ pc = "getTarget" /\ stc[target].state # "gone"
  /\ refs' = listed[target] /\ refsFresh' = TRUE
  /\ Goto("append")
  /\ UNCHANGED <<dep, insts, stc, listed, queue, cur, copy, fresh, name,
                 nameFresh, target, instWorker, direct, faults, user, touched>>

GetTargetFails ==
  /\ pc = "getTarget"
  /\ IF stc[target].state # "gone" THEN Outcome("fail") ELSE UNCHANGED faults
  /\ Fail
  /\ UNCHANGED <<dep, insts, stc, listed, queue, cur, copy, fresh, name, target,
                 refs, refsFresh, nameFresh, instWorker, direct, user, touched>>

\* Mutant: a conflict ends the reconcile without an error.
Append_IgnoresConflict(o) ==
  /\ pc = "append" /\ name \notin refs
  /\ Outcome(o)
  /\ IF refsFresh /\ o # "fail"
     THEN /\ listed' = [listed EXCEPT ![target] = refs \cup {name}]
          /\ irefsFresh' = (irefsFresh /\ insts[inst].target # target)
     ELSE UNCHANGED <<listed, irefsFresh>>
  /\ IF ~refsFresh \/ o = "ok"
     THEN Finish
     ELSE Fail /\ UNCHANGED <<cur, copy, fresh, name, target, refs, refsFresh,
                              nameFresh>>
  /\ UNCHANGED <<dep, insts, stc, queue, ipc, inst, instFresh, irefs, direct,
                 user, touched>>

\* The Instance is appended to the list that was read.
Append(o) ==
  /\ pc = "append" /\ name \notin refs
  /\ Outcome(o)
  /\ IF refsFresh /\ o # "fail"
     THEN /\ listed' = [listed EXCEPT ![target] = refs \cup {name}]
          /\ irefsFresh' = (irefsFresh /\ insts[inst].target # target)
     ELSE UNCHANGED <<listed, irefsFresh>>
  /\ IF refsFresh /\ o = "ok"
     THEN Finish
     ELSE Fail /\ UNCHANGED <<cur, copy, fresh, name, target, refs, refsFresh,
                              nameFresh>>
  /\ UNCHANGED <<dep, insts, stc, queue, ipc, inst, instFresh, irefs, direct,
                 user, touched>>

NothingToAppend ==
  /\ pc = "append" /\ name \in refs
  /\ Finish
  /\ UNCHANGED <<dep, insts, stc, listed, queue, instWorker, direct, faults,
                 user, touched>>

-----------------------------------------------------------------------------
(***************************************************************************)
(* The deployment controller: handleDelete.                                *)
(***************************************************************************)

\* The life of a resource that somebody deletes.
Deleted(r) ==
  IF r.finalizer THEN [r EXCEPT !.state = "deleting"]
                 ELSE [r EXCEPT !.state = "gone"]

\* Mutant: the finalizer goes as soon as the Instance is deleted.
DeleteInstance_Unwaiting(o) ==
  /\ pc = "delete" /\ Live(name)
  /\ Outcome(o)
  /\ IF insts[name].state = "present" /\ o # "fail"
     THEN /\ insts' = [insts EXCEPT ![name] = Deleted(@)]
          /\ OutdateInstance(name)
     ELSE UNCHANGED <<insts, instFresh, queue>>
  /\ IF o = "ok" THEN Goto("unfinalize") ELSE Fail
  /\ UNCHANGED <<cur, copy, fresh, name, target, refs, refsFresh, nameFresh,
                 dep, stc, listed, ipc, inst, irefs, irefsFresh, direct, user,
                 touched>>

\* The Instance is deleted, once; the reconcile ends, and the events of the
\* Instance start the next ones until it is gone.
DeleteInstance(o) ==
  /\ pc = "delete" /\ Live(name)
  /\ Outcome(o)
  /\ IF insts[name].state = "present" /\ o # "fail"
     THEN /\ insts' = [insts EXCEPT ![name] = Deleted(@)]
          /\ OutdateInstance(name)
     ELSE UNCHANGED <<insts, instFresh, queue>>
  /\ IF o = "ok" THEN Finish
     ELSE Fail /\ UNCHANGED <<cur, copy, fresh, name, target, refs, refsFresh,
                              nameFresh>>
  /\ UNCHANGED <<dep, stc, listed, ipc, inst, irefs, irefsFresh, direct, user,
                 touched>>

InstanceNotFound ==
  /\ pc = "delete" /\ ~Live(name)
  /\ copy' = [copy EXCEPT !.ref = Nil]
  /\ Goto("clear")
  /\ UNCHANGED <<dep, insts, stc, listed, queue, cur, fresh, name, target, refs,
                 refsFresh, nameFresh, instWorker, direct, faults, user,
                 touched>>

ClearRef(o) ==
  /\ pc = "clear"
  /\ Outcome(o)
  /\ StoreStatus(o)
  /\ IF Stored(o) THEN Goto("unfinalize") /\ UNCHANGED fresh
                  ELSE Fail /\ fresh' = (fresh /\ o = "fail")
  /\ UNCHANGED <<insts, stc, listed, cur, copy, name, target, refs, refsFresh,
                 nameFresh, instWorker, direct, user, touched>>

RemoveFinalizer(o) ==
  /\ pc = "unfinalize"
  /\ Outcome(o)
  /\ dep' = IF fresh /\ o # "fail" THEN [dep EXCEPT ![cur] = Gone] ELSE dep
  /\ IF Stored(o) THEN Finish
     ELSE /\ Fail /\ fresh' = (fresh /\ o = "fail")
          /\ UNCHANGED <<cur, copy, name, target, refs, refsFresh, nameFresh>>
  /\ UNCHANGED <<insts, stc, listed, queue, instWorker, direct, user, touched>>

-----------------------------------------------------------------------------
(***************************************************************************)
(* The Instance controller, as far as it matters here.                     *)
(***************************************************************************)

AddInstanceFinalizer(n) ==
  /\ ipc = "idle"
  /\ insts[n].state = "present" /\ ~insts[n].finalizer
  /\ insts' = [insts EXCEPT ![n].finalizer = TRUE]
  /\ OutdateInstance(n) /\ OutdateName(n)
  /\ UNCHANGED <<dep, stc, listed, pc, cur, copy, fresh, name, target, refs,
                 refsFresh, ipc, inst, irefs, irefsFresh, direct, faults, user,
                 touched>>

\* handleDelete: once all objects of the Instance are gone its ServiceTargetConfig
\* is read.  The copy of the Instance is an older one.
StartInstanceDeletion(n) ==
  /\ ipc = "idle" /\ insts[n].state = "deleting"
  /\ ipc' = "getTarget" /\ inst' = n /\ instFresh' = TRUE
  /\ UNCHANGED <<dep, insts, stc, listed, queue, depWorker, irefs, irefsFresh,
                 direct, faults, user, touched>>

ReadList ==
  /\ ipc = "getTarget" /\ stc[insts[inst].target].state # "gone"
  /\ ipc' = "release"
  /\ irefs' = listed[insts[inst].target] /\ irefsFresh' = TRUE
  /\ UNCHANGED <<dep, insts, stc, listed, queue, depWorker, inst, instFresh,
                 direct, faults, user, touched>>

ReadListFails ==
  /\ ipc = "getTarget"
  /\ IF stc[insts[inst].target].state # "gone" THEN Outcome("fail")
                                              ELSE UNCHANGED faults
  /\ FinishInst
  /\ UNCHANGED <<dep, insts, stc, listed, queue, depWorker, direct, user,
                 touched>>

\* Mutant: the list is written whatever its version.
Release_Unlocked(o) ==
  /\ ipc = "release"
  /\ Outcome(o)
  /\ IF o = "fail" THEN UNCHANGED <<listed, refsFresh>>
     ELSE /\ listed' = [listed EXCEPT ![insts[inst].target] = irefs \ {inst}]
          /\ refsFresh' = (refsFresh /\ target # insts[inst].target)
  /\ IF o = "ok"
     THEN ipc' = "unfinalize" /\ UNCHANGED <<inst, instFresh, irefs,
                                             irefsFresh>>
     ELSE FinishInst
  /\ UNCHANGED <<dep, insts, stc, queue, pc, cur, copy, fresh, name, target,
                 refs, nameFresh, direct, user, touched>>

\* Mutant: the finalizer is removed also if the list could not be written.
Release_GoesOn(o) ==
  /\ ipc = "release"
  /\ Outcome(o)
  /\ LET t == insts[inst].target
         rest == irefs \ {inst}
     IN  IF irefsFresh /\ o # "fail"
         THEN /\ listed' = [listed EXCEPT ![t] = rest]
              /\ refsFresh' = (refsFresh /\ (target # t \/ rest = irefs))
         ELSE UNCHANGED <<listed, refsFresh>>
  /\ ipc' = "unfinalize" /\ UNCHANGED <<inst, instFresh, irefs, irefsFresh>>
  /\ UNCHANGED <<dep, insts, stc, queue, pc, cur, copy, fresh, name, target,
                 refs, nameFresh, direct, user, touched>>

\* The Instance is removed from the list that was read.
Release(o) ==
  /\ ipc = "release"
  /\ Outcome(o)
  /\ LET t == insts[inst].target
         rest == irefs \ {inst}
     IN  IF irefsFresh /\ o # "fail"
         THEN /\ listed' = [listed EXCEPT ![t] = rest]
              /\ refsFresh' = (refsFresh /\ (target # t \/ rest = irefs))
         ELSE UNCHANGED <<listed, refsFresh>>
  /\ IF irefsFresh /\ o = "ok"
     THEN ipc' = "unfinalize" /\ UNCHANGED <<inst, instFresh, irefs,
                                             irefsFresh>>
     ELSE FinishInst
  /\ UNCHANGED <<dep, insts, stc, queue, pc, cur, copy, fresh, name, target,
                 refs, nameFresh, direct, user, touched>>

\* Mutant: the deployment controller does not watch its Instances' deletion.
RemoveInstanceFinalizer_NoEvent(o) ==
  /\ ipc = "unfinalize"
  /\ Outcome(o)
  /\ insts' = IF instFresh /\ o # "fail"
              THEN [insts EXCEPT ![inst].state = "gone", ![inst].finalizer = FALSE]
              ELSE insts
  /\ FinishInst
  /\ UNCHANGED <<dep, stc, listed, queue, depWorker, direct, user, touched>>

RemoveInstanceFinalizer(o) ==
  /\ ipc = "unfinalize"
  /\ Outcome(o)
  /\ IF instFresh /\ o # "fail"
     THEN /\ insts' = [insts EXCEPT ![inst].state = "gone",
                                    ![inst].finalizer = FALSE]
          /\ queue' = queue \cup {insts[inst].owner}
          /\ OutdateName(inst)
     ELSE UNCHANGED <<insts, queue, nameFresh>>
  /\ FinishInst
  /\ UNCHANGED <<dep, stc, listed, pc, cur, copy, fresh, name, target, refs,
                 refsFresh, direct, user, touched>>

-----------------------------------------------------------------------------
(***************************************************************************)
(* The surroundings.                                                       *)
(***************************************************************************)

\* Both workers are in the same process; on start all deployments are queued.
Restart ==
  /\ pc # "idle" \/ ipc # "idle"
  /\ faults < MaxFaults /\ faults' = faults + 1
  /\ Finish /\ FinishInst
  /\ queue' = Deployments
  /\ UNCHANGED <<dep, insts, stc, listed, direct, user, touched>>

\* A user's write of the deployment d.
WriteDeployment(d, r) ==
  /\ dep' = [dep EXCEPT ![d] = r]
  /\ fresh' = (fresh /\ cur # d)
  /\ queue' = queue \cup {d}
  /\ UNCHANGED <<insts, stc, listed, pc, cur, copy, name, target, refs,
                 refsFresh, nameFresh, instWorker, direct, faults, touched>>

CreateDeployment(d) ==
  /\ \/ dep[d].state = "new" /\ UNCHANGED user
     \/ dep[d].state = "gone" /\ user < MaxUser /\ user' = user + 1
  /\ WriteDeployment(d, [New EXCEPT !.state = "present", !.spec = 1])

UpdateDeployment(d) ==
  /\ dep[d].state = "present" /\ dep[d].spec < MaxSpec
  /\ WriteDeployment(d, [dep[d] EXCEPT !.spec = @ + 1])
  /\ UNCHANGED user

DeleteDeployment(d) ==
  /\ dep[d].state = "present"
  /\ WriteDeployment(d, Deleted(dep[d]))
  /\ UNCHANGED user

\* Somebody deletes an Instance that belongs to a deployment.
DeleteInstanceDirectly(n) ==
  /\ user < MaxUser /\ user' = user + 1
  /\ insts[n].state = "present"
  /\ insts' = [insts EXCEPT ![n] = Deleted(@)]
  /\ direct' = direct \cup {n}
  /\ OutdateInstance(n) /\ OutdateName(n)
  /\ UNCHANGED <<dep, stc, listed, pc, cur, copy, fresh, name, target, refs,
                 refsFresh, ipc, inst, irefs, irefsFresh, faults, touched>>

\* The label of a ServiceTargetConfig is changed, or its controller writes the
\* observed generation or the finalizer.
WriteTarget(t) ==
  /\ touched < MaxTouch /\ touched' = touched + 1
  /\ stc[t].state # "gone"
  /\ \E visible \in BOOLEAN : stc' = [stc EXCEPT ![t].visible = visible]
  /\ OutdateTarget(t)
  /\ UNCHANGED <<dep, insts, listed, queue, pc, cur, copy, fresh, name, target,
                 refs, nameFresh, ipc, inst, instFresh, irefs, direct, faults,
                 user>>

DeleteTarget(t) ==
  /\ touched < MaxTouch /\ touched' = touched + 1
  /\ stc[t].state = "present"
  /\ stc' = [stc EXCEPT ![t].state = "deleting"]
  /\ OutdateTarget(t)
  /\ UNCHANGED <<dep, insts, listed, queue, pc, cur, copy, fresh, name, target,
                 refs, nameFresh, ipc, inst, instFresh, irefs, direct, faults,
                 user>>

\* The controller of ServiceTargetConfigs removes the finalizer, whatever the
\* list says ("TODO: handle delete").
RemoveTargetFinalizer(t) ==
  /\ stc[t].state = "deleting"
  /\ stc' = [stc EXCEPT ![t].state = "gone"]
  /\ listed' = [listed EXCEPT ![t] = {}]
  /\ OutdateTarget(t)
  /\ UNCHANGED <<dep, insts, queue, pc, cur, copy, fresh, name, target, refs,
                 nameFresh, ipc, inst, instFresh, irefs, direct, faults, user,
                 touched>>

-----------------------------------------------------------------------------
(***************************************************************************)
(* The specification.                                                      *)
(***************************************************************************)

DeploymentController ==
  \/ \E d \in Deployments : StartReconcile(d)
  \/ LookupInStatus \/ LookupFindsNothing \/ LookupFails
  \/ FindInstance \/ EnsureFails \/ GetInstance \/ GetInstanceFails
  \/ GetTarget \/ GetTargetFails \/ NothingToAppend \/ InstanceNotFound
  \/ \E n \in Names : LookupOnCluster(n)
  \/ \E t \in Targets : Schedule(t)
  \/ \E o \in Outcomes :
       \/ AddFinalizer(o) \/ HandleError(o) \/ Adopt(o) \/ UpdateInstance(o)
       \/ UpdateStatus(o) \/ Append(o) \/ DeleteInstance(o) \/ ClearRef(o)
       \/ RemoveFinalizer(o)
       \/ \E n \in Names : CreateInstance(n, o)

ReconcileInstance(n) == AddInstanceFinalizer(n) \/ StartInstanceDeletion(n)

InstanceController ==
  \/ \E n \in Names : ReconcileInstance(n)
  \/ ReadList \/ ReadListFails
  \/ \E o \in Outcomes : Release(o) \/ RemoveInstanceFinalizer(o)

Users ==
  \/ \E d \in Deployments :
       CreateDeployment(d) \/ UpdateDeployment(d) \/ DeleteDeployment(d)
  \/ \E n \in Names : DeleteInstanceDirectly(n)
  \/ \E t \in Targets : WriteTarget(t) \/ DeleteTarget(t)

Next ==
  \/ DeploymentController \/ InstanceController \/ Restart \/ Users
  \/ \E t \in Targets : RemoveTargetFinalizer(t)

Spec == Init /\ [][Next]_vars

\* Every worker goes on, and its queue hands out every queued key.
Fairness ==
  /\ WF_vars(DeploymentController) /\ WF_vars(InstanceController)
  /\ \A d \in Deployments : SF_vars(StartReconcile(d))
  /\ \A n \in Names : SF_vars(ReconcileInstance(n))

FairSpec == Spec /\ Fairness

-----------------------------------------------------------------------------
(***************************************************************************)
(* Properties.                                                             *)
(***************************************************************************)

\* Every variable has its type.
TypeOK ==
  /\ dep \in [Deployments -> DeploymentState]
  /\ insts \in [Names -> InstanceState]
  /\ stc \in [Targets -> TargetState]
  /\ listed \in [Targets -> SUBSET Names]
  /\ queue \subseteq Deployments
  /\ pc \in Steps /\ cur \in Deployments \cup {None}
  /\ copy \in DeploymentState /\ fresh \in BOOLEAN
  /\ name \in Names \cup {Nil} /\ target \in Targets \cup {None}
  /\ refs \subseteq Names /\ refsFresh \in BOOLEAN /\ nameFresh \in BOOLEAN
  /\ ipc \in {"idle", "getTarget", "release", "unfinalize"}
  /\ inst \in Names \cup {Nil} /\ instFresh \in BOOLEAN
  /\ irefs \subseteq Names /\ irefsFresh \in BOOLEAN
  /\ direct \subseteq Names /\ faults \in 0 .. MaxFaults
  /\ user \in 0 .. MaxUser /\ touched \in 0 .. MaxTouch

\* A deployment never has two Instances, although the name of a created one may
\* be lost with the answer, a conflict or the process (getInstanceRef).
OneInstance ==
  \A m, n \in Names :
    Live(m) /\ Live(n) /\ insts[m].owner = insts[n].owner => m = n

\* An Instance never outlives its deployment (handleDelete keeps the finalizer
\* until the Instance is gone, also if its reference was never stored).
NoOrphan ==
  \A d \in Deployments : dep[d].state \in {"new", "gone"} => Owned(d) = {}

\* An Instance missing in the list of its ServiceTargetConfig is work that the
\* controller still has: no failure, conflict or restart makes it forget.
NotForgotten ==
  \A n \in Names :
    /\ insts[n].state = "present"
    /\ stc[insts[n].target].state # "gone" /\ n \notin listed[insts[n].target]
    => insts[n].owner \in queue \cup {cur}

\* The list names only Instances that use the ServiceTargetConfig, as
\* docs/usage/ServiceTargetConfigs.md:86 has it.  Violated: an Instance that is
\* deleted before its controller has added the finalizer is gone at once, and
\* nothing removes its entry.
ListedAreUsers ==
  \A t \in Targets : \A n \in listed[t] : Live(n) /\ insts[n].target = t

\* An Instance with a finalizer has left the list when it goes, although the
\* deployment controller adds it in between, unless somebody has deleted this
\* Instance, or an earlier one of its name, directly.
ReleasedFirst ==
  [][\A n \in Names :
       n \notin direct /\ insts[n].finalizer /\ insts'[n].state = "gone" =>
         \A t \in Targets : n \notin listed'[t]]_vars

\* An entry leaves the list of a ServiceTargetConfig only for the deletion of
\* its own Instance, never because two controllers update the list at the same
\* time, or with the ServiceTargetConfig.
NoLostEntry ==
  [][\A t \in Targets : \A n \in listed[t] \ listed'[t] :
       stc'[t].state # "gone" => insts[n].state # "present"]_vars

\* As long as it lives an Instance stays on its ServiceTargetConfig and with its
\* deployment, however labels, lists and specs change.
TargetFixed ==
  [][\A n \in Names :
       Live(n) /\ insts'[n].state \in {"present", "deleting"} =>
         insts'[n].target = insts[n].target /\ insts'[n].owner = insts[n].owner]_vars

\* What the life of the Instance n is here, as module InstanceLifecycle has it:
\* its objects are not seen.
Lifecycle(n) == INSTANCE InstanceLifecycle WITH
  Objects <- {"installation"},
  Installation <- "installation",
  needs <- {},
  held <- {},
  state <- IF Live(n) THEN insts[n].state ELSE "absent",
  finalizer <- insts[n].finalizer,
  listed <- \E t \in Targets : t = insts[n].target /\ n \in listed[t],
  released <- ipc = "unfinalize" /\ inst = n,
  target <- \E t \in Targets : t = insts[n].target /\ stc[t].state # "gone"

\* Each Instance lives as module InstanceLifecycle has it, between two workers
\* and the users: so this module takes the Instance controller to do what
\* module Instances shows of it.
KeepsLifecycle ==
  /\ \A n \in Names : Lifecycle(n)!Init
  /\ [][\A n \in Names : [Lifecycle(n)!Next]_(Lifecycle(n)!vars)]_vars

\* A deployment that is deleted goes, as long as no ServiceTargetConfig does:
\* its own finalizer waits for the Instance, and that for its entry.
DeletionCompletes ==
  \A d \in Deployments :
    [](\A t \in Targets : stc[t].state # "gone") =>
      (dep[d].state = "deleting" ~> dep[d].state = "gone")

\* The last spec of a deployment that stays reaches a listed Instance, if there
\* is always a ServiceTargetConfig for it, whatever conflicts, failures and
\* restarts, and also if somebody deletes the Instance.
SpecArrives ==
  \A d \in Deployments :
    [](Visible # {} /\ \A t \in Targets : stc[t].state # "gone")
      /\ <>[](dep[d].state = "present")
    => <>[](\E n \in Owned(d) : /\ insts[n].spec = dep[d].spec
                               /\ n \in listed[insts[n].target])
=============================================================================
