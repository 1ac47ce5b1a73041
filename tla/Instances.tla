------------------------------ MODULE Instances ------------------------------
(***************************************************************************)
(* The Instance controller (pkg/controllers/instances) working on one      *)
(* Instance resource of the core cluster.                                  *)
(*                                                                         *)
(* The controller is stateless: a reconcile reads the Instance, then makes *)
(* one API call after the other, carrying a copy of the Instance whose     *)
(* status it fills and writes back.  Every API call is one action here,    *)
(* so other writers, failed calls and a restart of the process may come    *)
(* between any two of them.  The calls create the objects an Instance      *)
(* needs (Context, Targets, Installation, each with a generated name that  *)
(* is known only from the status reference written afterwards) and, when   *)
(* the Instance is deleted, take them down again in the reverse order.     *)
(*                                                                         *)
(* The API server refuses a write made with an outdated resource version.  *)
(* "fresh" says whether the controller's copy still has the version of the *)
(* stored Instance; every other writer makes it FALSE.                     *)
(***************************************************************************)
EXTENDS Integers

CONSTANTS
  MaxNames,   \* bound: generated names of one kind of object
  Shoots,     \* the shoot names the controller may draw
  NoShoot,    \* status.shootName is empty
  MaxSpec,    \* bound: generations of the Instance spec
  MaxFaults,  \* bound: failed calls and restarts of the controller
  MaxMeddle   \* bound: owned objects deleted by hand

ASSUME NamesAssumption == MaxNames \in Nat \ {0}
ASSUME ShootsAssumption == Shoots # {} /\ NoShoot \notin Shoots
ASSUME BoundsAssumption ==
  MaxSpec \in Nat \ {0} /\ MaxFaults \in Nat /\ MaxMeddle \in Nat

VARIABLES
  inst,     \* the Instance as stored by the API server
  mem,      \* the controller's copy of it
  fresh,    \* the copy's resource version is the stored one
  pc,       \* the call the controller makes next
  cur,      \* the kind of object that call is about
  queue,    \* the work queue holds a request for the Instance
  objs,     \* the state of every owned object, by kind and name
  install,  \* the contents of every Installation, by name
  ns,       \* the namespace of the instance on the target cluster
  listed,   \* the ServiceTargetConfig's status lists the Instance
  faults,   \* failed calls and restarts so far
  meddle    \* objects deleted by hand so far

ctrlVars == <<mem, fresh, pc, cur>>
clusterVars == <<objs, install, ns, listed>>
vars == <<inst, mem, fresh, pc, cur, queue, objs, install, ns, listed,
          faults, meddle>>

-----------------------------------------------------------------------------
(***************************************************************************)
(* Data.                                                                   *)
(***************************************************************************)

ImportKinds == {"context", "gsa", "dataplane", "target"}
Kinds == ImportKinds \cup {"installation"}

Names == 1 .. MaxNames
Nil == 0          \* a nil ObjectReference
EmptyName == -1   \* an ObjectReference with an empty name
Refs == Names \cup {Nil, EmptyName}

\* ref # nil && !ref.IsEmpty()
IsSet(r) == r \in Names

DataPlanes == {"internal", "external"}

InstanceState ==
  [state: {"present", "deleting", "gone"}, finalizer: BOOLEAN,
   ignore: BOOLEAN, dataPlane: DataPlanes, spec: 1 .. MaxSpec,
   observed: 0 .. MaxSpec, ref: [Kinds -> Refs], shoot: Shoots \cup {NoShoot}]

ObjectState == {"unused", "present", "deleting", "gone"}

InstallationState ==
  [spec: 0 .. MaxSpec, deployed: 0 .. MaxSpec, annotated: BOOLEAN,
   shoot: Shoots \cup {NoShoot}, imports: [ImportKinds -> Refs]]

Steps == {"idle", "observe", "finalizer", "ensure", "ref", "emptyRef",
          "nameShoot", "persistShoot", "error", "remove", "clear",
          "namespace", "release", "unfinalize"}

NewInstance(dataPlane) ==
  [state |-> "present", finalizer |-> FALSE, ignore |-> FALSE,
   dataPlane |-> dataPlane, spec |-> 1, observed |-> 0,
   ref |-> [k \in Kinds |-> Nil], shoot |-> NoShoot]

NoInstallation ==
  [spec |-> 0, deployed |-> 0, annotated |-> FALSE, shoot |-> NoShoot,
   imports |-> [k \in ImportKinds |-> Nil]]

\* The copy of a controller that is not in a reconcile.
NoCopy == NewInstance("internal")

\* The kinds an Installation imports, by the data plane of its Instance.
Needed(dataPlane) ==
  {"context", "target", IF dataPlane = "internal" THEN "gsa" ELSE "dataplane"}

Init ==
  /\ inst \in {NewInstance(d) : d \in DataPlanes}
  /\ mem = NoCopy /\ fresh = FALSE /\ pc = "idle" /\ cur = "context"
  /\ queue = TRUE
  /\ objs = [k \in Kinds |-> [n \in Names |-> "unused"]]
  /\ install = [n \in Names |-> NoInstallation]
  /\ ns = "absent" /\ listed = FALSE
  /\ faults = 0 /\ meddle = 0

-----------------------------------------------------------------------------
(***************************************************************************)
(* The outcome of an API call: it succeeds, it fails without effect, or it *)
(* takes effect but the answer is lost and the caller sees an error.       *)
(***************************************************************************)
Outcomes == {"ok", "fail", "lost"}

Outcome(o) ==
  IF o = "ok" THEN UNCHANGED faults
  ELSE faults < MaxFaults /\ faults' = faults + 1

\* Client().Status().Update(instance): stores the status of the copy, unless
\* the copy is outdated (a conflict) or the call fails.
StoreStatus(o) ==
  inst' = IF fresh /\ o # "fail"
          THEN [inst EXCEPT !.ref = mem.ref, !.shoot = mem.shoot,
                            !.observed = mem.observed]
          ELSE inst

Stored(o) == fresh /\ o = "ok"

Goto(step, kind) == pc' = step /\ cur' = kind

\* The end of a reconcile; the copy is dropped.
Finish == Goto("idle", "context") /\ mem' = NoCopy /\ fresh' = FALSE

\* A call inside a reconcile returned an error: handleErrorFunc runs next.
Fail == Goto("error", cur)

-----------------------------------------------------------------------------
(***************************************************************************)
(* Reconcile: reading the Instance and choosing what to do.                *)
(***************************************************************************)

\* What follows the update of the observed generation, for the copy m.
Dispatch(m) ==
  \/ /\ m.state = "present" /\ ~m.finalizer
     /\ Goto("finalizer", "context") /\ mem' = m /\ fresh' = TRUE
  \/ /\ m.state = "deleting"
     /\ Goto("remove", "installation") /\ mem' = m /\ fresh' = TRUE
  \/ /\ m.state = "present" /\ m.finalizer /\ ~m.ignore
     /\ Goto("ensure", "context") /\ mem' = m /\ fresh' = TRUE
  \/ /\ m.state = "present" /\ m.finalizer /\ m.ignore
     /\ Finish

\* The worker takes the request and gets the Instance.
StartReconcile ==
  /\ pc = "idle" /\ queue
  /\ queue' = FALSE
  /\ \/ /\ inst.state = "gone"
        /\ UNCHANGED ctrlVars
     \/ /\ inst.state # "gone" /\ inst.observed < inst.spec
        /\ Goto("observe", "context")
        /\ mem' = [inst EXCEPT !.observed = inst.spec]
        /\ fresh' = TRUE
     \/ /\ inst.state # "gone" /\ inst.observed >= inst.spec
        /\ Dispatch(inst)
  /\ UNCHANGED <<inst, clusterVars, faults, meddle>>

\* status.observedGeneration is written first; an error ends the reconcile
\* without handleErrorFunc.
Observe(o) ==
  /\ pc = "observe"
  /\ Outcome(o)
  /\ StoreStatus(o)
  /\ queue' = TRUE
  /\ IF Stored(o) THEN Dispatch(mem) ELSE Finish
  /\ UNCHANGED <<clusterVars, meddle>>

\* Faulty: the reconcile goes on, whether the finalizer could be added or not.
AddFinalizer_GoesOn(o) ==
  /\ pc = "finalizer"
  /\ Outcome(o)
  /\ inst' = IF fresh /\ o # "fail" THEN [inst EXCEPT !.finalizer = TRUE]
                                    ELSE inst
  /\ Goto("ensure", "context")
  /\ UNCHANGED <<mem, fresh, queue, clusterVars, meddle>>

\* The finalizer is added by a reconcile of its own.
AddFinalizer(o) ==
  /\ pc = "finalizer"
  /\ Outcome(o)
  /\ inst' = IF fresh /\ o # "fail" THEN [inst EXCEPT !.finalizer = TRUE]
                                    ELSE inst
  /\ queue' = TRUE
  /\ Finish
  /\ UNCHANGED <<clusterVars, meddle>>

\* handleErrorFunc after an error: the status of the copy, with every
\* reference put into it so far, is written together with the error.  Whatever
\* comes of that, the request is queued again.
HandleError(o) ==
  /\ pc = "error"
  /\ Outcome(o)
  /\ StoreStatus(o)
  /\ queue' = TRUE
  /\ Finish
  /\ UNCHANGED <<clusterVars, meddle>>

-----------------------------------------------------------------------------
(***************************************************************************)
(* Reconcile: creating and updating the owned objects.  For each kind,     *)
(* CreateOrUpdate is followed by a status update when the reference is new.*)
(***************************************************************************)

\* What follows the object of kind k: Context, then one of the two Targets
\* that depend on the data plane, then the Target, the name of the shoot of an
\* internal data plane, and the Installation.
GotoAfter(k) ==
  CASE k = "context" -> Goto("ensure", IF mem.dataPlane = "internal"
                                       THEN "gsa" ELSE "dataplane")
    [] k \in {"gsa", "dataplane"} -> Goto("ensure", "target")
    [] k = "target" -> IF mem.dataPlane = "internal"
                       THEN Goto("nameShoot", "installation")
                       ELSE Goto("ensure", "installation")

\* The API server completes generateName with a name not given before.
Unused(k) == {n \in Names : objs[k][n] = "unused"}
GeneratedName(k, n) == n \in Unused(k) /\ \A m \in Unused(k) : n <= m

Imports(kinds) ==
  [k \in ImportKinds |-> IF k \in kinds THEN mem.ref[k] ELSE Nil]

\* mutateInstallation: the spec for an internal data plane, whose cluster is
\* ordered under the name of the shoot.
SpecInternal(i) ==
  [i EXCEPT !.spec = mem.spec, !.shoot = mem.shoot,
            !.imports = Imports(Needed("internal"))]

\* mutateInstallationExternalDataPlane: the spec for an external data plane.
SpecExternal(i) ==
  [i EXCEPT !.spec = mem.spec, !.imports = Imports(Needed("external"))]

SpecFor(i) ==
  IF mem.dataPlane = "internal" THEN SpecInternal(i) ELSE SpecExternal(i)

\* Faulty: the reconcile annotation is set on creation only.
Mutated_OnlyWhenNew(i) == [SpecFor(i) EXCEPT !.annotated = @ \/ i.spec = 0]

\* The reconcile annotation is set when the spec differs from the old one
\* (InstallationSpecDeepEquals).
Mutated(i) == [SpecFor(i) EXCEPT !.annotated = @ \/ SpecFor(i) # i]

\* CreateOrUpdate of the object n of kind k takes effect.
Apply(k, n) ==
  /\ objs' = IF objs[k][n] \in {"unused", "gone"}
             THEN [objs EXCEPT ![k][n] = "present"] ELSE objs
  /\ install' = IF k = "installation"
                THEN [install EXCEPT ![n] = Mutated(@)] ELSE install

\* The object CreateOrUpdate works on: the referenced one, or else a new one.
\* A referenced Installation must exist; the other kinds are created again
\* under their old name.
ObjectFor(k, n) ==
  IF IsSet(mem.ref[k])
  THEN n = mem.ref[k] /\ (k = "installation" => objs[k][n] # "gone")
  ELSE GeneratedName(k, n)

Ensure(k, n) ==
  /\ pc = "ensure" /\ cur = k
  /\ ObjectFor(k, n)
  /\ Apply(k, n)
  /\ mem' = [mem EXCEPT !.ref[k] = n]
  /\ IF mem.ref[k] = n /\ k # "installation" THEN GotoAfter(k)
                                             ELSE Goto("ref", k)
  /\ UNCHANGED <<inst, fresh, queue, ns, listed, faults, meddle>>

\* CreateOrUpdate returns an error.  The two Targets that depend on the data
\* plane get an empty reference if they have none: the error is only looked at
\* after the reference was written.
EnsureFails(k, o) ==
  /\ pc = "ensure" /\ cur = k
  /\ \/ Outcome(o) /\ o # "ok"
     \/ /\ k = "installation" /\ IsSet(mem.ref[k])
        /\ objs[k][mem.ref[k]] = "gone"
        /\ o = "fail" /\ UNCHANGED faults
  /\ IF o = "lost" THEN \E n \in Names : ObjectFor(k, n) /\ Apply(k, n)
                   ELSE UNCHANGED <<objs, install>>
  /\ IF k \in {"gsa", "dataplane"} /\ mem.ref[k] = Nil
     THEN mem' = [mem EXCEPT !.ref[k] = EmptyName] /\ Goto("emptyRef", k)
     ELSE Fail /\ UNCHANGED mem
  /\ UNCHANGED <<inst, fresh, queue, ns, listed, meddle>>

\* The reference of the object is written into the status.  For the
\* Installation this comes with its exports and phase, and ends the reconcile.
StoreRef(o) ==
  /\ pc = "ref"
  /\ Outcome(o)
  /\ StoreStatus(o)
  /\ queue' = (queue \/ inst' # inst)
  /\ IF ~Stored(o)
     THEN Fail /\ fresh' = (fresh /\ o = "fail") /\ UNCHANGED mem
     ELSE IF cur = "installation" THEN Finish
          ELSE GotoAfter(cur) /\ UNCHANGED <<fresh, mem>>
  /\ UNCHANGED <<clusterVars, meddle>>

\* Faulty: the error of CreateOrUpdate is forgotten.
StoreEmptyRef_GoesOn(o) ==
  /\ pc = "emptyRef"
  /\ Outcome(o)
  /\ StoreStatus(o)
  /\ queue' = (queue \/ inst' # inst)
  /\ fresh' = (fresh /\ o # "lost")
  /\ IF Stored(o) THEN GotoAfter(cur) ELSE Fail
  /\ UNCHANGED <<mem, clusterVars, meddle>>

\* The same for an empty reference, after which the error is returned.
StoreEmptyRef(o) ==
  /\ pc = "emptyRef"
  /\ Outcome(o)
  /\ StoreStatus(o)
  /\ queue' = (queue \/ inst' # inst)
  /\ Fail /\ fresh' = (fresh /\ o # "lost")
  /\ UNCHANGED <<mem, clusterVars, meddle>>

\* Faulty: the drawn name is not persisted before it is used.
NameShoot_Unpersisted(s) ==
  /\ pc = "nameShoot"
  /\ mem' = IF mem.shoot = NoShoot THEN [mem EXCEPT !.shoot = s] ELSE mem
  /\ Goto("ensure", cur)
  /\ UNCHANGED <<inst, fresh, queue, clusterVars, faults, meddle>>

\* handleShootName: a name is drawn once, among those no shoot has.
NameShoot(s) ==
  /\ pc = "nameShoot"
  /\ IF mem.shoot = NoShoot
     THEN /\ mem' = [mem EXCEPT !.shoot = s]
          /\ Goto("persistShoot", cur)
     ELSE Goto("ensure", cur) /\ UNCHANGED mem
  /\ UNCHANGED <<inst, fresh, queue, clusterVars, faults, meddle>>

NameShootFails ==
  /\ pc = "nameShoot" /\ mem.shoot = NoShoot
  /\ Outcome("fail")
  /\ Fail
  /\ UNCHANGED <<inst, mem, fresh, queue, clusterVars, meddle>>

\* The shoot name is written before the Installation that uses it exists.
PersistShoot(o) ==
  /\ pc = "persistShoot"
  /\ Outcome(o)
  /\ StoreStatus(o)
  /\ queue' = (queue \/ inst' # inst)
  /\ IF Stored(o) THEN Goto("ensure", cur) /\ UNCHANGED fresh
                  ELSE Fail /\ fresh' = (fresh /\ o = "fail")
  /\ UNCHANGED <<mem, clusterVars, meddle>>

\* Neither the reference nor the phase nor an export of the Installation has
\* changed: no status update is made.
NothingToStore ==
  /\ pc = "ref" /\ cur = "installation" /\ mem.ref = inst.ref
  /\ Finish
  /\ UNCHANGED <<inst, queue, clusterVars, faults, meddle>>

-----------------------------------------------------------------------------
(***************************************************************************)
(* Reconcile of a deleted Instance: handleDelete.  Every object is deleted *)
(* and waited for before the next one is touched; the wait is the end of   *)
(* the reconcile, an event of the object starts the next one.              *)
(***************************************************************************)

\* Faulty: the namespace on the target cluster is forgotten.
GotoAfterRemoval_NoNamespace(k) ==
  CASE k = "installation" -> Goto("remove", "target")
    [] k = "target"       -> Goto("remove", "context")
    [] k = "context"      -> Goto("remove", "gsa")
    [] k = "gsa"          -> Goto("remove", "dataplane")
    [] k = "dataplane"    -> Goto("release", k)

GotoAfterRemoval(k) ==
  CASE k = "installation" -> Goto("namespace", k)
    [] k = "target"       -> Goto("remove", "context")
    [] k = "context"      -> Goto("remove", "gsa")
    [] k = "gsa"          -> Goto("remove", "dataplane")
    [] k = "dataplane"    -> Goto("release", k)

\* No reference, nothing to delete.
SkipRemove ==
  /\ pc = "remove" /\ ~IsSet(mem.ref[cur])
  /\ GotoAfterRemoval(cur)
  /\ UNCHANGED <<inst, mem, fresh, queue, clusterVars, faults, meddle>>

\* Faulty: a deleted object is not waited for.
Remove_Unwaiting(k, o) ==
  /\ pc = "remove" /\ cur = k /\ IsSet(mem.ref[k])
  /\ objs[k][mem.ref[k]] # "gone"
  /\ Outcome(o)
  /\ objs' = IF o = "fail" THEN objs
                           ELSE [objs EXCEPT ![k][mem.ref[k]] = "deleting"]
  /\ IF o = "ok" THEN GotoAfterRemoval(k) ELSE Fail
  /\ UNCHANGED <<inst, mem, fresh, queue, install, ns, listed, meddle>>

\* ensureDelete...ForInstance finds the object and deletes it, unless that was
\* done before; the reconcile ends.
Remove(k, o) ==
  /\ pc = "remove" /\ cur = k /\ IsSet(mem.ref[k])
  /\ objs[k][mem.ref[k]] # "gone"
  /\ Outcome(o)
  /\ objs' = IF o = "fail" THEN objs
                           ELSE [objs EXCEPT ![k][mem.ref[k]] = "deleting"]
  /\ IF o = "ok" THEN Finish ELSE Fail /\ UNCHANGED <<mem, fresh>>
  /\ UNCHANGED <<inst, queue, install, ns, listed, meddle>>

\* Faulty: the reference is cleared without looking whether the object is gone.
RemoveNotFound_Unchecked(k) ==
  /\ pc = "remove" /\ cur = k /\ IsSet(mem.ref[k])
  /\ mem' = [mem EXCEPT !.ref[k] = Nil]
  /\ Goto("clear", k)
  /\ UNCHANGED <<inst, fresh, queue, clusterVars, faults, meddle>>

\* The Get of ensureDelete...ForInstance answers NotFound.
RemoveNotFound(k) ==
  /\ pc = "remove" /\ cur = k /\ IsSet(mem.ref[k])
  /\ objs[k][mem.ref[k]] = "gone"
  /\ mem' = [mem EXCEPT !.ref[k] = Nil]
  /\ Goto("clear", k)
  /\ UNCHANGED <<inst, fresh, queue, clusterVars, faults, meddle>>

ClearRef(o) ==
  /\ pc = "clear"
  /\ Outcome(o)
  /\ StoreStatus(o)
  /\ queue' = (queue \/ inst' # inst)
  /\ IF Stored(o) THEN GotoAfterRemoval(cur) /\ UNCHANGED fresh
                  ELSE Fail /\ fresh' = (fresh /\ o = "fail")
  /\ UNCHANGED <<mem, clusterVars, meddle>>

\* Faulty: the namespace is deleted but not waited for.
RemoveNamespace_Unwaiting(o) ==
  /\ pc = "namespace"
  /\ Outcome(o)
  /\ ns' = IF ns = "present" /\ o # "fail" THEN "deleting" ELSE ns
  /\ IF o = "ok" THEN Goto("remove", "target") ELSE Fail
  /\ UNCHANGED <<inst, mem, fresh, queue, objs, install, listed, meddle>>

\* Faulty: the wait relies on an event that no other cluster will send.
RemoveNamespace_NoRequeue(o) ==
  /\ pc = "namespace"
  /\ Outcome(o)
  /\ ns' = IF ns = "present" /\ o # "fail" THEN "deleting" ELSE ns
  /\ IF o # "ok" THEN Fail /\ UNCHANGED <<mem, fresh, queue>>
     ELSE IF ns = "absent"
          THEN Goto("remove", "target") /\ UNCHANGED <<mem, fresh, queue>>
          ELSE Finish /\ UNCHANGED queue
  /\ UNCHANGED <<inst, objs, install, listed, meddle>>

\* ensureDeleteTargetClusterNamespace: the namespace is on another cluster, so
\* no event will come; while it exists the Instance is queued again.
RemoveNamespace(o) ==
  /\ pc = "namespace"
  /\ Outcome(o)
  /\ ns' = IF ns = "present" /\ o # "fail" THEN "deleting" ELSE ns
  /\ IF o # "ok" THEN Fail /\ UNCHANGED <<mem, fresh, queue>>
     ELSE IF ns = "absent"
          THEN Goto("remove", "target") /\ UNCHANGED <<mem, fresh, queue>>
          ELSE Finish /\ queue' = TRUE
  /\ UNCHANGED <<inst, objs, install, listed, meddle>>

\* The Instance is taken out of the ServiceTargetConfig's status.
Release(o) ==
  /\ pc = "release"
  /\ Outcome(o)
  /\ listed' = (listed /\ o = "fail")
  /\ IF o = "ok" THEN Goto("unfinalize", cur) ELSE Fail
  /\ UNCHANGED <<inst, mem, fresh, queue, objs, install, ns, meddle>>

\* The finalizer is removed, and with it the Instance.
RemoveFinalizer(o) ==
  /\ pc = "unfinalize"
  /\ Outcome(o)
  /\ inst' = IF fresh /\ o # "fail"
             THEN [inst EXCEPT !.finalizer = FALSE, !.state = "gone"]
             ELSE inst
  /\ IF Stored(o) THEN Finish /\ queue' = TRUE
     ELSE Fail /\ fresh' = (fresh /\ o = "fail") /\ UNCHANGED <<mem, queue>>
  /\ UNCHANGED <<clusterVars, meddle>>

-----------------------------------------------------------------------------
(***************************************************************************)
(* The surroundings of the controller.                                     *)
(***************************************************************************)

\* The process is restarted: its memory is lost, and on start every Instance
\* is queued.
Restart ==
  /\ pc # "idle"
  /\ faults < MaxFaults /\ faults' = faults + 1
  /\ Finish
  /\ queue' = TRUE
  /\ UNCHANGED <<inst, clusterVars, meddle>>

\* Without an error or a deletion an Instance is reconciled again after some
\* time (computeAutomaticReconcile).
AutomaticReconcile ==
  /\ pc = "idle" /\ ~queue /\ inst.state = "present"
  /\ queue' = TRUE
  /\ UNCHANGED <<inst, ctrlVars, clusterVars, faults, meddle>>

\* The LandscaperDeployment controller writes a changed spec, or sets or
\* removes the ignore annotation, also if a user is deleting the Instance.
UpdateInstance ==
  /\ inst.state # "gone" /\ inst.spec < MaxSpec
  /\ \E ignore \in BOOLEAN :
       inst' = [inst EXCEPT !.spec = @ + 1, !.ignore = ignore]
  /\ fresh' = FALSE /\ queue' = TRUE
  /\ UNCHANGED <<mem, pc, cur, clusterVars, faults, meddle>>

\* The LandscaperDeployment controller appends the Instance to the
\* ServiceTargetConfig's status, some time after it has last read the Instance.
ListInstance ==
  /\ ~listed /\ listed' = TRUE
  /\ UNCHANGED <<inst, ctrlVars, queue, objs, install, ns, faults, meddle>>

\* The LandscaperDeployment controller, or a user, deletes the Instance.
DeleteInstance ==
  /\ inst.state = "present"
  /\ inst' = [inst EXCEPT !.state = IF inst.finalizer THEN "deleting"
                                                      ELSE "gone"]
  /\ fresh' = FALSE /\ queue' = TRUE
  /\ UNCHANGED <<mem, pc, cur, clusterVars, faults, meddle>>

\* Somebody deletes an owned object by hand.
DeleteByHand(k, n) ==
  /\ meddle < MaxMeddle /\ meddle' = meddle + 1
  /\ objs[k][n] = "present"
  /\ objs' = [objs EXCEPT ![k][n] = "deleting"]
  /\ queue' = TRUE
  /\ UNCHANGED <<inst, ctrlVars, install, ns, listed, faults>>

\* The objects an Installation imports are there.
ImportsPresent(n) ==
  \A k \in ImportKinds :
    IsSet(install[n].imports[k]) =>
      objs[k][install[n].imports[k]] = "present"

\* The central Landscaper handles the reconcile annotation of an Installation
\* and deploys into the namespace on the target cluster.
Deploy(n) ==
  /\ objs["installation"][n] = "present" /\ install[n].annotated
  /\ ImportsPresent(n) /\ ns # "deleting"
  /\ install' = [install EXCEPT ![n].annotated = FALSE,
                                ![n].deployed = install[n].spec]
  /\ ns' = "present"
  /\ queue' = TRUE
  /\ UNCHANGED <<inst, ctrlVars, objs, listed, faults, meddle>>

\* It uninstalls a deleted Installation with the help of the same objects.
Uninstall(n) ==
  /\ objs["installation"][n] = "deleting"
  /\ ImportsPresent(n)
  /\ objs' = [objs EXCEPT !["installation"][n] = "gone"]
  /\ queue' = TRUE
  /\ UNCHANGED <<inst, ctrlVars, install, ns, listed, faults, meddle>>

\* The API server removes a deleted Context or Target.
Vanish(k, n) ==
  /\ objs[k][n] = "deleting"
  /\ objs' = [objs EXCEPT ![k][n] = "gone"]
  /\ queue' = TRUE
  /\ UNCHANGED <<inst, ctrlVars, install, ns, listed, faults, meddle>>

NamespaceVanishes ==
  /\ ns = "deleting" /\ ns' = "absent"
  /\ UNCHANGED <<inst, ctrlVars, queue, objs, install, listed, faults, meddle>>

\* The garbage collector deletes what a removed Instance still owns.
CollectGarbage(k, n) ==
  /\ inst.state = "gone" /\ objs[k][n] = "present"
  /\ objs' = [objs EXCEPT ![k][n] = "deleting"]
  /\ UNCHANGED <<inst, ctrlVars, queue, install, ns, listed, faults, meddle>>

-----------------------------------------------------------------------------
(***************************************************************************)
(* The specification.                                                      *)
(***************************************************************************)

\* The calls of a reconcile.
Reconcile ==
  \/ StartReconcile
  \/ \E o \in Outcomes :
       \/ Observe(o) \/ AddFinalizer(o) \/ HandleError(o)
       \/ StoreRef(o) \/ StoreEmptyRef(o) \/ PersistShoot(o)
       \/ ClearRef(o) \/ RemoveNamespace(o) \/ Release(o) \/ RemoveFinalizer(o)
  \/ \E k \in Kinds :
       \/ \E n \in Names : Ensure(k, n)
       \/ \E o \in Outcomes : EnsureFails(k, o) \/ Remove(k, o)
       \/ RemoveNotFound(k)
  \/ \E s \in Shoots : NameShoot(s)
  \/ NameShootFails \/ NothingToStore \/ SkipRemove

Landscaper == \E n \in Names : Deploy(n) \/ Uninstall(n)

ApiServer ==
  \/ NamespaceVanishes
  \/ \E k \in ImportKinds, n \in Names : Vanish(k, n)
  \/ \E k \in Kinds, n \in Names : CollectGarbage(k, n)

Others ==
  \/ Restart \/ AutomaticReconcile
  \/ UpdateInstance \/ ListInstance \/ DeleteInstance
  \/ \E k \in Kinds, n \in Names : DeleteByHand(k, n)

Next == Reconcile \/ Landscaper \/ ApiServer \/ Others

Spec == Init /\ [][Next]_vars

\* The worker goes on while there is something to do, the Landscaper works on
\* every Installation, and the API server removes what is deleted.
Fairness ==
  /\ WF_vars(Reconcile)
  /\ \A n \in Names : WF_vars(Deploy(n)) /\ WF_vars(Uninstall(n))
  /\ \A k \in ImportKinds, n \in Names : WF_vars(Vanish(k, n))
  /\ WF_vars(NamespaceVanishes)

FairSpec == Spec /\ Fairness

-----------------------------------------------------------------------------
(***************************************************************************)
(* Properties.                                                             *)
(***************************************************************************)

\* Every variable has its type.
TypeOK ==
  /\ inst \in InstanceState /\ mem \in InstanceState
  /\ fresh \in BOOLEAN /\ pc \in Steps /\ cur \in Kinds /\ queue \in BOOLEAN
  /\ objs \in [Kinds -> [Names -> ObjectState]]
  /\ install \in [Names -> InstallationState]
  /\ ns \in {"absent", "present", "deleting"} /\ listed \in BOOLEAN
  /\ faults \in 0 .. MaxFaults /\ meddle \in 0 .. MaxMeddle

\* An Installation is never created with a reference still missing or empty,
\* whatever calls failed before (reconcileGardenerServiceAccountTarget and
\* reconcileExternalDataPlaneClusterTarget write an empty reference first and
\* look at the error afterwards).
ImportsComplete ==
  \A n \in Names :
    objs["installation"][n] # "unused" =>
      \A k \in Needed(inst.dataPlane) : IsSet(install[n].imports[k])

\* All Installations ever created for an Instance with an internal data plane,
\* also those whose reference was lost, name the same shoot, the one in the
\* Instance's status: a second cluster is never ordered (handleShootName, and
\* the status update that reconcileInstallation makes before it creates
\* anything).
OneShoot ==
  inst.dataPlane = "internal" =>
    \A n \in Names :
      objs["installation"][n] # "unused" =>
        install[n].shoot = inst.shoot /\ inst.shoot # NoShoot

\* As long as the referenced Installation is not gone, the Context and Targets
\* it needs, also for being uninstalled, are there, unless somebody deleted one
\* by hand (the order of handleDelete).
ImportsAlive ==
  meddle = 0 /\ IsSet(inst.ref["installation"]) /\ inst.state # "gone" =>
    LET n == inst.ref["installation"]
    IN  objs["installation"][n] # "gone" =>
          \A k \in Needed(inst.dataPlane) :
            /\ IsSet(install[n].imports[k])
            /\ objs[k][install[n].imports[k]] = "present"

\* A reference once written stays, through conflicts, lost answers and
\* restarts, until the object it names is gone (the status is written from a
\* copy; a reference dropped earlier would leave the object unattended).
RefStability ==
  [][\A k \in Kinds :
       IsSet(inst.ref[k]) /\ inst'.ref[k] # inst.ref[k] =>
         inst'.ref[k] = Nil /\ objs[k][inst.ref[k]] = "gone"]_vars

\* Every Installation ever created, also one whose reference was lost, is gone.
NoInstallationLeft ==
  \A n \in Names : objs["installation"][n] \in {"unused", "gone"}

\* The Instance leaves the ServiceTargetConfig's status, and so the load by
\* which deployments are scheduled, only when it references nothing any more
\* and its namespace on the target cluster is gone.  As for CleanExit, an
\* Installation left behind may have created the namespace again, and so may
\* one whose objects somebody deleted by hand (the order of handleDelete).
ReleasedLast ==
  [][listed /\ ~listed' =>
       /\ \A k \in Kinds : ~IsSet(inst.ref[k])
       /\ meddle = 0 /\ NoInstallationLeft => ns = "absent"]_vars

\* A deleted Instance leaves no namespace on the target cluster behind, unless
\* it also leaves an Installation behind that may have created it again, or
\* somebody deleted an object by hand (handleDelete).
CleanExit ==
  inst.state = "gone" /\ meddle = 0 /\ NoInstallationLeft => ns = "absent"

\* "For each Instance the landscaper service controller will create a Target
\* and an Installation" (docs/usage/Instances.md:11).
OneInstallation ==
  \A m, n \in Names :
    objs["installation"][m] # "unused" /\ objs["installation"][n] # "unused"
      => m = n

\* The deletion of an Instance completes, unless somebody deletes its objects
\* by hand, which may leave the Landscaper without the means to uninstall.
DeletionCompletes ==
  inst.state = "deleting" ~> inst.state = "gone" \/ meddle > 0

\* What is deployed is in the end what the spec of the Instance says, unless
\* the Instance was deleted or is to be ignored, or somebody deleted an object
\* by hand.
SpecDeployed ==
  <>[](\/ inst.state = "gone" \/ inst.ignore \/ meddle > 0
       \/ /\ IsSet(inst.ref["installation"])
          /\ install[inst.ref["installation"]].deployed = inst.spec)

\* What the life of the Instance is to others.
Lifecycle == INSTANCE InstanceLifecycle WITH
  Objects <- Kinds,
  Installation <- "installation",
  needs <- Needed(inst.dataPlane),
  state <- IF inst.state = "gone" THEN "absent" ELSE inst.state,
  finalizer <- inst.finalizer,
  held <- {k \in Kinds : IsSet(inst.ref[k])},
  released <- pc = "unfinalize",
  target <- TRUE

\* Each step is one of module InstanceLifecycle, or changes nothing that it
\* sees, also a failed call, a restart or a late write: so objects are only
\* referenced under the protection of the finalizer, and are given up in order.
KeepsLifecycle == Lifecycle!Spec

-----------------------------------------------------------------------------
(***************************************************************************)
(* The inductive invariant from which the safety properties follow.        *)
(***************************************************************************)

CreateSteps == {"ensure", "ref", "emptyRef", "nameShoot", "persistShoot"}
RemoveSteps == {"remove", "clear", "namespace", "release", "unfinalize"}

\* The objects that are referenced before the one of kind k is created, and
\* the ones no longer referenced when the one of kind k is removed.
Before(k) ==
  CASE k = "context" -> {}
    [] k \in {"gsa", "dataplane"} -> {"context"}
    [] k = "target" -> Needed(inst.dataPlane) \ {"target"}
    [] k = "installation" -> Needed(inst.dataPlane)

RemovedBefore(k) ==
  CASE k = "installation" -> {}
    [] k = "target" -> {"installation"}
    [] k = "context" -> {"installation", "target"}
    [] k = "gsa" -> {"installation", "target", "context"}
    [] k = "dataplane" -> {"installation", "target", "context", "gsa"}

\* The copy and the stored Instance.  Only this controller writes the status,
\* so a status that differs is one the reconcile is about to write; the rest
\* agrees as long as the copy is fresh.
CopyInv ==
  /\ fresh => pc # "idle" /\ mem.state = inst.state
  /\ pc # "idle" => mem.dataPlane = inst.dataPlane /\ mem.state # "gone"
  /\ mem.state = "deleting" => inst.state # "present"
  /\ pc \in CreateSteps => mem.state = "present"
  /\ pc \in RemoveSteps => mem.state = "deleting"
  /\ pc # "idle" =>
       \A k \in Kinds : mem.ref[k] # inst.ref[k] =>
         /\ k = cur /\ pc \in {"ref", "emptyRef", "clear", "error"}
         /\ \/ /\ IsSet(mem.ref[k]) /\ ~IsSet(inst.ref[k])
               /\ mem.state = "present"
            \/ /\ mem.ref[k] = EmptyName /\ ~IsSet(inst.ref[k])
            \/ /\ mem.ref[k] = Nil /\ IsSet(inst.ref[k])
               /\ objs[k][inst.ref[k]] = "gone" /\ pc # "ref"
  /\ pc # "idle" /\ mem.shoot # inst.shoot =>
       /\ pc \in {"persistShoot", "error"}
       /\ inst.shoot = NoShoot /\ inst.dataPlane = "internal"

\* What a creating reconcile has done when it reaches a step.
CreateInv ==
  pc \in CreateSteps =>
    /\ \A k \in Before(cur) : IsSet(mem.ref[k])
    /\ cur # (IF inst.dataPlane = "internal" THEN "dataplane" ELSE "gsa")
    /\ pc = "ref" => IsSet(mem.ref[cur])
    /\ pc = "emptyRef" => cur \in {"gsa", "dataplane"}
    /\ pc \in {"nameShoot", "persistShoot"} =>
         cur = "installation" /\ inst.dataPlane = "internal"
    /\ pc \in {"ensure", "ref", "persistShoot"} /\ cur = "installation"
         /\ inst.dataPlane = "internal" => mem.shoot # NoShoot

\* What a removing reconcile has done when it reaches a step.
RemoveInv ==
  pc \in RemoveSteps =>
    /\ \A k \in RemovedBefore(cur) : ~IsSet(mem.ref[k])
    /\ pc = "namespace" => cur = "installation" /\ ~IsSet(mem.ref[cur])
    /\ pc = "clear" => mem.ref[cur] = Nil
    /\ pc \in {"release", "unfinalize"} => \A k \in Kinds : ~IsSet(mem.ref[k])

\* References name objects that were created; the Installation imports the
\* referenced objects, and none of those is deleted before the deletion of the
\* Instance has passed the Installation.
StoredInv ==
  /\ \A k \in Kinds : IsSet(inst.ref[k]) => objs[k][inst.ref[k]] # "unused"
  /\ IsSet(inst.ref["installation"]) /\ inst.state # "gone" =>
       \A k \in Needed(inst.dataPlane) :
         /\ IsSet(inst.ref[k])
         /\ install[inst.ref["installation"]].imports[k] = inst.ref[k]
  /\ meddle = 0
       /\ (\/ inst.state = "present"
           \/ inst.state = "deleting" /\ IsSet(inst.ref["installation"])) =>
       \A k \in ImportKinds, n \in Names : objs[k][n] \in {"unused", "present"}

\* The same of the references in the copy.
PendingInv ==
  pc # "idle" =>
    /\ \A k \in Kinds : IsSet(mem.ref[k]) => objs[k][mem.ref[k]] # "unused"
    /\ IsSet(mem.ref["installation"]) =>
         \A k \in Needed(inst.dataPlane) :
           /\ IsSet(mem.ref[k])
           /\ install[mem.ref["installation"]].imports[k] = mem.ref[k]

IndInv ==
  /\ TypeOK
  /\ CopyInv
  /\ CreateInv
  /\ RemoveInv
  /\ StoredInv
  /\ PendingInv
  /\ ImportsComplete
  /\ OneShoot
=============================================================================
