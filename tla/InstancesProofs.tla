-------------------------- MODULE InstancesProofs --------------------------
(***************************************************************************)
(* Proofs about the Instance controller, for every value of the bounds.    *)
(***************************************************************************)
EXTENDS Instances, TLAPS

-----------------------------------------------------------------------------
(***************************************************************************)
(* Type correctness.                                                       *)
(***************************************************************************)

\* The names of objects are distinct from the two references to nothing.
LEMMA NamesAreRefs == Names \subseteq Refs /\ Nil \in Refs /\ EmptyName \in Refs
BY NamesAssumption DEF Names, Refs, Nil, EmptyName

LEMMA NilIsNotSet == ~IsSet(Nil) /\ ~IsSet(EmptyName)
BY NamesAssumption DEF IsSet, Names, Nil, EmptyName

LEMMA NoCopyType == NoCopy \in InstanceState
BY NamesAreRefs, BoundsAssumption, ShootsAssumption
   DEF NoCopy, NewInstance, InstanceState, DataPlanes

LEMMA FinishType == ASSUME Finish PROVE mem' \in InstanceState /\ fresh' \in BOOLEAN
                                         /\ pc' \in Steps /\ cur' \in Kinds
BY NoCopyType DEF Finish, Goto, Steps, Kinds, ImportKinds

LEMMA StoreStatusType ==
  ASSUME TypeOK, NEW o \in Outcomes, StoreStatus(o) PROVE inst' \in InstanceState
BY DEF TypeOK, StoreStatus, InstanceState

LEMMA OutcomeType ==
  ASSUME TypeOK, NEW o \in Outcomes, Outcome(o) PROVE faults' \in 0 .. MaxFaults
BY BoundsAssumption DEF TypeOK, Outcome

LEMMA DispatchType ==
  ASSUME NEW m \in InstanceState, Dispatch(m)
  PROVE  mem' \in InstanceState /\ fresh' \in BOOLEAN /\ pc' \in Steps /\ cur' \in Kinds
BY FinishType DEF Dispatch, Goto, Steps, Kinds, ImportKinds

LEMMA InitType == Init => TypeOK
<1> SUFFICES ASSUME Init PROVE TypeOK
  OBVIOUS
<1>1. \A d \in DataPlanes : NewInstance(d) \in InstanceState
  BY NamesAreRefs, BoundsAssumption, ShootsAssumption
     DEF NewInstance, InstanceState, DataPlanes
<1>2. inst \in InstanceState
  BY <1>1 DEF Init
<1>3. mem \in InstanceState
  BY NoCopyType DEF Init
<1>4. NoInstallation \in InstallationState
  BY NamesAreRefs, BoundsAssumption DEF NoInstallation, InstallationState
<1>5. install \in [Names -> InstallationState]
  BY <1>4 DEF Init
<1>6. objs \in [Kinds -> [Names -> ObjectState]]
  BY DEF Init, ObjectState
<1>7. faults \in 0 .. MaxFaults /\ meddle \in 0 .. MaxMeddle
  BY BoundsAssumption DEF Init
<1>8. pc \in Steps /\ cur \in Kinds
  BY DEF Init, Steps, Kinds, ImportKinds
<1> QED
  BY <1>2, <1>3, <1>5, <1>6, <1>7, <1>8 DEF Init, TypeOK

LEMMA ApplyType ==
  ASSUME TypeOK, NEW k \in Kinds, NEW n \in Names, Apply(k, n)
  PROVE  /\ objs' \in [Kinds -> [Names -> ObjectState]]
         /\ install' \in [Names -> InstallationState]
<1>1. install[n] \in InstallationState
  BY DEF TypeOK
<1>2. \A kinds : Imports(kinds) \in [ImportKinds -> Refs]
  BY NamesAreRefs DEF Imports, TypeOK, InstanceState, Kinds
<1>3. mem.spec \in 0 .. MaxSpec /\ mem.shoot \in Shoots \cup {NoShoot}
  BY BoundsAssumption DEF TypeOK, InstanceState
<1>4. Mutated(install[n]) \in InstallationState
  <2>1. SpecInternal(install[n]) \in InstallationState
    BY <1>1, <1>2, <1>3 DEF SpecInternal, InstallationState
  <2>2. SpecExternal(install[n]) \in InstallationState
    BY <1>1, <1>2, <1>3 DEF SpecExternal, InstallationState
  <2>3. SpecFor(install[n]) \in InstallationState
    BY <2>1, <2>2 DEF SpecFor
  <2> QED
    BY <2>3 DEF Mutated, InstallationState
<1> QED
  BY <1>4 DEF TypeOK, Apply, ObjectState

\* Every step keeps the types.
LEMMA NextType == TypeOK /\ [Next]_vars => TypeOK'
<1> SUFFICES ASSUME TypeOK, [Next]_vars PROVE TypeOK'
  OBVIOUS
<1> USE DEF Goto, Fail, GotoAfter, GotoAfterRemoval, ctrlVars, clusterVars
<1>1. CASE StartReconcile
  <2>1. CASE inst.state = "gone" /\ UNCHANGED ctrlVars
    BY <1>1, <2>1 DEF StartReconcile, TypeOK
  <2>2. CASE Goto("observe", "context") /\ fresh' = TRUE
             /\ mem' = [inst EXCEPT !.observed = inst.spec]
    <3>1. inst \in InstanceState /\ inst.spec \in 0 .. MaxSpec
      BY BoundsAssumption DEF TypeOK, InstanceState
    <3>2. mem' \in InstanceState
      BY <2>2, <3>1 DEF InstanceState
    <3> QED
      BY <1>1, <2>2, <3>2 DEF StartReconcile, TypeOK, Steps, Kinds, ImportKinds
  <2>3. CASE Dispatch(inst)
    <3>1. mem' \in InstanceState /\ fresh' \in BOOLEAN /\ pc' \in Steps /\ cur' \in Kinds
      BY <2>3, DispatchType DEF TypeOK
    <3> QED
      BY <1>1, <3>1 DEF StartReconcile, TypeOK
  <2> QED
    BY <1>1, <2>1, <2>2, <2>3 DEF StartReconcile
<1>2. ASSUME NEW o \in Outcomes, Observe(o) PROVE TypeOK'
  <2>1. inst' \in InstanceState /\ faults' \in 0 .. MaxFaults
    BY <1>2, StoreStatusType, OutcomeType DEF Observe
  <2>2. mem' \in InstanceState /\ fresh' \in BOOLEAN /\ pc' \in Steps /\ cur' \in Kinds
    BY <1>2, DispatchType, FinishType DEF Observe, TypeOK
  <2> QED
    BY <1>2, <2>1, <2>2 DEF Observe, TypeOK
<1>3. ASSUME NEW o \in Outcomes, AddFinalizer(o) PROVE TypeOK'
  <2>1. inst' \in InstanceState /\ faults' \in 0 .. MaxFaults
    BY <1>3, OutcomeType DEF AddFinalizer, TypeOK, InstanceState
  <2> QED
    BY <1>3, <2>1, FinishType DEF AddFinalizer, TypeOK
<1>4. ASSUME NEW o \in Outcomes, HandleError(o) PROVE TypeOK'
  BY <1>4, StoreStatusType, OutcomeType, FinishType DEF HandleError, TypeOK
<1>5. ASSUME NEW o \in Outcomes, StoreRef(o) PROVE TypeOK'
  <2>1. inst' \in InstanceState /\ faults' \in 0 .. MaxFaults
    BY <1>5, StoreStatusType, OutcomeType DEF StoreRef
  <2>2. mem' \in InstanceState /\ fresh' \in BOOLEAN /\ pc' \in Steps /\ cur' \in Kinds
    BY <1>5, FinishType DEF StoreRef, TypeOK, Steps, Kinds, ImportKinds
  <2> QED
    BY <1>5, <2>1, <2>2 DEF StoreRef, TypeOK
<1>6. ASSUME NEW o \in Outcomes, StoreEmptyRef(o) PROVE TypeOK'
  BY <1>6, StoreStatusType, OutcomeType DEF StoreEmptyRef, TypeOK, Steps
<1>7. ASSUME NEW o \in Outcomes, PersistShoot(o) PROVE TypeOK'
  BY <1>7, StoreStatusType, OutcomeType DEF PersistShoot, TypeOK, Steps
<1>8. ASSUME NEW o \in Outcomes, ClearRef(o) PROVE TypeOK'
  <2>1. inst' \in InstanceState /\ faults' \in 0 .. MaxFaults
    BY <1>8, StoreStatusType, OutcomeType DEF ClearRef
  <2>2. pc' \in Steps /\ cur' \in Kinds
    BY <1>8 DEF ClearRef, TypeOK, Steps, Kinds, ImportKinds
  <2> QED
    BY <1>8, <2>1, <2>2 DEF ClearRef, TypeOK
<1>9. ASSUME NEW o \in Outcomes, RemoveNamespace(o) PROVE TypeOK'
  <2>1. faults' \in 0 .. MaxFaults
    BY <1>9, OutcomeType DEF RemoveNamespace
  <2>2. mem' \in InstanceState /\ fresh' \in BOOLEAN /\ pc' \in Steps /\ cur' \in Kinds
    <3>1. CASE Finish
      BY <3>1, FinishType
    <3>2. CASE ~Finish
      BY <1>9, <3>2 DEF RemoveNamespace, TypeOK, Steps, Kinds, ImportKinds
    <3> QED
      BY <3>1, <3>2
  <2> QED
    BY <1>9, <2>1, <2>2 DEF RemoveNamespace, TypeOK
<1>10. ASSUME NEW o \in Outcomes, Release(o) PROVE TypeOK'
  BY <1>10, OutcomeType DEF Release, TypeOK, Steps
<1>11. ASSUME NEW o \in Outcomes, RemoveFinalizer(o) PROVE TypeOK'
  <2>1. inst' \in InstanceState /\ faults' \in 0 .. MaxFaults
    BY <1>11, OutcomeType DEF RemoveFinalizer, TypeOK, InstanceState
  <2>2. mem' \in InstanceState /\ fresh' \in BOOLEAN /\ pc' \in Steps /\ cur' \in Kinds
    BY <1>11, FinishType DEF RemoveFinalizer, TypeOK, Steps
  <2> QED
    BY <1>11, <2>1, <2>2 DEF RemoveFinalizer, TypeOK
<1>12. ASSUME NEW k \in Kinds, NEW n \in Names, Ensure(k, n) PROVE TypeOK'
  <2>1. mem' \in InstanceState
    BY <1>12, NamesAreRefs DEF Ensure, TypeOK, InstanceState
  <2>2. pc' \in Steps /\ cur' \in Kinds
    BY <1>12 DEF Ensure, TypeOK, Steps, Kinds, ImportKinds
  <2> QED
    BY <1>12, <2>1, <2>2, ApplyType DEF Ensure, TypeOK
<1>13. ASSUME NEW k \in Kinds, NEW o \in Outcomes, EnsureFails(k, o) PROVE TypeOK'
  <2>1. faults' \in 0 .. MaxFaults
    BY <1>13, OutcomeType DEF EnsureFails, TypeOK
  <2>2. /\ objs' \in [Kinds -> [Names -> ObjectState]]
        /\ install' \in [Names -> InstallationState]
    BY <1>13, ApplyType DEF EnsureFails, TypeOK
  <2>3. mem' \in InstanceState
    <3>1. [mem EXCEPT !.ref[k] = EmptyName] \in InstanceState
      BY NamesAreRefs DEF TypeOK, InstanceState
    <3> QED
      BY <1>13, <3>1 DEF EnsureFails, TypeOK
  <2>4. pc' \in Steps /\ cur' \in Kinds
    BY <1>13 DEF EnsureFails, TypeOK, Steps
  <2> QED
    BY <1>13, <2>1, <2>2, <2>3, <2>4 DEF EnsureFails, TypeOK
<1>14. ASSUME NEW k \in Kinds, NEW o \in Outcomes, Remove(k, o) PROVE TypeOK'
  <2>1. faults' \in 0 .. MaxFaults
    BY <1>14, OutcomeType DEF Remove
  <2>2. objs' \in [Kinds -> [Names -> ObjectState]]
    BY <1>14 DEF Remove, TypeOK, ObjectState
  <2>3. mem' \in InstanceState /\ fresh' \in BOOLEAN /\ pc' \in Steps /\ cur' \in Kinds
    BY <1>14, FinishType DEF Remove, TypeOK, Steps
  <2> QED
    BY <1>14, <2>1, <2>2, <2>3 DEF Remove, TypeOK
<1>15. ASSUME NEW k \in Kinds, RemoveNotFound(k) PROVE TypeOK'
  <2>1. mem' \in InstanceState
    BY <1>15, NamesAreRefs DEF RemoveNotFound, TypeOK, InstanceState
  <2> QED
    BY <1>15, <2>1 DEF RemoveNotFound, TypeOK, Steps
<1>16. ASSUME NEW s \in Shoots, NameShoot(s) PROVE TypeOK'
  <2>1. mem' \in InstanceState
    BY <1>16 DEF NameShoot, TypeOK, InstanceState
  <2> QED
    BY <1>16, <2>1 DEF NameShoot, TypeOK, Steps
<1>17. CASE NameShootFails
  BY <1>17, OutcomeType DEF NameShootFails, TypeOK, Steps, Outcomes
<1>18. CASE NothingToStore
  BY <1>18, FinishType DEF NothingToStore, TypeOK
<1>19. CASE SkipRemove
  <2>1. pc' \in Steps /\ cur' \in Kinds
    BY <1>19 DEF SkipRemove, TypeOK, Steps, Kinds, ImportKinds
  <2> QED
    BY <1>19, <2>1 DEF SkipRemove, TypeOK
<1>20. CASE Landscaper
  <2>1. ASSUME NEW n \in Names, Deploy(n) PROVE TypeOK'
    BY <2>1 DEF Deploy, TypeOK, InstallationState
  <2>2. ASSUME NEW n \in Names, Uninstall(n) PROVE TypeOK'
    BY <2>2 DEF Uninstall, TypeOK, ObjectState, Kinds
  <2> QED
    BY <1>20, <2>1, <2>2 DEF Landscaper
<1>21. CASE ApiServer
  <2>1. CASE NamespaceVanishes
    BY <2>1 DEF NamespaceVanishes, TypeOK
  <2>2. ASSUME NEW k \in ImportKinds, NEW n \in Names, Vanish(k, n) PROVE TypeOK'
    BY <2>2 DEF Vanish, TypeOK, ObjectState, Kinds
  <2>3. ASSUME NEW k \in Kinds, NEW n \in Names, CollectGarbage(k, n) PROVE TypeOK'
    BY <2>3 DEF CollectGarbage, TypeOK, ObjectState
  <2> QED
    BY <1>21, <2>1, <2>2, <2>3 DEF ApiServer
<1>22. CASE Others
  <2>1. CASE Restart
    BY <2>1, FinishType, BoundsAssumption DEF Restart, TypeOK
  <2>2. CASE AutomaticReconcile \/ ListInstance
    BY <2>2 DEF AutomaticReconcile, ListInstance, TypeOK
  <2>3. CASE UpdateInstance
    <3>1. inst.spec + 1 \in 1 .. MaxSpec
      BY <2>3, BoundsAssumption DEF UpdateInstance, TypeOK, InstanceState
    <3>2. ASSUME NEW ignore \in BOOLEAN
          PROVE  [inst EXCEPT !.spec = @ + 1, !.ignore = ignore] \in InstanceState
      BY <3>1 DEF TypeOK, InstanceState
    <3> QED
      BY <2>3, <3>2 DEF UpdateInstance, TypeOK
  <2>4. CASE DeleteInstance
    BY <2>4 DEF DeleteInstance, TypeOK, InstanceState
  <2>5. ASSUME NEW k \in Kinds, NEW n \in Names, DeleteByHand(k, n) PROVE TypeOK'
    BY <2>5, BoundsAssumption DEF DeleteByHand, TypeOK, ObjectState
  <2> QED
    BY <1>22, <2>1, <2>2, <2>3, <2>4, <2>5 DEF Others
<1>23. CASE UNCHANGED vars
  BY <1>23 DEF vars, TypeOK
<1> QED
  BY <1>1, <1>2, <1>3, <1>4, <1>5, <1>6, <1>7, <1>8, <1>9, <1>10, <1>11, <1>12,
     <1>13, <1>14, <1>15, <1>16, <1>17, <1>18, <1>19, <1>20, <1>21, <1>22, <1>23
     DEF Next, Reconcile

\* Every state the controller and its surroundings reach is well typed.
THEOREM TypeCorrect == Spec => []TypeOK
<1>1. Init => TypeOK
  BY InitType
<1>2. TypeOK /\ [Next]_vars => TypeOK'
  BY NextType
<1> QED
  BY <1>1, <1>2, PTL DEF Spec

-----------------------------------------------------------------------------
(***************************************************************************)
(* The inductive invariant.                                                *)
(***************************************************************************)

\* The conjuncts that are about the controller hold once it is idle.
LEMMA FinishInv ==
  ASSUME Finish PROVE CopyInv' /\ CreateInv' /\ RemoveInv' /\ PendingInv'
BY DEF Finish, Goto, CopyInv, CreateInv, RemoveInv, PendingInv, NoCopy,
       NewInstance, CreateSteps, RemoveSteps

LEMMA InitInv == Init => IndInv
<1> SUFFICES ASSUME Init PROVE IndInv
  OBVIOUS
<1>1. CopyInv /\ CreateInv /\ RemoveInv /\ PendingInv
  BY DEF Init, CopyInv, CreateInv, RemoveInv, PendingInv, NoCopy, NewInstance,
         CreateSteps, RemoveSteps
<1>2. inst.ref = [k \in Kinds |-> Nil] /\ inst.shoot = NoShoot
  BY DEF Init, NewInstance
<1>3. StoredInv /\ ImportsComplete /\ OneShoot
  BY <1>2 DEF Init, StoredInv, ImportsComplete, OneShoot, IsSet, Names, Nil,
              Kinds, ImportKinds
<1> QED
  BY <1>1, <1>3, InitType DEF IndInv

\* A status update keeps what is said about the stored Instance.
LEMMA StoreStatusInv ==
  ASSUME IndInv, NEW o \in Outcomes, StoreStatus(o), pc # "idle",
         UNCHANGED <<objs, install, meddle>>
  PROVE  StoredInv' /\ ImportsComplete' /\ OneShoot'
<1>1. CASE inst' = inst
  BY <1>1 DEF IndInv, StoredInv, ImportsComplete, OneShoot
<1>2. CASE fresh /\ inst' = [inst EXCEPT !.ref = mem.ref, !.shoot = mem.shoot,
                                         !.observed = mem.observed]
  <2>1. /\ inst'.ref = mem.ref /\ inst'.shoot = mem.shoot
        /\ inst'.state = inst.state /\ inst'.dataPlane = inst.dataPlane
    BY <1>2 DEF IndInv, TypeOK, InstanceState
  <2>2. mem.state = inst.state
    BY <1>2 DEF IndInv, CopyInv
  <2>3. inst.state = "deleting" /\ IsSet(mem.ref["installation"])
          => IsSet(inst.ref["installation"])
    BY <2>2, NilIsNotSet DEF IndInv, CopyInv, Kinds
  <2>4. StoredInv'
    <3>1. \A k \in Kinds : IsSet(mem.ref[k]) => objs[k][mem.ref[k]] # "unused"
      BY DEF IndInv, PendingInv
    <3>2. IsSet(mem.ref["installation"]) =>
            \A k \in Needed(inst.dataPlane) :
              /\ IsSet(mem.ref[k])
              /\ install[mem.ref["installation"]].imports[k] = mem.ref[k]
      BY DEF IndInv, PendingInv
    <3>3. meddle = 0 /\ (\/ inst.state = "present"
                         \/ inst.state = "deleting" /\ IsSet(inst.ref["installation"]))
          => \A k \in ImportKinds, n \in Names : objs[k][n] \in {"unused", "present"}
      BY DEF IndInv, StoredInv
    <3> QED
      BY <2>1, <2>3, <3>1, <3>2, <3>3 DEF StoredInv
  <2>5. ImportsComplete'
    BY <2>1 DEF IndInv, ImportsComplete
  <2>6. OneShoot'
    BY <2>1 DEF IndInv, OneShoot, CopyInv
  <2> QED
    BY <2>4, <2>5, <2>6
<1> QED
  BY <1>1, <1>2 DEF StoreStatus

\* The reads that start a reconcile.
LEMMA DispatchInv ==
  ASSUME IndInv, TypeOK', UNCHANGED <<objs, install, meddle>>,
         inst'.state = inst.state, inst'.dataPlane = inst.dataPlane,
         inst'.ref = inst.ref, inst'.shoot = inst.shoot,
         NEW m, Dispatch(m),
         m.state = inst.state, m.dataPlane = inst.dataPlane,
         m.ref = inst.ref, m.shoot = inst.shoot, m.state # "gone"
  PROVE  CopyInv' /\ CreateInv' /\ RemoveInv' /\ PendingInv'
<1>1. CASE Finish
  BY <1>1, FinishInv
<1>2. CASE ~Finish
  <2>1. /\ mem' = m /\ fresh' = TRUE /\ pc' \in {"finalizer", "remove", "ensure"}
        /\ pc' = "remove" => m.state = "deleting" /\ cur' = "installation"
        /\ pc' # "remove" => m.state = "present" /\ cur' = "context"
    BY <1>2 DEF Dispatch, Goto
  <2>2. CopyInv'
    BY <2>1 DEF CopyInv, CreateSteps, RemoveSteps
  <2>3. CreateInv' /\ RemoveInv'
    BY <2>1 DEF CreateInv, RemoveInv, CreateSteps, RemoveSteps, Before, RemovedBefore
  <2>4. PendingInv'
    BY <2>1 DEF IndInv, StoredInv, PendingInv
  <2> QED
    BY <2>2, <2>3, <2>4
<1> QED
  BY <1>1, <1>2

LEMMA StartReconcileInv ==
  ASSUME IndInv, TypeOK', StartReconcile PROVE IndInv'
<1> USE DEF ctrlVars, clusterVars
<1>1. StoredInv' /\ ImportsComplete' /\ OneShoot'
  BY DEF StartReconcile, IndInv, StoredInv, ImportsComplete, OneShoot
<1>2. CASE UNCHANGED ctrlVars
  BY <1>1, <1>2 DEF StartReconcile, IndInv, CopyInv, CreateInv, RemoveInv,
                    PendingInv, Before
<1>3. CASE /\ Goto("observe", "context") /\ fresh' = TRUE /\ inst.state # "gone"
           /\ mem' = [inst EXCEPT !.observed = inst.spec]
  <2>1. /\ mem'.state = inst.state /\ mem'.dataPlane = inst.dataPlane
        /\ mem'.ref = inst.ref /\ mem'.shoot = inst.shoot
    BY <1>3 DEF IndInv, TypeOK, InstanceState
  <2>2. UNCHANGED <<inst, objs, install, meddle>>
    BY DEF StartReconcile
  <2>3. CopyInv'
    BY <1>3, <2>1, <2>2 DEF CopyInv, Goto, CreateSteps, RemoveSteps
  <2>4. CreateInv' /\ RemoveInv'
    BY <1>3 DEF CreateInv, RemoveInv, Goto, CreateSteps, RemoveSteps
  <2>5. PendingInv'
    BY <1>3, <2>1, <2>2 DEF IndInv, StoredInv, PendingInv
  <2> QED
    BY <1>1, <2>3, <2>4, <2>5 DEF IndInv
<1>4. CASE Dispatch(inst) /\ inst.state # "gone"
  BY <1>1, <1>4, DispatchInv DEF StartReconcile, IndInv
<1> QED
  BY <1>2, <1>3, <1>4 DEF StartReconcile

LEMMA ObserveInv ==
  ASSUME IndInv, TypeOK', NEW o \in Outcomes, Observe(o) PROVE IndInv'
<1> USE DEF clusterVars
<1>1. StoredInv' /\ ImportsComplete' /\ OneShoot'
  BY StoreStatusInv DEF Observe
<1>2. CASE Finish
  BY <1>1, <1>2, FinishInv DEF IndInv
<1>3. CASE fresh /\ Dispatch(mem)
  <2>1. /\ mem.state = inst.state /\ mem.dataPlane = inst.dataPlane
        /\ mem.ref = inst.ref /\ mem.shoot = inst.shoot /\ mem.state # "gone"
    BY <1>3 DEF Observe, IndInv, CopyInv, TypeOK, InstanceState
  <2>2. /\ inst'.state = inst.state /\ inst'.dataPlane = inst.dataPlane
        /\ inst'.ref = inst.ref /\ inst'.shoot = inst.shoot
    BY <2>1 DEF Observe, StoreStatus, IndInv, TypeOK, InstanceState
  <2>3. UNCHANGED <<objs, install, meddle>>
    BY DEF Observe
  <2>4. CopyInv' /\ CreateInv' /\ RemoveInv' /\ PendingInv'
    BY <1>3, <2>1, <2>2, <2>3, DispatchInv
  <2> QED
    BY <1>1, <2>4 DEF IndInv
<1> QED
  BY <1>2, <1>3 DEF Observe, Stored

LEMMA AddFinalizerInv ==
  ASSUME IndInv, TypeOK', NEW o \in Outcomes, AddFinalizer(o) PROVE IndInv'
<1>1. /\ inst'.state = inst.state /\ inst'.dataPlane = inst.dataPlane
      /\ inst'.ref = inst.ref /\ inst'.shoot = inst.shoot
  BY DEF AddFinalizer, IndInv, TypeOK, InstanceState
<1>2. StoredInv' /\ ImportsComplete' /\ OneShoot'
  BY <1>1 DEF AddFinalizer, clusterVars, IndInv, StoredInv, ImportsComplete, OneShoot
<1> QED
  BY <1>2, FinishInv DEF AddFinalizer, IndInv

LEMMA HandleErrorInv ==
  ASSUME IndInv, TypeOK', NEW o \in Outcomes, HandleError(o) PROVE IndInv'
BY StoreStatusInv, FinishInv DEF HandleError, clusterVars, IndInv

\* What CreateOrUpdate makes of an Installation and of the other objects.
LEMMA ApplyEffect ==
  ASSUME TypeOK, NEW k \in Kinds, NEW n \in Names, Apply(k, n)
  PROVE  /\ k = "installation" =>
              /\ mem.dataPlane = "internal" => install'[n].shoot = mem.shoot
              /\ \A j \in Needed(mem.dataPlane) :
                   install'[n].imports[j] = mem.ref[j]
         /\ \A m \in Names : k # "installation" \/ m # n => install'[m] = install[m]
         /\ \A j \in Kinds, m \in Names :
              /\ j # k \/ m # n => objs'[j][m] = objs[j][m]
              /\ objs[j][m] # "unused" => objs'[j][m] # "unused"
         /\ objs[k][n] = "deleting" \/ objs'[k][n] = "present"
<1>1. objs'[k][n] = IF objs[k][n] \in {"unused", "gone"} THEN "present" ELSE objs[k][n]
  BY DEF TypeOK, Apply
<1>2. \A j \in Kinds, m \in Names : j # k \/ m # n => objs'[j][m] = objs[j][m]
  BY DEF TypeOK, Apply
<1>3. install[n] \in InstallationState /\ mem.dataPlane \in DataPlanes
  BY DEF TypeOK, InstanceState
<1>4. /\ mem.dataPlane = "internal" => Mutated(install[n]).shoot = mem.shoot
      /\ Mutated(install[n]).imports = Imports(Needed(mem.dataPlane))
  BY <1>3 DEF Mutated, SpecFor, SpecInternal, SpecExternal, InstallationState,
              DataPlanes
<1>5. \A j \in Needed(mem.dataPlane) :
        Imports(Needed(mem.dataPlane))[j] = mem.ref[j]
  BY DEF Imports, Needed, ImportKinds
<1>6. k = "installation" => install'[n] = Mutated(install[n])
  BY DEF TypeOK, Apply
<1>7. \A m \in Names : k # "installation" \/ m # n => install'[m] = install[m]
  BY DEF TypeOK, Apply
<1>8. objs[k][n] \in ObjectState
  BY DEF TypeOK
<1> QED
  BY <1>1, <1>2, <1>4, <1>5, <1>6, <1>7, <1>8 DEF ObjectState

\* CreateOrUpdate, whether its answer arrives or not, keeps what is said about
\* the stored objects.
LEMMA ApplyInv ==
  ASSUME IndInv, NEW k \in Kinds, NEW n \in Names, pc = "ensure", cur = k,
         ObjectFor(k, n), Apply(k, n), UNCHANGED <<inst, meddle>>
  PROVE  /\ StoredInv' /\ ImportsComplete' /\ OneShoot'
         /\ objs'[k][n] # "unused"
         /\ \A j \in Kinds : IsSet(mem.ref[j]) => objs'[j][mem.ref[j]] # "unused"
         /\ IsSet(mem.ref["installation"]) =>
              \A j \in Needed(inst.dataPlane) :
                /\ IsSet(mem.ref[j])
                /\ install'[mem.ref["installation"]].imports[j] = mem.ref[j]
<1>1. /\ mem.ref = inst.ref /\ mem.shoot = inst.shoot
      /\ mem.dataPlane = inst.dataPlane /\ mem.state = "present"
  <2>1. \A j \in Kinds : mem.ref[j] = inst.ref[j]
    BY DEF IndInv, CopyInv
  <2>2. mem.ref \in [Kinds -> Refs] /\ inst.ref \in [Kinds -> Refs]
    BY DEF IndInv, TypeOK, InstanceState
  <2>3. mem.ref = inst.ref
    BY <2>1, <2>2
  <2> QED
    BY <2>3 DEF IndInv, CopyInv, CreateSteps
<1>2. k = "installation" =>
        /\ \A j \in Needed(inst.dataPlane) : IsSet(mem.ref[j])
        /\ inst.dataPlane = "internal" => mem.shoot # NoShoot
  BY DEF IndInv, CreateInv, CreateSteps, Before
<1>3. /\ k = "installation" =>
           /\ mem.dataPlane = "internal" => install'[n].shoot = mem.shoot
           /\ \A j \in Needed(mem.dataPlane) :
                install'[n].imports[j] = mem.ref[j]
      /\ \A m \in Names : k # "installation" \/ m # n => install'[m] = install[m]
      /\ \A j \in Kinds, m \in Names :
           /\ j # k \/ m # n => objs'[j][m] = objs[j][m]
           /\ objs[j][m] # "unused" => objs'[j][m] # "unused"
      /\ objs[k][n] = "deleting" \/ objs'[k][n] = "present"
  BY ApplyEffect DEF IndInv
<1>4. \A j \in Kinds, m \in Names : objs[j][m] \in ObjectState
  BY DEF IndInv, TypeOK
<1>5. StoredInv'
  <2>1. \A j \in Kinds : IsSet(inst.ref[j]) => objs'[j][inst.ref[j]] # "unused"
    BY <1>3 DEF IndInv, StoredInv, IsSet
  <2>2. IsSet(inst.ref["installation"]) /\ inst.state # "gone" =>
          \A j \in Needed(inst.dataPlane) :
            /\ IsSet(inst.ref[j])
            /\ install'[inst.ref["installation"]].imports[j] = inst.ref[j]
    BY <1>1, <1>2, <1>3 DEF IndInv, StoredInv, IsSet
  <2>3. ASSUME meddle = 0,
               \/ inst.state = "present"
               \/ inst.state = "deleting" /\ IsSet(inst.ref["installation"]),
               NEW j \in ImportKinds, NEW m \in Names
        PROVE  objs'[j][m] \in {"unused", "present"}
    <3>1. objs[j][m] \in {"unused", "present"} /\ j \in Kinds
      BY <2>3 DEF IndInv, StoredInv, Kinds
    <3> QED
      BY <1>3, <3>1
  <2> QED
    BY <2>1, <2>2, <2>3 DEF StoredInv
<1>6. ImportsComplete'
  BY <1>1, <1>2, <1>3 DEF IndInv, ImportsComplete, Kinds
<1>7. OneShoot'
  BY <1>1, <1>2, <1>3 DEF IndInv, OneShoot, Kinds
<1>8. \A j \in Kinds : IsSet(mem.ref[j]) => objs'[j][mem.ref[j]] # "unused"
  BY <1>3 DEF IndInv, PendingInv, IsSet
<1>9. IsSet(mem.ref["installation"]) =>
        \A j \in Needed(inst.dataPlane) :
          /\ IsSet(mem.ref[j])
          /\ install'[mem.ref["installation"]].imports[j] = mem.ref[j]
  BY <1>1, <1>2, <1>3 DEF IndInv, PendingInv, IsSet
<1>10. objs'[k][n] # "unused"
  BY <1>3
<1> QED
  BY <1>5, <1>6, <1>7, <1>8, <1>9, <1>10

\* The names of the steps are distinct; outside the steps that write a
\* reference the copy has the stored references.
LEMMA CopyIsStored ==
  ASSUME IndInv, pc \in Steps \ {"idle", "ref", "emptyRef", "clear", "error"}
  PROVE  mem.ref = inst.ref
<1>1. \A k \in Kinds : mem.ref[k] = inst.ref[k]
  BY DEF IndInv, CopyInv, Steps
<1>2. mem.ref \in [Kinds -> Refs] /\ inst.ref \in [Kinds -> Refs]
  BY DEF IndInv, TypeOK, InstanceState
<1> QED
  BY <1>1, <1>2

\* The steps after an object of kind k are those of the next kind.
LEMMA GotoAfterInv ==
  ASSUME IndInv, pc \in {"ensure", "ref"}, cur \in ImportKinds, GotoAfter(cur),
         UNCHANGED inst, mem'.ref \in [Kinds -> Refs],
         mem'.shoot = mem.shoot, mem'.dataPlane = mem.dataPlane,
         \A k \in Kinds : k # cur => mem'.ref[k] = mem.ref[k],
         IsSet(mem'.ref[cur])
  PROVE  /\ pc' \in CreateSteps \ {"ref", "emptyRef", "persistShoot"}
         /\ CreateInv' /\ RemoveInv'
<1>1. mem.dataPlane = inst.dataPlane /\ inst.dataPlane \in DataPlanes
  BY DEF IndInv, CopyInv, TypeOK, InstanceState
<1>2. /\ \A k \in Before(cur) : IsSet(mem.ref[k])
      /\ cur # (IF inst.dataPlane = "internal" THEN "dataplane" ELSE "gsa")
  BY DEF IndInv, CreateInv, CreateSteps
<1>3. \A k \in Before(cur) : IsSet(mem'.ref[k])
  BY <1>2 DEF Before, Needed, Kinds, ImportKinds
<1>4. /\ pc' \in {"ensure", "nameShoot"}
      /\ pc' = "nameShoot" <=> cur = "target" /\ inst.dataPlane = "internal"
      /\ cur = "context" => cur' = IF inst.dataPlane = "internal"
                                   THEN "gsa" ELSE "dataplane"
      /\ cur \in {"gsa", "dataplane"} => cur' = "target"
      /\ cur = "target" => cur' = "installation"
  BY <1>1 DEF GotoAfter, Goto, ImportKinds
<1>5. \A k \in Before(cur)' : IsSet(mem'.ref[k])
  BY <1>1, <1>2, <1>3, <1>4 DEF Before, Needed, DataPlanes, ImportKinds
<1>6. CreateInv'
  BY <1>1, <1>2, <1>4, <1>5 DEF CreateInv, ImportKinds, DataPlanes
<1> QED
  BY <1>4, <1>6 DEF CreateSteps, RemoveInv, RemoveSteps

LEMMA EnsureInv ==
  ASSUME IndInv, TypeOK', NEW k \in Kinds, NEW n \in Names, Ensure(k, n)
  PROVE  IndInv'
<1>1. /\ pc = "ensure" /\ cur = k /\ ObjectFor(k, n) /\ Apply(k, n)
      /\ UNCHANGED <<inst, fresh, meddle>>
  BY DEF Ensure
<1>2. /\ StoredInv' /\ ImportsComplete' /\ OneShoot'
      /\ objs'[k][n] # "unused"
      /\ \A j \in Kinds : IsSet(mem.ref[j]) => objs'[j][mem.ref[j]] # "unused"
      /\ IsSet(mem.ref["installation"]) =>
           \A j \in Needed(inst.dataPlane) :
             /\ IsSet(mem.ref[j])
             /\ install'[mem.ref["installation"]].imports[j] = mem.ref[j]
  BY <1>1, ApplyInv
<1>3. /\ mem' = [mem EXCEPT !.ref[k] = n]
      /\ mem'.ref = [mem.ref EXCEPT ![k] = n]
      /\ mem'.state = mem.state /\ mem'.dataPlane = mem.dataPlane
      /\ mem'.shoot = mem.shoot
      /\ mem.ref \in [Kinds -> Refs] /\ mem'.ref \in [Kinds -> Refs]
  BY DEF Ensure, IndInv, TypeOK, InstanceState
<1>4. mem.ref = inst.ref
  BY <1>1, CopyIsStored DEF Steps
<1>5. mem'.ref[k] = n /\ IsSet(n) /\ (IsSet(mem.ref[k]) => n = mem.ref[k])
  BY <1>1, <1>3 DEF IsSet, ObjectFor
<1>6. \A j \in Kinds : j # k => mem'.ref[j] = mem.ref[j]
  BY <1>3
<1>7. mem.state = "present" /\ mem.dataPlane = inst.dataPlane /\ mem.shoot = inst.shoot
  BY <1>1 DEF IndInv, CopyInv, CreateSteps
<1>8. PendingInv'
  <2>1. \A j \in Kinds : IsSet(mem'.ref[j]) => objs'[j][mem'.ref[j]] # "unused"
    BY <1>2, <1>5, <1>6
  <2>2. ASSUME IsSet(mem'.ref["installation"]), NEW j \in Needed(inst.dataPlane)
        PROVE  /\ IsSet(mem'.ref[j])
               /\ install'[mem'.ref["installation"]].imports[j] = mem'.ref[j]
    <3>1. j \in Kinds /\ j # "installation"
      BY DEF Needed, Kinds, ImportKinds
    <3>2. CASE k = "installation"
      <4>1. install'[n].imports[j] = mem.ref[j]
        BY <1>1, <1>7, <3>2, ApplyEffect DEF IndInv
      <4>2. IsSet(mem.ref[j])
        BY <1>1, <3>2 DEF IndInv, CreateInv, CreateSteps, Before
      <4> QED
        BY <1>5, <1>6, <3>1, <3>2, <4>1, <4>2
    <3>3. CASE k # "installation"
      BY <1>2, <1>5, <1>6, <2>2, <3>1, <3>3 DEF Kinds
    <3> QED
      BY <3>2, <3>3
  <2> QED
    BY <1>1, <2>1, <2>2 DEF PendingInv
<1>9. CASE mem.ref[k] = n /\ k # "installation"
  <2>1. GotoAfter(k)
    BY <1>9 DEF Ensure
  <2>2. /\ pc' \in CreateSteps \ {"ref", "emptyRef", "persistShoot"}
        /\ CreateInv' /\ RemoveInv'
    BY <1>1, <1>3, <1>5, <1>6, <1>9, <2>1, GotoAfterInv DEF Kinds
  <2>3. mem'.ref = inst.ref
    BY <1>3, <1>4, <1>9
  <2>4. CopyInv'
    BY <1>1, <1>3, <1>7, <2>2, <2>3 DEF IndInv, CopyInv, CreateSteps, RemoveSteps
  <2> QED
    BY <1>2, <1>8, <2>2, <2>4 DEF IndInv
<1>10. CASE pc' = "ref" /\ cur' = k
  <2>1. CopyInv'
    <3>1. \A j \in Kinds : mem'.ref[j] # inst.ref[j] =>
            j = k /\ IsSet(mem'.ref[j]) /\ ~IsSet(inst.ref[j])
      BY <1>4, <1>5, <1>6
    <3> QED
      BY <1>1, <1>3, <1>7, <1>10, <3>1 DEF IndInv, CopyInv, CreateSteps, RemoveSteps
  <2>2. CreateInv'
    <3>1. \A j \in Before(cur) : IsSet(mem.ref[j]) /\ j # k /\ j \in Kinds
      BY <1>1 DEF IndInv, CreateInv, CreateSteps, Before, Needed, Kinds, ImportKinds
    <3>2. \A j \in Before(cur)' : IsSet(mem'.ref[j])
      BY <1>1, <1>6, <1>10, <3>1 DEF Before
    <3>3. /\ cur # (IF inst.dataPlane = "internal" THEN "dataplane" ELSE "gsa")
          /\ cur = "installation" /\ inst.dataPlane = "internal" => mem.shoot # NoShoot
      BY <1>1 DEF IndInv, CreateInv, CreateSteps
    <3> QED
      BY <1>1, <1>3, <1>5, <1>10, <3>2, <3>3 DEF CreateInv
  <2>3. RemoveInv'
    BY <1>10 DEF RemoveInv, RemoveSteps
  <2> QED
    BY <1>2, <1>8, <2>1, <2>2, <2>3 DEF IndInv
<1> QED
  BY <1>1, <1>9, <1>10 DEF Ensure, Goto

\* What a status update may change: the references and the shoot name become
\* those of the copy.
LEMMA StoredValues ==
  ASSUME IndInv, NEW o \in Outcomes, StoreStatus(o)
  PROVE  /\ inst'.state = inst.state /\ inst'.dataPlane = inst.dataPlane
         /\ \/ inst'.ref = inst.ref /\ inst'.shoot = inst.shoot
            \/ fresh /\ inst'.ref = mem.ref /\ inst'.shoot = mem.shoot
         /\ fresh /\ o # "fail" => inst'.ref = mem.ref /\ inst'.shoot = mem.shoot
BY DEF StoreStatus, IndInv, TypeOK, InstanceState

\* An error leaves a copy with a reference that is not stored yet.
LEMMA FailInv ==
  ASSUME IndInv, TypeOK', NEW o \in Outcomes, StoreStatus(o), pc # "idle", Fail,
         fresh' => fresh, UNCHANGED <<mem, objs, install, meddle>>,
         pc \in {"ref", "emptyRef", "clear", "persistShoot", "error"}
           \/ (mem.ref = inst.ref /\ mem.shoot = inst.shoot)
  PROVE  IndInv'
<1>1. StoredInv' /\ ImportsComplete' /\ OneShoot'
  BY StoreStatusInv
<1>2. pc' = "error" /\ cur' = cur
  BY DEF Fail, Goto
<1>3. CreateInv' /\ RemoveInv'
  BY <1>2 DEF CreateInv, RemoveInv, CreateSteps, RemoveSteps
<1>4. PendingInv'
  BY <1>2, StoredValues DEF IndInv, PendingInv
<1>5. CopyInv'
  <2>1. /\ inst'.state = inst.state /\ inst'.dataPlane = inst.dataPlane
        /\ \/ inst'.ref = inst.ref /\ inst'.shoot = inst.shoot
           \/ inst'.ref = mem.ref /\ inst'.shoot = mem.shoot
    BY StoredValues
  <2>2. CASE inst'.ref = mem.ref /\ inst'.shoot = mem.shoot
    BY <1>2, <2>1, <2>2 DEF IndInv, CopyInv, CreateSteps, RemoveSteps
  <2>3. CASE inst'.ref = inst.ref /\ inst'.shoot = inst.shoot
    BY <1>2, <2>1, <2>3 DEF IndInv, CopyInv, CreateSteps, RemoveSteps
  <2> QED
    BY <2>1, <2>2, <2>3
<1> QED
  BY <1>1, <1>3, <1>4, <1>5 DEF IndInv

LEMMA FailUnchangedInv ==
  ASSUME IndInv, TypeOK', pc # "idle", Fail, fresh' => fresh,
         UNCHANGED <<inst, mem, objs, install, meddle>>
  PROVE  IndInv'
<1>1. pc' = "error" /\ cur' = cur
  BY DEF Fail, Goto
<1>2. CreateInv' /\ RemoveInv'
  BY <1>1 DEF CreateInv, RemoveInv, CreateSteps, RemoveSteps
<1>3. StoredInv' /\ ImportsComplete' /\ OneShoot' /\ PendingInv'
  BY <1>1 DEF IndInv, StoredInv, ImportsComplete, OneShoot, PendingInv
<1>4. CopyInv'
  BY <1>1 DEF IndInv, CopyInv, CreateSteps, RemoveSteps
<1> QED
  BY <1>2, <1>3, <1>4 DEF IndInv

LEMMA StoreRefInv ==
  ASSUME IndInv, TypeOK', NEW o \in Outcomes, StoreRef(o) PROVE IndInv'
<1> USE DEF clusterVars
<1>1. pc = "ref" /\ StoreStatus(o) /\ UNCHANGED <<objs, install, meddle>>
  BY DEF StoreRef
<1>2. CASE ~Stored(o)
  <2>1. Fail /\ UNCHANGED <<mem, objs, install, meddle>> /\ (fresh' => fresh)
    BY <1>1, <1>2 DEF StoreRef
  <2>2. pc \in {"ref", "emptyRef", "clear", "persistShoot", "error"} /\ pc # "idle"
    BY <1>1
  <2> QED
    BY <1>1, <2>1, <2>2, FailInv
<1>3. CASE Stored(o) /\ cur = "installation"
  BY <1>1, <1>3, StoreStatusInv, FinishInv DEF StoreRef, IndInv
<1>4. CASE Stored(o) /\ cur # "installation"
  <2>1. /\ GotoAfter(cur) /\ UNCHANGED <<fresh, mem>> /\ fresh /\ o = "ok"
        /\ cur \in ImportKinds
    BY <1>4 DEF StoreRef, Stored, IndInv, TypeOK, Kinds
  <2>2. /\ inst'.state = inst.state /\ inst'.dataPlane = inst.dataPlane
        /\ inst'.ref = mem.ref /\ inst'.shoot = mem.shoot
    BY <1>1, <2>1, StoredValues
  <2>3. /\ pc' \in CreateSteps \ {"ref", "emptyRef", "persistShoot"}
        /\ CreateInv' /\ RemoveInv'
    <3>1. mem.dataPlane = inst.dataPlane /\ inst.dataPlane \in DataPlanes
      BY <1>1 DEF IndInv, CopyInv, TypeOK, InstanceState
    <3>2. /\ \A k \in Before(cur) : IsSet(mem.ref[k])
          /\ IsSet(mem.ref[cur])
          /\ cur # (IF inst.dataPlane = "internal" THEN "dataplane" ELSE "gsa")
      BY <1>1 DEF IndInv, CreateInv, CreateSteps
    <3>3. /\ pc' \in {"ensure", "nameShoot"}
          /\ pc' = "nameShoot" <=> cur = "target" /\ inst.dataPlane = "internal"
          /\ cur = "context" => cur' = IF inst.dataPlane = "internal"
                                       THEN "gsa" ELSE "dataplane"
          /\ cur \in {"gsa", "dataplane"} => cur' = "target"
          /\ cur = "target" => cur' = "installation"
      BY <2>1, <3>1 DEF GotoAfter, Goto, ImportKinds
    <3>4. \A k \in Before(cur)' : IsSet(mem'.ref[k])
      BY <2>1, <2>2, <3>1, <3>2, <3>3 DEF Before, Needed, DataPlanes, ImportKinds
    <3>5. CreateInv'
      BY <2>1, <2>2, <3>1, <3>2, <3>3, <3>4 DEF CreateInv, ImportKinds, DataPlanes
    <3> QED
      BY <3>3, <3>5 DEF CreateSteps, RemoveInv, RemoveSteps
  <2>4. CopyInv'
    BY <1>1, <2>1, <2>2, <2>3 DEF IndInv, CopyInv, CreateSteps, RemoveSteps
  <2>5. PendingInv'
    BY <1>1, <2>1, <2>2 DEF IndInv, PendingInv
  <2> QED
    BY <1>1, <2>3, <2>4, <2>5, StoreStatusInv DEF IndInv
<1> QED
  BY <1>2, <1>3, <1>4

LEMMA EnsureFailsInv ==
  ASSUME IndInv, TypeOK', NEW k \in Kinds, NEW o \in Outcomes, EnsureFails(k, o)
  PROVE  IndInv'
<1>1. pc = "ensure" /\ cur = k /\ UNCHANGED <<inst, fresh, meddle>>
  BY DEF EnsureFails
<1>2. /\ StoredInv' /\ ImportsComplete' /\ OneShoot'
      /\ \A j \in Kinds : IsSet(mem.ref[j]) => objs'[j][mem.ref[j]] # "unused"
      /\ IsSet(mem.ref["installation"]) =>
           \A j \in Needed(inst.dataPlane) :
             /\ IsSet(mem.ref[j])
             /\ install'[mem.ref["installation"]].imports[j] = mem.ref[j]
  <2>1. CASE \E n \in Names : ObjectFor(k, n) /\ Apply(k, n)
    BY <1>1, <2>1, ApplyInv
  <2>2. CASE UNCHANGED <<objs, install>>
    BY <1>1, <2>2 DEF IndInv, StoredInv, ImportsComplete, OneShoot, PendingInv
  <2> QED
    BY <2>1, <2>2 DEF EnsureFails
<1>3. mem.ref = inst.ref
  BY <1>1, CopyIsStored DEF Steps
<1>4. /\ mem.state = "present" /\ mem.state # "gone"
      /\ mem.dataPlane = inst.dataPlane /\ mem.shoot = inst.shoot
      /\ fresh => mem.state = inst.state
  BY <1>1 DEF IndInv, CopyInv, CreateSteps
<1>5. CASE Fail /\ UNCHANGED mem
  <2>1. pc' = "error" /\ cur' = cur
    BY <1>5 DEF Fail, Goto
  <2>2. CreateInv' /\ RemoveInv'
    BY <2>1 DEF CreateInv, RemoveInv, CreateSteps, RemoveSteps
  <2>3. CopyInv'
    BY <1>1, <1>3, <1>4, <1>5, <2>1 DEF CopyInv, CreateSteps, RemoveSteps
  <2>4. PendingInv'
    BY <1>1, <1>2, <1>5 DEF PendingInv
  <2> QED
    BY <1>2, <2>2, <2>3, <2>4 DEF IndInv
<1>6. CASE /\ k \in {"gsa", "dataplane"} /\ mem.ref[k] = Nil
           /\ mem' = [mem EXCEPT !.ref[k] = EmptyName] /\ Goto("emptyRef", k)
  <2>1. /\ mem'.ref = [mem.ref EXCEPT ![k] = EmptyName]
        /\ mem'.state = mem.state /\ mem'.dataPlane = mem.dataPlane
        /\ mem'.shoot = mem.shoot
        /\ mem.ref \in [Kinds -> Refs]
    BY <1>6 DEF IndInv, TypeOK, InstanceState
  <2>2. /\ mem'.ref[k] = EmptyName
        /\ \A j \in Kinds : j # k => mem'.ref[j] = mem.ref[j]
    BY <2>1
  <2>3. pc' = "emptyRef" /\ cur' = k
    BY <1>6 DEF Goto
  <2>4. CopyInv'
    <3>1. \A j \in Kinds : mem'.ref[j] # inst.ref[j] =>
            j = k /\ mem'.ref[j] = EmptyName /\ ~IsSet(inst.ref[j])
      BY <1>3, <1>6, <2>2, NilIsNotSet
    <3> QED
      BY <1>1, <1>4, <2>1, <2>3, <3>1 DEF CopyInv, CreateSteps, RemoveSteps
  <2>5. CreateInv'
    <3>1. IsSet(mem.ref["context"])
          /\ k # (IF inst.dataPlane = "internal" THEN "dataplane" ELSE "gsa")
      BY <1>1, <1>6 DEF IndInv, CreateInv, CreateSteps, Before
    <3>2. IsSet(mem'.ref["context"])
      BY <1>6, <2>2, <3>1 DEF Kinds, ImportKinds
    <3>3. Before(cur)' = {"context"}
      BY <1>6, <2>3 DEF Before
    <3> QED
      BY <1>1, <1>6, <2>3, <3>1, <3>2, <3>3 DEF CreateInv
  <2>6. RemoveInv'
    BY <2>3 DEF RemoveInv, RemoveSteps
  <2>7. PendingInv'
    <3>1. ~IsSet(mem.ref["installation"])
      BY <1>1, <1>3, <1>6, NilIsNotSet DEF IndInv, PendingInv, CreateInv,
         CreateSteps, Needed, TypeOK, InstanceState, DataPlanes
    <3>2. ~IsSet(mem'.ref["installation"])
      BY <1>6, <2>2, <3>1 DEF Kinds
    <3>3. \A j \in Kinds : IsSet(mem'.ref[j]) => objs'[j][mem'.ref[j]] # "unused"
      BY <1>2, <2>2, NilIsNotSet
    <3> QED
      BY <3>2, <3>3 DEF PendingInv
  <2> QED
    BY <1>2, <2>4, <2>5, <2>6, <2>7 DEF IndInv
<1> QED
  BY <1>1, <1>5, <1>6 DEF EnsureFails

LEMMA StoreEmptyRefInv ==
  ASSUME IndInv, TypeOK', NEW o \in Outcomes, StoreEmptyRef(o) PROVE IndInv'
<1>1. /\ StoreStatus(o) /\ Fail /\ UNCHANGED <<mem, objs, install, meddle>>
      /\ fresh' => fresh
  BY DEF StoreEmptyRef, clusterVars
<1>2. pc \in {"ref", "emptyRef", "clear", "persistShoot", "error"} /\ pc # "idle"
  BY DEF StoreEmptyRef
<1> QED
  BY <1>1, <1>2, FailInv

LEMMA NameShootInv ==
  ASSUME IndInv, TypeOK', NEW s \in Shoots, NameShoot(s) PROVE IndInv'
<1>1. pc = "nameShoot" /\ cur' = cur /\ pc' \in {"ensure", "persistShoot"}
      /\ UNCHANGED <<inst, fresh, objs, install, meddle>>
  BY DEF NameShoot, Goto, clusterVars
<1>2. /\ mem'.ref = mem.ref /\ mem'.state = mem.state
      /\ mem'.dataPlane = mem.dataPlane
      /\ pc' = "ensure" => mem.shoot # NoShoot /\ mem'.shoot = mem.shoot
      /\ pc' = "persistShoot" => mem.shoot = NoShoot /\ mem'.shoot # NoShoot
  BY ShootsAssumption DEF NameShoot, Goto, IndInv, TypeOK, InstanceState
<1>3. /\ mem.ref = inst.ref /\ mem.shoot = inst.shoot /\ mem.state = "present"
      /\ mem.dataPlane = inst.dataPlane
      /\ cur = "installation" /\ inst.dataPlane = "internal"
      /\ fresh => mem.state = inst.state
      /\ \A k \in Before(cur) : IsSet(mem.ref[k])
  BY <1>1, CopyIsStored DEF Steps, IndInv, CopyInv, CreateInv, CreateSteps
<1>4. StoredInv' /\ ImportsComplete' /\ OneShoot'
  BY <1>1 DEF IndInv, StoredInv, ImportsComplete, OneShoot
<1>5. CopyInv'
  BY <1>1, <1>2, <1>3 DEF CopyInv, CreateSteps, RemoveSteps
<1>6. CreateInv'
  BY <1>1, <1>2, <1>3 DEF CreateInv, Before
<1>7. RemoveInv' /\ PendingInv'
  BY <1>1, <1>2 DEF IndInv, RemoveInv, RemoveSteps, PendingInv
<1> QED
  BY <1>4, <1>5, <1>6, <1>7 DEF IndInv

LEMMA NameShootFailsInv ==
  ASSUME IndInv, TypeOK', NameShootFails PROVE IndInv'
BY FailUnchangedInv DEF NameShootFails, clusterVars

LEMMA PersistShootInv ==
  ASSUME IndInv, TypeOK', NEW o \in Outcomes, PersistShoot(o) PROVE IndInv'
<1>1. /\ pc = "persistShoot" /\ StoreStatus(o)
      /\ UNCHANGED <<mem, objs, install, meddle>>
  BY DEF PersistShoot, clusterVars
<1>2. CASE ~Stored(o)
  <2>1. Fail /\ (fresh' => fresh)
    BY <1>2 DEF PersistShoot
  <2> QED
    BY <1>1, <2>1, FailInv
<1>3. CASE Stored(o)
  <2>1. pc' = "ensure" /\ cur' = cur /\ UNCHANGED fresh /\ fresh /\ o = "ok"
    BY <1>3 DEF PersistShoot, Stored, Goto
  <2>2. /\ inst'.state = inst.state /\ inst'.dataPlane = inst.dataPlane
        /\ inst'.ref = mem.ref /\ inst'.shoot = mem.shoot
    BY <1>1, <2>1, StoredValues
  <2>3. /\ \A k \in Before(cur) : IsSet(mem.ref[k])
        /\ cur = "installation" /\ inst.dataPlane = "internal"
        /\ mem.state = inst.state /\ mem.state = "present"
        /\ mem.dataPlane = inst.dataPlane
    BY <1>1, <2>1 DEF IndInv, CopyInv, CreateInv, CreateSteps
  <2>4. mem.shoot # NoShoot
    BY <1>1, <2>3 DEF IndInv, CreateInv, CreateSteps
  <2>5. CopyInv'
    BY <2>1, <2>2, <2>3, <1>1 DEF CopyInv, CreateSteps, RemoveSteps
  <2>6. CreateInv'
    BY <2>1, <2>2, <2>3, <2>4, <1>1 DEF CreateInv, Before
  <2>7. RemoveInv' /\ PendingInv'
    BY <2>1, <2>2, <1>1 DEF IndInv, RemoveInv, RemoveSteps, PendingInv
  <2> QED
    BY <1>1, <2>5, <2>6, <2>7, StoreStatusInv DEF IndInv
<1> QED
  BY <1>2, <1>3

LEMMA NothingToStoreInv ==
  ASSUME IndInv, TypeOK', NothingToStore PROVE IndInv'
BY FinishInv DEF NothingToStore, clusterVars, IndInv, StoredInv,
                 ImportsComplete, OneShoot

\* What the API server and others do to the owned objects: no object becomes
\* unused again, and none of an Instance that still needs them is deleted.
LEMMA ObjectsInv ==
  ASSUME IndInv, UNCHANGED inst,
         \A n \in Names : /\ install'[n].shoot = install[n].shoot
                          /\ install'[n].imports = install[n].imports,
         \A k \in Kinds, n \in Names :
           objs'[k][n] = "unused" <=> objs[k][n] = "unused",
         meddle' = 0 /\ (\/ inst.state = "present"
                         \/ inst.state = "deleting" /\ IsSet(inst.ref["installation"]))
           => \A k \in ImportKinds, n \in Names : objs'[k][n] \in {"unused", "present"}
  PROVE  StoredInv' /\ ImportsComplete' /\ OneShoot'
<1>1. StoredInv'
  <2>1. \A k \in Kinds : IsSet(inst.ref[k]) => objs'[k][inst.ref[k]] # "unused"
    BY DEF IndInv, StoredInv, IsSet
  <2>2. IsSet(inst.ref["installation"]) /\ inst.state # "gone" =>
          \A k \in Needed(inst.dataPlane) :
            /\ IsSet(inst.ref[k])
            /\ install'[inst.ref["installation"]].imports[k] = inst.ref[k]
    BY DEF IndInv, StoredInv, IsSet
  <2> QED
    BY <2>1, <2>2 DEF StoredInv
<1>2. ImportsComplete'
  BY DEF IndInv, ImportsComplete, Kinds
<1>3. OneShoot'
  BY DEF IndInv, OneShoot, Kinds
<1> QED
  BY <1>1, <1>2, <1>3

LEMMA ObjectStepInv ==
  ASSUME IndInv, TypeOK', UNCHANGED <<inst, ctrlVars>>,
         \A n \in Names : /\ install'[n].shoot = install[n].shoot
                          /\ install'[n].imports = install[n].imports,
         \A k \in Kinds, n \in Names :
           /\ objs'[k][n] = "unused" <=> objs[k][n] = "unused"
           /\ objs[k][n] = "gone" => objs'[k][n] = "gone",
         meddle' = 0 /\ (\/ inst.state = "present"
                         \/ inst.state = "deleting" /\ IsSet(inst.ref["installation"]))
           => \A k \in ImportKinds, n \in Names : objs'[k][n] \in {"unused", "present"}
  PROVE  IndInv'
<1> USE DEF ctrlVars
<1>1. StoredInv' /\ ImportsComplete' /\ OneShoot'
  BY ObjectsInv
<1>2. CopyInv'
  <2>1. \A k \in Kinds : mem.ref[k] = Nil /\ IsSet(inst.ref[k])
          /\ objs[k][inst.ref[k]] = "gone" => objs'[k][inst.ref[k]] = "gone"
    BY DEF IsSet
  <2> QED
    BY <2>1 DEF IndInv, CopyInv
<1>3. CreateInv' /\ RemoveInv'
  BY DEF IndInv, CreateInv, RemoveInv, Before
<1>4. PendingInv'
  BY DEF IndInv, PendingInv, IsSet
<1> QED
  BY <1>1, <1>2, <1>3, <1>4 DEF IndInv

LEMMA DeployInv ==
  ASSUME IndInv, TypeOK', NEW n \in Names, Deploy(n) PROVE IndInv'
<1>1. \A m \in Names : /\ install'[m].shoot = install[m].shoot
                       /\ install'[m].imports = install[m].imports
  BY DEF Deploy, IndInv, TypeOK, InstallationState
<1> QED
  BY <1>1, ObjectStepInv DEF Deploy, IndInv, StoredInv

LEMMA UninstallInv ==
  ASSUME IndInv, TypeOK', NEW n \in Names, Uninstall(n) PROVE IndInv'
<1>1. /\ UNCHANGED <<inst, ctrlVars, install, meddle>>
      /\ objs["installation"][n] = "deleting"
      /\ objs' = [objs EXCEPT !["installation"][n] = "gone"]
  BY DEF Uninstall
<1>2. \A k \in Kinds, m \in Names :
        /\ objs'[k][m] = "unused" <=> objs[k][m] = "unused"
        /\ objs[k][m] = "gone" => objs'[k][m] = "gone"
        /\ k \in ImportKinds => objs'[k][m] = objs[k][m]
  BY <1>1 DEF IndInv, TypeOK, ImportKinds
<1>3. meddle' = 0 /\ (\/ inst.state = "present"
                      \/ inst.state = "deleting" /\ IsSet(inst.ref["installation"]))
        => \A k \in ImportKinds, m \in Names : objs'[k][m] \in {"unused", "present"}
  BY <1>1, <1>2 DEF IndInv, StoredInv, Kinds
<1> QED
  BY <1>1, <1>2, <1>3, ObjectStepInv

LEMMA VanishInv ==
  ASSUME IndInv, TypeOK', NEW k \in ImportKinds, NEW n \in Names, Vanish(k, n)
  PROVE  IndInv'
<1>1. /\ UNCHANGED <<inst, ctrlVars, install, meddle>>
      /\ objs[k][n] = "deleting"
      /\ objs' = [objs EXCEPT ![k][n] = "gone"]
  BY DEF Vanish
<1>2. \A j \in Kinds, m \in Names :
        /\ objs'[j][m] = "unused" <=> objs[j][m] = "unused"
        /\ objs[j][m] = "gone" => objs'[j][m] = "gone"
  BY <1>1 DEF IndInv, TypeOK, Kinds
<1>3. ~(meddle' = 0 /\ (\/ inst.state = "present"
                        \/ inst.state = "deleting" /\ IsSet(inst.ref["installation"])))
  BY <1>1 DEF IndInv, StoredInv
<1> QED
  BY <1>1, <1>2, <1>3, ObjectStepInv

LEMMA DeletedInv ==
  ASSUME IndInv, TypeOK', NEW k \in Kinds, NEW n \in Names,
         CollectGarbage(k, n) \/ DeleteByHand(k, n)
  PROVE  IndInv'
<1>1. /\ UNCHANGED <<inst, ctrlVars, install>>
      /\ objs[k][n] = "present"
      /\ objs' = [objs EXCEPT ![k][n] = "deleting"]
      /\ inst.state = "gone" \/ meddle' # 0
  BY BoundsAssumption DEF CollectGarbage, DeleteByHand, IndInv, TypeOK
<1>2. \A j \in Kinds, m \in Names :
        /\ objs'[j][m] = "unused" <=> objs[j][m] = "unused"
        /\ objs[j][m] = "gone" => objs'[j][m] = "gone"
  BY <1>1 DEF IndInv, TypeOK
<1> QED
  BY <1>1, <1>2, ObjectStepInv

\* The steps after the removal of the object of kind k.
LEMMA GotoAfterRemovalInv ==
  ASSUME IndInv, pc \in {"remove", "clear"}, GotoAfterRemoval(cur),
         UNCHANGED mem, ~IsSet(mem.ref[cur])
  PROVE  pc' \in RemoveSteps \ {"clear", "unfinalize"} /\ RemoveInv' /\ CreateInv'
<1>1. cur \in Kinds /\ \A k \in RemovedBefore(cur) : ~IsSet(mem.ref[k])
  BY DEF IndInv, TypeOK, RemoveInv, RemoveSteps
<1>2. /\ pc' \in {"remove", "namespace", "release"}
      /\ pc' = "namespace" => cur = "installation" /\ cur' = "installation"
      /\ pc' = "release" => cur = "dataplane" /\ cur' = "dataplane"
      /\ cur = "target" => cur' = "context"
      /\ cur = "context" => cur' = "gsa"
      /\ cur = "gsa" => cur' = "dataplane"
      /\ cur = "dataplane" => cur' = "dataplane"
      /\ cur = "installation" => cur' = "installation"
  BY <1>1 DEF GotoAfterRemoval, Goto, Kinds, ImportKinds
<1>3. \A k \in RemovedBefore(cur)' : ~IsSet(mem'.ref[k])
  BY <1>1, <1>2 DEF RemovedBefore, Kinds, ImportKinds
<1>4. pc' = "release" => \A k \in Kinds : ~IsSet(mem'.ref[k])
  BY <1>1, <1>2 DEF RemovedBefore, Kinds, ImportKinds
<1> QED
  BY <1>2, <1>3, <1>4 DEF RemoveInv, CreateInv, RemoveSteps, CreateSteps

LEMMA SkipRemoveInv ==
  ASSUME IndInv, TypeOK', SkipRemove PROVE IndInv'
<1>1. /\ pc = "remove" /\ UNCHANGED <<inst, mem, fresh, objs, install, meddle>>
      /\ GotoAfterRemoval(cur) /\ ~IsSet(mem.ref[cur])
  BY DEF SkipRemove, clusterVars
<1>2. pc' \in RemoveSteps \ {"clear", "unfinalize"} /\ RemoveInv' /\ CreateInv'
  BY <1>1, GotoAfterRemovalInv
<1>3. mem.ref = inst.ref /\ mem.shoot = inst.shoot
  BY <1>1, CopyIsStored DEF Steps, IndInv, CopyInv
<1>4. CopyInv'
  BY <1>1, <1>2, <1>3 DEF IndInv, CopyInv, CreateSteps, RemoveSteps
<1>5. StoredInv' /\ ImportsComplete' /\ OneShoot' /\ PendingInv'
  BY <1>1 DEF IndInv, StoredInv, ImportsComplete, OneShoot, PendingInv
<1> QED
  BY <1>2, <1>4, <1>5 DEF IndInv

LEMMA RemoveObjectInv ==
  ASSUME IndInv, TypeOK', NEW k \in Kinds, NEW o \in Outcomes, Remove(k, o)
  PROVE  IndInv'
<1>1. /\ pc = "remove" /\ cur = k /\ IsSet(mem.ref[k])
      /\ objs[k][mem.ref[k]] # "gone" /\ UNCHANGED <<inst, install, meddle>>
      /\ \/ Finish
         \/ Fail /\ UNCHANGED <<mem, fresh>>
      /\ \/ objs' = objs
         \/ objs' = [objs EXCEPT ![k][mem.ref[k]] = "deleting"]
  BY DEF Remove
<1>2. mem.ref = inst.ref /\ mem.shoot = inst.shoot /\ mem.state = "deleting"
  BY <1>1, CopyIsStored DEF Steps, IndInv, CopyInv, CreateSteps, RemoveSteps
<1>3. objs[k][mem.ref[k]] # "unused"
  BY <1>1 DEF IndInv, PendingInv
<1>4. \A j \in Kinds, m \in Names :
        /\ objs'[j][m] = "unused" <=> objs[j][m] = "unused"
        /\ objs[j][m] = "gone" => objs'[j][m] = "gone"
        /\ j # k => objs'[j][m] = objs[j][m]
  BY <1>1, <1>3 DEF IndInv, TypeOK
<1>5. meddle' = 0 /\ (\/ inst.state = "present"
                      \/ inst.state = "deleting" /\ IsSet(inst.ref["installation"]))
        => \A j \in ImportKinds, m \in Names : objs'[j][m] \in {"unused", "present"}
  <2>1. inst.state # "present"
    BY <1>2 DEF IndInv, CopyInv
  <2>2. k # "installation" => ~IsSet(inst.ref["installation"])
    BY <1>1, <1>2 DEF IndInv, RemoveInv, RemoveSteps, RemovedBefore, Kinds, ImportKinds
  <2>3. k = "installation" => \A j \in ImportKinds : j # k /\ j \in Kinds
    BY DEF ImportKinds, Kinds
  <2> QED
    BY <1>1, <1>4, <2>1, <2>2, <2>3 DEF IndInv, StoredInv
<1>6. StoredInv' /\ ImportsComplete' /\ OneShoot'
  BY <1>1, <1>4, <1>5, ObjectsInv
<1>7. CASE Finish
  BY <1>6, <1>7, FinishInv DEF IndInv
<1>8. CASE Fail /\ UNCHANGED <<mem, fresh>>
  <2>1. pc' = "error" /\ cur' = cur
    BY <1>8 DEF Fail, Goto
  <2>2. CopyInv'
    BY <1>1, <1>2, <1>8, <2>1 DEF IndInv, CopyInv, CreateSteps, RemoveSteps
  <2>3. CreateInv' /\ RemoveInv'
    BY <2>1 DEF CreateInv, RemoveInv, CreateSteps, RemoveSteps
  <2>4. PendingInv'
    BY <1>1, <1>4, <1>8 DEF IndInv, PendingInv, IsSet
  <2> QED
    BY <1>6, <2>2, <2>3, <2>4 DEF IndInv
<1> QED
  BY <1>1, <1>7, <1>8

LEMMA RemoveNotFoundInv ==
  ASSUME IndInv, TypeOK', NEW k \in Kinds, RemoveNotFound(k) PROVE IndInv'
<1>1. /\ pc = "remove" /\ cur = k /\ IsSet(mem.ref[k]) /\ pc' = "clear" /\ cur' = k
      /\ objs[k][mem.ref[k]] = "gone" /\ UNCHANGED <<inst, fresh, objs, install, meddle>>
  BY DEF RemoveNotFound, Goto, clusterVars
<1>2. /\ mem'.ref = [mem.ref EXCEPT ![k] = Nil]
      /\ mem'.state = mem.state /\ mem'.dataPlane = mem.dataPlane
      /\ mem'.shoot = mem.shoot
      /\ mem.ref \in [Kinds -> Refs]
  BY DEF RemoveNotFound, IndInv, TypeOK, InstanceState
<1>3. mem'.ref[k] = Nil /\ \A j \in Kinds : j # k => mem'.ref[j] = mem.ref[j]
  BY <1>2
<1>4. /\ mem.ref = inst.ref /\ mem.shoot = inst.shoot /\ mem.state = "deleting"
      /\ mem.dataPlane = inst.dataPlane
  BY <1>1, CopyIsStored DEF Steps, IndInv, CopyInv, CreateSteps, RemoveSteps
<1>5. \A j \in RemovedBefore(k) : j # k /\ j \in Kinds /\ ~IsSet(mem.ref[j])
  BY <1>1 DEF IndInv, RemoveInv, RemoveSteps, RemovedBefore, Kinds, ImportKinds
<1>6. CopyInv'
  BY <1>1, <1>2, <1>3, <1>4 DEF IndInv, CopyInv, CreateSteps, RemoveSteps
<1>7. RemoveInv'
  <2>1. \A j \in RemovedBefore(cur)' : ~IsSet(mem'.ref[j])
    BY <1>1, <1>3, <1>5 DEF RemovedBefore
  <2> QED
    BY <1>1, <1>3, <2>1 DEF RemoveInv
<1>8. CreateInv'
  BY <1>1 DEF CreateInv, CreateSteps
<1>9. ~IsSet(mem'.ref["installation"])
  BY <1>3, <1>5, NilIsNotSet DEF RemovedBefore, Kinds, ImportKinds
<1>10. PendingInv'
  BY <1>1, <1>3, <1>9, NilIsNotSet DEF IndInv, PendingInv
<1>11. StoredInv' /\ ImportsComplete' /\ OneShoot'
  BY <1>1 DEF IndInv, StoredInv, ImportsComplete, OneShoot
<1> QED
  BY <1>6, <1>7, <1>8, <1>10, <1>11 DEF IndInv

LEMMA ClearRefInv ==
  ASSUME IndInv, TypeOK', NEW o \in Outcomes, ClearRef(o) PROVE IndInv'
<1>1. pc = "clear" /\ StoreStatus(o) /\ UNCHANGED <<mem, objs, install, meddle>>
  BY DEF ClearRef, clusterVars
<1>2. CASE ~Stored(o)
  <2>1. Fail /\ (fresh' => fresh)
    BY <1>2 DEF ClearRef
  <2> QED
    BY <1>1, <2>1, FailInv
<1>3. CASE Stored(o)
  <2>1. GotoAfterRemoval(cur) /\ UNCHANGED fresh /\ fresh /\ o = "ok"
    BY <1>3 DEF ClearRef, Stored
  <2>2. /\ inst'.state = inst.state /\ inst'.dataPlane = inst.dataPlane
        /\ inst'.ref = mem.ref /\ inst'.shoot = mem.shoot
    BY <1>1, <2>1, StoredValues
  <2>3. ~IsSet(mem.ref[cur])
    BY <1>1, NilIsNotSet DEF IndInv, RemoveInv, RemoveSteps
  <2>4. pc' \in RemoveSteps \ {"clear", "unfinalize"} /\ RemoveInv' /\ CreateInv'
    BY <1>1, <2>1, <2>3, GotoAfterRemovalInv
  <2>5. CopyInv'
    BY <1>1, <2>1, <2>2, <2>4 DEF IndInv, CopyInv, CreateSteps, RemoveSteps
  <2>6. PendingInv'
    BY <1>1, <2>2 DEF IndInv, PendingInv
  <2> QED
    BY <1>1, <2>4, <2>5, <2>6, StoreStatusInv DEF IndInv
<1> QED
  BY <1>2, <1>3

LEMMA RemoveNamespaceInv ==
  ASSUME IndInv, TypeOK', NEW o \in Outcomes, RemoveNamespace(o) PROVE IndInv'
<1>1. pc = "namespace" /\ UNCHANGED <<inst, objs, install, meddle>>
  BY DEF RemoveNamespace
<1>2. CASE Finish
  BY <1>1, <1>2, FinishInv DEF IndInv, StoredInv, ImportsComplete, OneShoot
<1>3. CASE Fail /\ UNCHANGED <<mem, fresh>>
  BY <1>1, <1>3, FailUnchangedInv
<1>4. CASE pc' = "remove" /\ cur' = "target" /\ UNCHANGED <<mem, fresh>>
  <2>1. /\ mem.ref = inst.ref /\ mem.shoot = inst.shoot
        /\ ~IsSet(mem.ref["installation"])
    BY <1>1, CopyIsStored DEF Steps, IndInv, CopyInv, RemoveInv, RemoveSteps
  <2>2. CopyInv'
    BY <1>1, <1>4, <2>1 DEF IndInv, CopyInv, CreateSteps, RemoveSteps
  <2>3. CreateInv' /\ RemoveInv'
    BY <1>4, <2>1 DEF CreateInv, RemoveInv, CreateSteps, RemoveSteps, RemovedBefore
  <2>4. StoredInv' /\ ImportsComplete' /\ OneShoot' /\ PendingInv'
    BY <1>1, <1>4 DEF IndInv, StoredInv, ImportsComplete, OneShoot, PendingInv
  <2> QED
    BY <2>2, <2>3, <2>4 DEF IndInv
<1> QED
  BY <1>2, <1>3, <1>4 DEF RemoveNamespace, Goto

LEMMA ReleaseInv ==
  ASSUME IndInv, TypeOK', NEW o \in Outcomes, Release(o) PROVE IndInv'
<1>1. pc = "release" /\ UNCHANGED <<inst, mem, fresh, objs, install, meddle>>
  BY DEF Release
<1>2. CASE Fail
  BY <1>1, <1>2, FailUnchangedInv
<1>3. CASE pc' = "unfinalize" /\ cur' = cur
  <2>1. mem.ref = inst.ref /\ mem.shoot = inst.shoot
    BY <1>1, CopyIsStored DEF Steps, IndInv, CopyInv
  <2>2. CopyInv'
    BY <1>1, <1>3, <2>1 DEF IndInv, CopyInv, CreateSteps, RemoveSteps
  <2>3. CreateInv' /\ RemoveInv'
    BY <1>1, <1>3 DEF IndInv, CreateInv, RemoveInv, CreateSteps, RemoveSteps, RemovedBefore
  <2>4. StoredInv' /\ ImportsComplete' /\ OneShoot' /\ PendingInv'
    BY <1>1, <1>3 DEF IndInv, StoredInv, ImportsComplete, OneShoot, PendingInv
  <2> QED
    BY <2>2, <2>3, <2>4 DEF IndInv
<1> QED
  BY <1>2, <1>3 DEF Release, Goto

LEMMA RemoveFinalizerInv ==
  ASSUME IndInv, TypeOK', NEW o \in Outcomes, RemoveFinalizer(o) PROVE IndInv'
<1>1. pc = "unfinalize" /\ UNCHANGED <<objs, install, meddle>>
  BY DEF RemoveFinalizer, clusterVars
<1>2. /\ inst'.dataPlane = inst.dataPlane /\ inst'.ref = inst.ref
      /\ inst'.shoot = inst.shoot /\ inst'.state \in {inst.state, "gone"}
      /\ inst'.state # inst.state => fresh /\ o # "fail"
  BY DEF RemoveFinalizer, IndInv, TypeOK, InstanceState
<1>3. StoredInv' /\ ImportsComplete' /\ OneShoot'
  BY <1>1, <1>2 DEF IndInv, StoredInv, ImportsComplete, OneShoot
<1>4. CASE Finish
  BY <1>3, <1>4, FinishInv DEF IndInv
<1>5. CASE Fail /\ fresh' = (fresh /\ o = "fail") /\ UNCHANGED mem
  <2>1. pc' = "error" /\ cur' = cur
    BY <1>5 DEF Fail, Goto
  <2>2. mem.ref = inst.ref /\ mem.shoot = inst.shoot
    BY <1>1, CopyIsStored DEF Steps, IndInv, CopyInv
  <2>3. CopyInv'
    BY <1>1, <1>2, <1>5, <2>1, <2>2 DEF IndInv, CopyInv, CreateSteps, RemoveSteps
  <2>4. CreateInv' /\ RemoveInv'
    BY <2>1 DEF CreateInv, RemoveInv, CreateSteps, RemoveSteps
  <2>5. PendingInv'
    BY <1>1, <1>2, <1>5 DEF IndInv, PendingInv
  <2> QED
    BY <1>3, <2>3, <2>4, <2>5 DEF IndInv
<1> QED
  BY <1>4, <1>5 DEF RemoveFinalizer

LEMMA RestartInv ==
  ASSUME IndInv, TypeOK', Restart PROVE IndInv'
BY FinishInv DEF Restart, clusterVars, IndInv, StoredInv, ImportsComplete, OneShoot

\* Another writer changes the spec, the annotation or the deletion timestamp of
\* the Instance; the copy is outdated.
LEMMA WriterInv ==
  ASSUME IndInv, TypeOK', UpdateInstance \/ DeleteInstance PROVE IndInv'
<1>1. fresh' = FALSE /\ UNCHANGED <<mem, pc, cur, objs, install, meddle>>
  BY DEF UpdateInstance, DeleteInstance, clusterVars
<1>2. /\ inst'.dataPlane = inst.dataPlane /\ inst'.ref = inst.ref
      /\ inst'.shoot = inst.shoot
      /\ inst.state = "present" \/ inst'.state = inst.state
  BY DEF UpdateInstance, DeleteInstance, IndInv, TypeOK, InstanceState
<1>3. CopyInv'
  BY <1>1, <1>2 DEF IndInv, CopyInv
<1>4. CreateInv' /\ RemoveInv' /\ PendingInv'
  BY <1>1, <1>2 DEF IndInv, CreateInv, RemoveInv, PendingInv, Before
<1>5. StoredInv' /\ ImportsComplete' /\ OneShoot'
  BY <1>1, <1>2 DEF IndInv, StoredInv, ImportsComplete, OneShoot
<1> QED
  BY <1>3, <1>4, <1>5 DEF IndInv

LEMMA UnchangedInv ==
  ASSUME IndInv, TypeOK', UNCHANGED <<inst, ctrlVars, objs, install, meddle>>
  PROVE  IndInv'
<1>1. CopyInv' /\ CreateInv' /\ RemoveInv'
  BY DEF IndInv, ctrlVars, CopyInv, CreateInv, RemoveInv, Before
<1>2. StoredInv' /\ PendingInv' /\ ImportsComplete' /\ OneShoot'
  BY DEF IndInv, ctrlVars, StoredInv, PendingInv, ImportsComplete, OneShoot
<1> QED
  BY <1>1, <1>2 DEF IndInv

\* Every step keeps the inductive invariant.
LEMMA NextInv == IndInv /\ [Next]_vars => IndInv'
<1> SUFFICES ASSUME IndInv, [Next]_vars PROVE IndInv'
  OBVIOUS
<1>1. TypeOK'
  BY NextType DEF IndInv
<1>2. CASE Reconcile
  <2>1. ASSUME NEW o \in Outcomes,
               \/ Observe(o) \/ AddFinalizer(o) \/ HandleError(o)
               \/ StoreRef(o) \/ StoreEmptyRef(o) \/ PersistShoot(o)
        PROVE  IndInv'
    BY <1>1, <2>1, ObserveInv, AddFinalizerInv, HandleErrorInv, StoreRefInv,
       StoreEmptyRefInv, PersistShootInv
  <2>2. ASSUME NEW o \in Outcomes,
               ClearRef(o) \/ RemoveNamespace(o) \/ Release(o) \/ RemoveFinalizer(o)
        PROVE  IndInv'
    BY <1>1, <2>2, ClearRefInv, RemoveNamespaceInv, ReleaseInv, RemoveFinalizerInv
  <2>3. ASSUME NEW k \in Kinds,
               \/ \E n \in Names : Ensure(k, n)
               \/ \E o \in Outcomes : EnsureFails(k, o) \/ Remove(k, o)
               \/ RemoveNotFound(k)
        PROVE  IndInv'
    BY <1>1, <2>3, EnsureInv, EnsureFailsInv, RemoveObjectInv, RemoveNotFoundInv
  <2>4. ASSUME NEW s \in Shoots, NameShoot(s) PROVE IndInv'
    BY <1>1, <2>4, NameShootInv
  <2>5. CASE StartReconcile \/ NameShootFails \/ NothingToStore \/ SkipRemove
    BY <1>1, <2>5, StartReconcileInv, NameShootFailsInv, NothingToStoreInv, SkipRemoveInv
  <2> QED
    BY <1>2, <2>1, <2>2, <2>3, <2>4, <2>5 DEF Reconcile
<1>3. CASE Landscaper
  BY <1>1, <1>3, DeployInv, UninstallInv DEF Landscaper
<1>4. CASE ApiServer
  <2>1. CASE NamespaceVanishes
    BY <1>1, <2>1, UnchangedInv DEF NamespaceVanishes
  <2> QED
    BY <1>1, <1>4, <2>1, VanishInv, DeletedInv DEF ApiServer
<1>5. CASE Others
  <2>1. CASE AutomaticReconcile \/ ListInstance
    BY <1>1, <2>1, UnchangedInv DEF AutomaticReconcile, ListInstance, clusterVars
  <2>2. CASE UpdateInstance \/ DeleteInstance
    BY <1>1, <2>2, WriterInv
  <2> QED
    BY <1>1, <1>5, <2>1, <2>2, RestartInv, DeletedInv DEF Others
<1>6. CASE UNCHANGED vars
  BY <1>1, <1>6, UnchangedInv DEF vars, ctrlVars
<1> QED
  BY <1>2, <1>3, <1>4, <1>5, <1>6 DEF Next

\* The inductive invariant holds in every reachable state.
THEOREM Inductive == Spec => []IndInv
<1>1. Init => IndInv
  BY InitInv
<1>2. IndInv /\ [Next]_vars => IndInv'
  BY NextInv
<1> QED
  BY <1>1, <1>2, PTL DEF Spec

-----------------------------------------------------------------------------
(***************************************************************************)
(* The safety properties.                                                  *)
(***************************************************************************)

\* No Installation is ever created with a missing or empty import, whichever
\* of the calls of a reconcile fail.
THEOREM ImportsAreComplete == Spec => []ImportsComplete
<1>1. IndInv => ImportsComplete
  BY DEF IndInv
<1> QED
  BY <1>1, Inductive, PTL

\* All Installations of an Instance, the orphaned ones included, ask for the
\* same shoot.
THEOREM OnlyOneShoot == Spec => []OneShoot
<1>1. IndInv => OneShoot
  BY DEF IndInv
<1> QED
  BY <1>1, Inductive, PTL

\* The objects an Installation imports outlive it.
THEOREM ImportsStayAlive == Spec => []ImportsAlive
<1>1. ASSUME IndInv PROVE ImportsAlive
  <2> SUFFICES ASSUME meddle = 0, IsSet(inst.ref["installation"]),
                      inst.state # "gone",
                      NEW k \in Needed(inst.dataPlane)
               PROVE  LET n == inst.ref["installation"]
                      IN  /\ IsSet(install[n].imports[k])
                          /\ objs[k][install[n].imports[k]] = "present"
    BY DEF ImportsAlive
  <2>1. IsSet(inst.ref[k]) /\ install[inst.ref["installation"]].imports[k] = inst.ref[k]
    BY <1>1 DEF IndInv, StoredInv
  <2>2. k \in ImportKinds /\ k \in Kinds
    BY DEF Needed, ImportKinds, Kinds
  <2>3. inst.state \in {"present", "deleting"}
    BY <1>1 DEF IndInv, TypeOK, InstanceState
  <2>4. objs[k][inst.ref[k]] # "unused"
    BY <1>1, <2>1, <2>2 DEF IndInv, StoredInv
  <2>5. objs[k][inst.ref[k]] \in {"unused", "present"}
    BY <1>1, <2>1, <2>2, <2>3 DEF IndInv, StoredInv, IsSet
  <2> QED
    BY <2>1, <2>4, <2>5
<1> QED
  BY <1>1, Inductive, PTL

\* A stored reference is only ever replaced by none, and only when the object
\* it names is gone.
THEOREM ReferencesAreStable == Spec => RefStability
<1> DEFINE Keeps == \A k \in Kinds :
                      IsSet(inst.ref[k]) /\ inst'.ref[k] # inst.ref[k] =>
                        inst'.ref[k] = Nil /\ objs[k][inst.ref[k]] = "gone"
<1>1. ASSUME IndInv, [Next]_vars PROVE Keeps
  <2>1. CASE inst'.ref = inst.ref
    BY <2>1
  <2>2. ASSUME NEW o \in Outcomes, StoreStatus(o), pc # "idle" PROVE Keeps
    <3>1. inst'.ref = inst.ref \/ inst'.ref = mem.ref
      BY <1>1, <2>2, StoredValues
    <3>2. \A k \in Kinds : mem.ref[k] # inst.ref[k] /\ IsSet(inst.ref[k]) =>
            mem.ref[k] = Nil /\ objs[k][inst.ref[k]] = "gone"
      BY <1>1, <2>2 DEF IndInv, CopyInv
    <3> QED
      BY <3>1, <3>2
  <2>3. \/ inst'.ref = inst.ref
        \/ \E o \in Outcomes : StoreStatus(o) /\ pc # "idle"
    <3>1. CASE \E o \in Outcomes :
                 \/ Observe(o) \/ HandleError(o) \/ StoreRef(o) \/ StoreEmptyRef(o)
                 \/ PersistShoot(o) \/ ClearRef(o)
      BY <3>1 DEF Observe, HandleError, StoreRef, StoreEmptyRef, PersistShoot, ClearRef
    <3>2. CASE \E o \in Outcomes : AddFinalizer(o) \/ RemoveFinalizer(o)
      BY <1>1, <3>2 DEF AddFinalizer, RemoveFinalizer, IndInv, TypeOK, InstanceState
    <3>3. CASE UpdateInstance \/ DeleteInstance
      BY <1>1, <3>3 DEF UpdateInstance, DeleteInstance, IndInv, TypeOK, InstanceState
    <3>4. CASE UNCHANGED inst
      BY <3>4
    <3> QED
      BY <1>1, <3>1, <3>2, <3>3, <3>4 DEF Next, Reconcile, Landscaper, ApiServer,
         Others, StartReconcile, RemoveNamespace, Release, Ensure, EnsureFails,
         Remove, RemoveNotFound, NameShoot, NameShootFails, NothingToStore,
         SkipRemove, Deploy, Uninstall, NamespaceVanishes, Vanish, CollectGarbage,
         Restart, AutomaticReconcile, ListInstance, DeleteByHand, vars
  <2> QED
    BY <2>1, <2>2, <2>3
<1>2. ASSUME IndInv, [Next]_vars PROVE [Keeps]_vars
  BY <1>1, <1>2
<1> QED
  BY <1>2, Inductive, PTL DEF Spec, RefStability

-----------------------------------------------------------------------------
(***************************************************************************)
(* The refinement.  Whatever comes between the calls of a reconcile, each  *)
(* of them does to the stored Instance what its life allows at that point, *)
(* or nothing.                                                             *)
(*                                                                         *)
(* What a call may write depends on what the controller took the Instance  *)
(* for when the reconcile began.  LifeInv says which of that is still true *)
(* when the call is made, or makes no difference because the API server    *)
(* refuses the write.                                                      *)
(***************************************************************************)
\* The copy in use is not missing a finalizer, and a removing reconcile has
\* a deleted Instance; a reference that the copy has lost and the stored
\* Instance has not is one that such a reconcile has taken out in order.
LifeInv ==
  /\ fresh => mem.finalizer = inst.finalizer
  /\ pc = "finalizer" => mem.state = "present"
  /\ pc \in CreateSteps \cup {"error"} /\ mem.state = "present" => mem.finalizer
  /\ pc \in RemoveSteps => inst.state = "deleting"
  /\ pc # "idle" =>
       \A k \in Kinds : mem.ref[k] = Nil /\ IsSet(inst.ref[k]) =>
         /\ mem.state = "deleting"
         /\ k # "installation" => ~IsSet(mem.ref["installation"])

-----------------------------------------------------------------------------
(***************************************************************************)
(* The invariant.                                                          *)
(***************************************************************************)

\* Nothing is said about an idle controller.
LEMMA FinishLife == ASSUME Finish PROVE LifeInv'
BY DEF Finish, Goto, LifeInv, CreateSteps, RemoveSteps

LEMMA InitLife == Init => LifeInv
BY DEF Init, LifeInv, CreateSteps, RemoveSteps

\* A reconcile begins with a copy that agrees with the stored Instance.
LEMMA DispatchLife ==
  ASSUME NEW m, Dispatch(m), m.state = inst'.state, m.ref = inst'.ref,
         m.finalizer = inst'.finalizer
  PROVE  LifeInv'
<1>1. CASE Finish
  BY <1>1, FinishLife
<1>2. CASE ~Finish
  <2>1. /\ mem' = m /\ pc' \in {"finalizer", "remove", "ensure"}
        /\ pc' = "remove" => m.state = "deleting"
        /\ pc' # "remove" => m.state = "present"
        /\ pc' = "ensure" => m.finalizer
    BY <1>2 DEF Dispatch, Goto
  <2> QED
    BY <2>1, NilIsNotSet DEF LifeInv, CreateSteps, RemoveSteps
<1> QED
  BY <1>1, <1>2

\* What a status update leaves as it is, and what it can make of a reference.
LEMMA StoreStatusEffect ==
  ASSUME IndInv, NEW o \in Outcomes, StoreStatus(o)
  PROVE  /\ inst'.state = inst.state /\ inst'.finalizer = inst.finalizer
         /\ inst'.dataPlane = inst.dataPlane
         /\ inst'.ref = inst.ref \/ (fresh /\ inst'.ref = mem.ref)
BY DEF StoreStatus, IndInv, TypeOK, InstanceState

\* A status update inside a reconcile, after which it goes on or fails.
LEMMA StoreStatusLife ==
  ASSUME IndInv, LifeInv, NEW o \in Outcomes, StoreStatus(o), UNCHANGED mem,
         fresh' => fresh, pc \in CreateSteps \cup RemoveSteps,
         \/ pc' = "error"
         \/ pc \in CreateSteps /\ pc' \in CreateSteps
         \/ pc \in RemoveSteps /\ pc' \in RemoveSteps
  PROVE  LifeInv'
<1>1. /\ inst'.state = inst.state /\ inst'.finalizer = inst.finalizer
      /\ inst'.ref = inst.ref \/ inst'.ref = mem.ref
  BY StoreStatusEffect
<1>2. pc # "idle" /\ pc' # "idle" /\ pc' # "finalizer"
  BY DEF CreateSteps, RemoveSteps
<1>3. pc \in CreateSteps => mem.state = "present"
  BY DEF IndInv, CopyInv
<1>4. pc \in RemoveSteps => mem.state = "deleting"
  BY DEF IndInv, CopyInv
<1>5. pc' \in CreateSteps \cup {"error"} /\ mem.state = "present" => mem.finalizer
  BY <1>4 DEF LifeInv, CreateSteps, RemoveSteps
<1>6. \A k \in Kinds : mem.ref[k] = Nil /\ IsSet(inst'.ref[k]) =>
         /\ mem.state = "deleting"
         /\ k # "installation" => ~IsSet(mem.ref["installation"])
  BY <1>1, <1>2, NilIsNotSet DEF LifeInv
<1>7. pc' \in RemoveSteps => inst'.state = "deleting"
  BY <1>1 DEF LifeInv, CreateSteps, RemoveSteps
<1> QED
  BY <1>1, <1>2, <1>5, <1>6, <1>7 DEF LifeInv

\* A step inside a reconcile that writes nothing into the Instance.
LEMMA CallLife ==
  ASSUME IndInv, LifeInv, UNCHANGED inst, fresh' => fresh,
         pc \in CreateSteps \cup RemoveSteps,
         mem'.state = mem.state, mem'.finalizer = mem.finalizer,
         \A k \in Kinds : mem'.ref[k] = mem.ref[k] \/ mem'.ref[k] # Nil,
         IsSet(mem'.ref["installation"]) =>
           IsSet(mem.ref["installation"]) \/ pc \in CreateSteps,
         \/ pc' = "error"
         \/ pc \in CreateSteps /\ pc' \in CreateSteps
         \/ pc \in RemoveSteps /\ pc' \in RemoveSteps
  PROVE  LifeInv'
<1>1. pc # "idle" /\ pc' # "idle" /\ pc' # "finalizer"
  BY DEF CreateSteps, RemoveSteps
<1>2. /\ pc \in CreateSteps => mem.state = "present"
      /\ pc \in RemoveSteps => mem.state = "deleting"
  BY DEF IndInv, CopyInv
<1>3. pc' \in CreateSteps \cup {"error"} /\ mem.state = "present" => mem.finalizer
  BY <1>2 DEF LifeInv
<1>4. \A k \in Kinds : mem'.ref[k] = Nil /\ IsSet(inst.ref[k]) =>
         /\ mem.state = "deleting"
         /\ k # "installation" => ~IsSet(mem'.ref["installation"])
  BY <1>1, <1>2 DEF LifeInv
<1>5. pc' \in RemoveSteps => inst.state = "deleting"
  BY DEF LifeInv, CreateSteps, RemoveSteps
<1> QED
  BY <1>1, <1>3, <1>4, <1>5 DEF LifeInv

\* An idle controller stays idle, or a step of others leaves alone what the
\* invariant is about.
LEMMA OthersLife ==
  ASSUME IndInv, LifeInv, UNCHANGED <<inst, ctrlVars>> PROVE LifeInv'
BY DEF LifeInv, ctrlVars, IsSet

\* The steps of a reconcile that write the status.
LEMMA StoringLife ==
  ASSUME IndInv, LifeInv, NEW o \in Outcomes,
         \/ Observe(o) \/ HandleError(o) \/ StoreRef(o) \/ StoreEmptyRef(o)
         \/ PersistShoot(o) \/ ClearRef(o)
  PROVE  LifeInv'
<1> USE DEF Goto, Fail
<1>1. CASE Observe(o)
  <2>1. CASE Finish
    BY <2>1, FinishLife
  <2>2. CASE Stored(o) /\ Dispatch(mem)
    <3>1. pc = "observe" /\ StoreStatus(o) /\ fresh
      BY <1>1, <2>2 DEF Observe, Stored
    <3>2. mem.ref = inst.ref /\ mem.state = inst.state /\ mem.finalizer = inst.finalizer
      BY <3>1, CopyIsStored DEF Steps, IndInv, CopyInv, LifeInv
    <3> QED
      BY <2>2, <3>1, <3>2, StoreStatusEffect, DispatchLife
  <2> QED
    BY <1>1, <2>1, <2>2 DEF Observe
<1>2. CASE HandleError(o)
  BY <1>2, FinishLife DEF HandleError
<1>3. CASE StoreRef(o)
  <2>1. CASE Finish
    BY <2>1, FinishLife
  <2>2. CASE pc' = "error" /\ UNCHANGED mem /\ fresh' = (fresh /\ o = "fail")
    <3>1. fresh' => fresh
      BY <2>2
    <3> QED
      BY <1>3, <2>2, <3>1, StoreStatusLife DEF StoreRef, CreateSteps
  <2>3. CASE cur # "installation" /\ GotoAfter(cur) /\ UNCHANGED <<fresh, mem>>
    <3>1. cur \in ImportKinds
      BY <2>3 DEF IndInv, TypeOK, Kinds
    <3>2. pc' \in CreateSteps
      BY <2>3, <3>1 DEF GotoAfter, ImportKinds, CreateSteps
    <3> QED
      BY <1>3, <2>3, <3>2, StoreStatusLife DEF StoreRef, CreateSteps
  <2> QED
    BY <1>3, <2>1, <2>2, <2>3 DEF StoreRef
<1>4. CASE StoreEmptyRef(o)
  BY <1>4, StoreStatusLife DEF StoreEmptyRef, CreateSteps
<1>5. CASE PersistShoot(o)
  <2>1. /\ pc = "persistShoot" /\ StoreStatus(o) /\ UNCHANGED mem
        /\ pc' \in {"ensure", "error"}
    BY <1>5 DEF PersistShoot
  <2>2. fresh' => fresh
    BY <1>5 DEF PersistShoot
  <2> QED
    BY <2>1, <2>2, StoreStatusLife DEF CreateSteps
<1>6. CASE ClearRef(o)
  <2>1. CASE pc' = "error"
    <3>1. fresh' => fresh
      BY <1>6 DEF ClearRef
    <3>2. pc = "clear" /\ StoreStatus(o) /\ UNCHANGED mem
      BY <1>6 DEF ClearRef
    <3> QED
      BY <2>1, <3>1, <3>2, StoreStatusLife DEF RemoveSteps
  <2>2. CASE GotoAfterRemoval(cur) /\ UNCHANGED fresh
    <3>1. pc' \in RemoveSteps
      BY <2>2 DEF GotoAfterRemoval, RemoveSteps, IndInv, TypeOK, Kinds, ImportKinds
    <3> QED
      BY <1>6, <2>2, <3>1, StoreStatusLife DEF ClearRef, RemoveSteps
  <2> QED
    BY <1>6, <2>1, <2>2 DEF ClearRef
<1> QED
  BY <1>1, <1>2, <1>3, <1>4, <1>5, <1>6

\* The steps of a creating reconcile that write nothing into the Instance.
LEMMA CreatingLife ==
  ASSUME IndInv, LifeInv,
         \/ \E k \in Kinds, n \in Names : Ensure(k, n)
         \/ \E k \in Kinds, o \in Outcomes : EnsureFails(k, o)
         \/ \E s \in Shoots : NameShoot(s)
         \/ NameShootFails \/ NothingToStore
  PROVE  LifeInv'
<1> USE DEF Goto, Fail
<1>1. ASSUME NEW k \in Kinds, NEW n \in Names, Ensure(k, n) PROVE LifeInv'
  <2>1. pc' \in CreateSteps
    BY <1>1 DEF Ensure, GotoAfter, CreateSteps, Kinds, ImportKinds
  <2>2. /\ mem'.state = mem.state /\ mem'.finalizer = mem.finalizer
        /\ \A j \in Kinds : mem'.ref[j] = IF j = k THEN n ELSE mem.ref[j]
    BY <1>1 DEF Ensure, IndInv, TypeOK, InstanceState
  <2>3. n # Nil
    BY DEF Names, Nil
  <2> QED
    BY <1>1, <2>1, <2>2, <2>3, CallLife DEF Ensure, CreateSteps
<1>2. ASSUME NEW k \in Kinds, NEW o \in Outcomes, EnsureFails(k, o) PROVE LifeInv'
  <2>1. pc = "ensure" /\ pc' \in {"emptyRef", "error"} /\ UNCHANGED <<inst, fresh>>
    BY <1>2 DEF EnsureFails
  <2>2. mem' = mem \/ mem' = [mem EXCEPT !.ref[k] = EmptyName]
    BY <1>2 DEF EnsureFails
  <2>3. /\ mem'.state = mem.state /\ mem'.finalizer = mem.finalizer
        /\ \A j \in Kinds : mem'.ref[j] = mem.ref[j] \/ mem'.ref[j] = EmptyName
    BY <2>2 DEF IndInv, TypeOK, InstanceState
  <2>4. EmptyName # Nil
    BY DEF EmptyName, Nil
  <2> QED
    BY <2>1, <2>3, <2>4, CallLife DEF CreateSteps
<1>3. ASSUME NEW s \in Shoots, NameShoot(s) PROVE LifeInv'
  <2>1. /\ mem'.state = mem.state /\ mem'.finalizer = mem.finalizer
        /\ mem'.ref = mem.ref
    BY <1>3 DEF NameShoot, IndInv, TypeOK, InstanceState
  <2> QED
    BY <1>3, <2>1, CallLife DEF NameShoot, CreateSteps
<1>4. CASE NameShootFails
  BY <1>4, CallLife DEF NameShootFails, CreateSteps
<1>5. CASE NothingToStore
  BY <1>5, FinishLife DEF NothingToStore
<1> QED
  BY <1>1, <1>2, <1>3, <1>4, <1>5

\* The steps of a removing reconcile that write nothing into the status.
LEMMA RemovingLife ==
  ASSUME IndInv, LifeInv,
         \/ SkipRemove
         \/ \E k \in Kinds : RemoveNotFound(k) \/ \E o \in Outcomes : Remove(k, o)
         \/ \E o \in Outcomes : RemoveNamespace(o) \/ Release(o) \/ RemoveFinalizer(o)
  PROVE  LifeInv'
<1> USE DEF Goto, Fail
<1>1. CASE SkipRemove
  <2>1. pc' \in RemoveSteps
    BY <1>1 DEF SkipRemove, GotoAfterRemoval, RemoveSteps, IndInv, TypeOK, Kinds, ImportKinds
  <2> QED
    BY <1>1, <2>1, CallLife DEF SkipRemove, RemoveSteps
<1>2. ASSUME NEW k \in Kinds, RemoveNotFound(k) PROVE LifeInv'
  <2>1. /\ pc = "remove" /\ cur = k /\ pc' = "clear" /\ UNCHANGED <<inst, fresh>>
        /\ mem' = [mem EXCEPT !.ref[k] = Nil]
    BY <1>2 DEF RemoveNotFound
  <2>2. /\ mem'.state = mem.state /\ mem'.finalizer = mem.finalizer
        /\ \A j \in Kinds : mem'.ref[j] = IF j = k THEN Nil ELSE mem.ref[j]
    BY <2>1 DEF IndInv, TypeOK, InstanceState
  <2>3. mem.state = "deleting" /\ inst.state = "deleting"
    BY <2>1 DEF IndInv, CopyInv, LifeInv, RemoveSteps
  <2>4. k # "installation" => ~IsSet(mem.ref["installation"])
    BY <2>1 DEF IndInv, RemoveInv, RemoveSteps, RemovedBefore, Kinds, ImportKinds
  <2>5. \A j \in Kinds :
          mem'.ref[j] = Nil /\ IsSet(inst.ref[j]) /\ j # "installation" =>
            ~IsSet(mem'.ref["installation"])
    BY <2>1, <2>2, <2>4, NilIsNotSet DEF LifeInv, Kinds
  <2> QED
    BY <2>1, <2>2, <2>3, <2>5 DEF LifeInv, CreateSteps
<1>3. ASSUME NEW k \in Kinds, NEW o \in Outcomes, Remove(k, o) PROVE LifeInv'
  <2>1. CASE Finish
    BY <2>1, FinishLife
  <2>2. CASE Fail /\ UNCHANGED <<mem, fresh>>
    BY <1>3, <2>2, CallLife DEF Remove, RemoveSteps
  <2> QED
    BY <1>3, <2>1, <2>2 DEF Remove
<1>4. ASSUME NEW o \in Outcomes, RemoveNamespace(o) PROVE LifeInv'
  <2>1. CASE Finish
    BY <2>1, FinishLife
  <2>2. CASE pc' \in {"error", "remove"} /\ UNCHANGED <<mem, fresh>>
    BY <1>4, <2>2, CallLife DEF RemoveNamespace, RemoveSteps
  <2> QED
    BY <1>4, <2>1, <2>2 DEF RemoveNamespace
<1>5. ASSUME NEW o \in Outcomes, Release(o) PROVE LifeInv'
  BY <1>5, CallLife DEF Release, RemoveSteps
<1>6. ASSUME NEW o \in Outcomes, RemoveFinalizer(o) PROVE LifeInv'
  <2>1. CASE Finish
    BY <2>1, FinishLife
  <2>2. CASE Fail /\ fresh' = (fresh /\ o = "fail") /\ UNCHANGED mem
    <3>1. mem.state = "deleting"
      BY <1>6 DEF RemoveFinalizer, IndInv, CopyInv, RemoveSteps
    <3>2. inst'.ref = inst.ref /\ (fresh' => inst' = inst)
      BY <1>6, <2>2 DEF RemoveFinalizer, IndInv, TypeOK, InstanceState
    <3>3. pc = "unfinalize" /\ pc' = "error"
      BY <1>6, <2>2 DEF RemoveFinalizer
    <3> QED
      BY <2>2, <3>1, <3>2, <3>3 DEF LifeInv, RemoveSteps
  <2> QED
    BY <1>6, <2>1, <2>2 DEF RemoveFinalizer, Stored
<1> QED
  BY <1>1, <1>2, <1>3, <1>4, <1>5, <1>6

\* Other writers of the Instance make the copy outdated.
LEMMA WriterLife ==
  ASSUME IndInv, LifeInv, UpdateInstance \/ DeleteInstance PROVE LifeInv'
<1>1. /\ fresh' = FALSE /\ UNCHANGED <<mem, pc>>
      /\ inst'.ref = inst.ref /\ (inst.state = "deleting" => inst'.state = inst.state)
  BY DEF UpdateInstance, DeleteInstance, IndInv, TypeOK, InstanceState
<1> QED
  BY <1>1 DEF LifeInv

\* A reconcile takes up the Instance.
LEMMA StartLife == ASSUME IndInv, LifeInv, StartReconcile PROVE LifeInv'
<1> USE DEF Goto
<1>1. CASE UNCHANGED ctrlVars
  BY <1>1, OthersLife DEF StartReconcile
<1>2. CASE Dispatch(inst)
  BY <1>2, DispatchLife DEF StartReconcile
<1>3. CASE /\ pc' = "observe" /\ mem' = [inst EXCEPT !.observed = inst.spec]
           /\ UNCHANGED inst
  <2>1. mem'.finalizer = inst.finalizer /\ mem'.ref = inst.ref
    BY <1>3 DEF IndInv, TypeOK, InstanceState
  <2> QED
    BY <1>3, <2>1, NilIsNotSet DEF LifeInv, CreateSteps, RemoveSteps
<1> QED
  BY <1>1, <1>2, <1>3 DEF StartReconcile

LEMMA NextLife == ASSUME IndInv, LifeInv, [Next]_vars PROVE LifeInv'
<1>1. CASE Reconcile
  <2>1. ASSUME NEW o \in Outcomes, AddFinalizer(o) PROVE LifeInv'
    BY <2>1, FinishLife DEF AddFinalizer
  <2> QED
    BY <1>1, <2>1, StartLife, StoringLife, CreatingLife, RemovingLife DEF Reconcile
<1>2. CASE UpdateInstance \/ DeleteInstance
  BY <1>2, WriterLife
<1>3. CASE Restart
  BY <1>3, FinishLife DEF Restart
<1>4. CASE UNCHANGED <<inst, ctrlVars>>
  BY <1>4, OthersLife
<1> QED
  BY <1>1, <1>2, <1>3, <1>4 DEF Next, Landscaper, ApiServer, Others, Deploy,
     Uninstall, NamespaceVanishes, Vanish, CollectGarbage, AutomaticReconcile,
     ListInstance, DeleteByHand, vars, ctrlVars

-----------------------------------------------------------------------------
(***************************************************************************)
(* The refinement.                                                         *)
(***************************************************************************)

LEMMA InitSimulated == Init => Lifecycle!Init
<1> SUFFICES ASSUME Init PROVE Lifecycle!Init
  OBVIOUS
<1>1. PICK d \in DataPlanes : inst = NewInstance(d)
  BY DEF Init
<1>2. inst.state = "present" /\ inst.finalizer = FALSE /\ inst.dataPlane = d
  BY <1>1 DEF NewInstance
<1>3. {k \in Kinds : IsSet(inst.ref[k])} = {}
  BY <1>1, NilIsNotSet DEF NewInstance
<1>4. Needed(inst.dataPlane) \in SUBSET (Kinds \ {"installation"})
  BY DEF Needed, Kinds, ImportKinds
<1>5. listed = FALSE /\ (pc = "unfinalize") = FALSE
  BY DEF Init
<1> QED
  BY <1>2, <1>3, <1>4, <1>5 DEF Lifecycle!Init

\* What the lifecycle does not see.
LEMMA Unseen ==
  ASSUME inst'.state = inst.state, inst'.finalizer = inst.finalizer,
         inst'.dataPlane = inst.dataPlane, UNCHANGED listed,
         {k \in Kinds : IsSet(inst'.ref[k])} = {k \in Kinds : IsSet(inst.ref[k])},
         (pc' = "unfinalize") = (pc = "unfinalize")
  PROVE  UNCHANGED Lifecycle!vars
BY DEF Lifecycle!vars

\* A status update acquires or gives up the object that the reconcile is about.
LEMMA StoreStatusSimulated ==
  ASSUME IndInv, LifeInv, NEW o \in Outcomes, StoreStatus(o), UNCHANGED listed,
         pc \notin {"idle", "unfinalize"}, pc' # "unfinalize"
  PROVE  [Lifecycle!Next]_(Lifecycle!vars)
<1> DEFINE Held == {k \in Kinds : IsSet(inst.ref[k])}
           Pending == {k \in Kinds : IsSet(mem.ref[k])}
<1>1. /\ inst'.state = inst.state /\ inst'.finalizer = inst.finalizer
      /\ inst'.dataPlane = inst.dataPlane
      /\ inst'.ref = inst.ref \/ (fresh /\ inst'.ref = mem.ref)
  BY StoreStatusEffect
<1>2. (pc' = "unfinalize") = FALSE /\ (pc = "unfinalize") = FALSE
  OBVIOUS
<1>3. cur \in Kinds
  BY DEF IndInv, TypeOK
<1>4. \A k \in Kinds : k # cur => mem.ref[k] = inst.ref[k]
  BY DEF IndInv, CopyInv
<1>5. CASE inst'.ref = inst.ref \/ mem.ref[cur] = inst.ref[cur]
  <2>1. {k \in Kinds : IsSet(inst'.ref[k])} = Held
    BY <1>1, <1>4, <1>5
  <2> QED
    BY <1>1, <1>2, <2>1, Unseen
<1>6. CASE /\ fresh /\ inst'.ref = mem.ref
           /\ IsSet(mem.ref[cur]) /\ ~IsSet(inst.ref[cur]) /\ mem.state = "present"
  <2>1. {k \in Kinds : IsSet(inst'.ref[k])} = Held \cup {cur}
    BY <1>3, <1>4, <1>6
  <2>2. pc \in {"ref", "emptyRef", "clear", "error"}
    BY <1>3, <1>6 DEF IndInv, CopyInv
  <2>3. pc # "clear"
    BY <1>6 DEF IndInv, CopyInv, RemoveSteps
  <2>4. inst.state = "present" /\ inst.finalizer
    BY <1>6, <2>2, <2>3 DEF IndInv, CopyInv, LifeInv, CreateSteps
  <2>5. cur = "installation" => Needed(inst.dataPlane) \subseteq Held
    BY <1>4, <1>6 DEF IndInv, PendingInv, Needed, Kinds, ImportKinds
  <2>6. Lifecycle!Acquire(cur)
    BY <1>1, <1>2, <2>1, <2>4, <2>5 DEF Lifecycle!Acquire
  <2> QED
    BY <1>3, <2>6 DEF Lifecycle!Next
<1>7. CASE /\ fresh /\ inst'.ref = mem.ref
           /\ mem.ref[cur] = EmptyName /\ ~IsSet(inst.ref[cur])
  <2>1. {k \in Kinds : IsSet(inst'.ref[k])} = Held
    BY <1>4, <1>7, NilIsNotSet
  <2> QED
    BY <1>1, <1>2, <2>1, Unseen
<1>8. CASE /\ fresh /\ inst'.ref = mem.ref
           /\ mem.ref[cur] = Nil /\ IsSet(inst.ref[cur])
  <2>1. {k \in Kinds : IsSet(inst'.ref[k])} = Held \ {cur}
    BY <1>3, <1>4, <1>8, NilIsNotSet
  <2>2. /\ mem.state = "deleting"
        /\ cur # "installation" => ~IsSet(mem.ref["installation"])
    BY <1>3, <1>8 DEF LifeInv
  <2>3. inst.state = "deleting"
    BY <1>8, <2>2 DEF IndInv, CopyInv
  <2>4. cur # "installation" => "installation" \notin Held
    BY <1>4, <2>2 DEF Kinds
  <2>5. Lifecycle!GiveUp(cur)
    BY <1>1, <1>2, <2>1, <2>3, <2>4 DEF Lifecycle!GiveUp
  <2> QED
    BY <1>3, <2>5 DEF Lifecycle!Next
<1> QED
  BY <1>1, <1>3, <1>5, <1>6, <1>7, <1>8 DEF IndInv, CopyInv

\* The list and the finalizer are left in this order.
LEMMA EndSimulated ==
  ASSUME IndInv, LifeInv, NEW o \in Outcomes, Release(o) \/ RemoveFinalizer(o)
  PROVE  [Lifecycle!Next]_(Lifecycle!vars)
<1> USE DEF Goto, Fail
<1>1. inst.state = "deleting"
  BY DEF LifeInv, RemoveSteps, Release, RemoveFinalizer
<1>2. CASE Release(o)
  <2>1. pc = "release" /\ mem.ref = inst.ref
    BY <1>2, CopyIsStored DEF Release, Steps
  <2>2. {k \in Kinds : IsSet(inst.ref[k])} = {}
    BY <2>1 DEF IndInv, RemoveInv, RemoveSteps
  <2>3. UNCHANGED inst
    BY <1>2 DEF Release
  <2>4. CASE o = "fail"
    <3>1. listed' = listed /\ pc' = "error"
      BY <1>2, <2>4 DEF Release, IndInv, TypeOK
    <3> QED
      BY <2>1, <2>3, <3>1, Unseen
  <2>5. CASE o # "fail"
    <3>1. listed' = FALSE /\ (pc' = "unfinalize") \in BOOLEAN
      BY <1>2, <2>5 DEF Release
    <3>2. Lifecycle!Release
      BY <1>1, <2>2, <2>3, <3>1 DEF Lifecycle!Release
    <3> QED
      BY <3>2 DEF Lifecycle!Next
  <2> QED
    BY <2>4, <2>5
<1>3. CASE RemoveFinalizer(o)
  <2>1. pc = "unfinalize" /\ pc' # "unfinalize" /\ UNCHANGED listed
    BY <1>3 DEF RemoveFinalizer, Finish, clusterVars
  <2>2. (pc = "unfinalize") = TRUE /\ (pc' = "unfinalize") = FALSE
    BY <2>1
  <2>3. CASE UNCHANGED inst
    <3>1. Lifecycle!Retreat
      BY <2>1, <2>2, <2>3 DEF Lifecycle!Retreat
    <3> QED
      BY <3>1 DEF Lifecycle!Next
  <2>4. CASE inst' = [inst EXCEPT !.finalizer = FALSE, !.state = "gone"]
    <3>1. /\ inst'.state = "gone" /\ inst'.finalizer = FALSE
          /\ inst'.ref = inst.ref /\ inst'.dataPlane = inst.dataPlane
      BY <2>4 DEF IndInv, TypeOK, InstanceState
    <3>2. Lifecycle!Leave
      BY <1>1, <2>1, <2>2, <3>1 DEF Lifecycle!Leave
    <3> QED
      BY <3>2 DEF Lifecycle!Next
  <2> QED
    BY <1>3, <2>3, <2>4 DEF RemoveFinalizer
<1> QED
  BY <1>2, <1>3

\* The finalizer is added, and others delete or list the Instance.
LEMMA WritesSimulated ==
  ASSUME IndInv, LifeInv,
         \/ \E o \in Outcomes : AddFinalizer(o)
         \/ UpdateInstance \/ DeleteInstance \/ ListInstance \/ Restart
  PROVE  [Lifecycle!Next]_(Lifecycle!vars)
<1> USE DEF Goto
<1>1. ASSUME NEW o \in Outcomes, AddFinalizer(o) PROVE [Lifecycle!Next]_(Lifecycle!vars)
  <2>1. /\ (pc = "unfinalize") = FALSE /\ (pc' = "unfinalize") = FALSE
        /\ UNCHANGED listed
    BY <1>1 DEF AddFinalizer, Finish, clusterVars
  <2>2. CASE UNCHANGED inst
    BY <2>1, <2>2, Unseen
  <2>3. CASE fresh /\ inst' = [inst EXCEPT !.finalizer = TRUE]
    <3>1. /\ inst'.state = inst.state /\ inst'.finalizer = TRUE
          /\ inst'.ref = inst.ref /\ inst'.dataPlane = inst.dataPlane
      BY <2>3 DEF IndInv, TypeOK, InstanceState
    <3>2. inst.state = "present"
      BY <1>1, <2>3 DEF AddFinalizer, LifeInv, IndInv, CopyInv
    <3>3. Lifecycle!Protect
      BY <2>1, <3>1, <3>2 DEF Lifecycle!Protect
    <3> QED
      BY <3>3 DEF Lifecycle!Next
  <2> QED
    BY <1>1, <2>2, <2>3 DEF AddFinalizer
<1>2. CASE UpdateInstance
  <2>1. /\ inst'.state = inst.state /\ inst'.finalizer = inst.finalizer
        /\ inst'.ref = inst.ref /\ inst'.dataPlane = inst.dataPlane
        /\ UNCHANGED <<listed, pc>>
    BY <1>2 DEF UpdateInstance, clusterVars, IndInv, TypeOK, InstanceState
  <2> QED
    BY <2>1, Unseen
<1>3. CASE DeleteInstance
  <2>1. /\ inst.state = "present"
        /\ inst'.state = (IF inst.finalizer THEN "deleting" ELSE "gone")
        /\ inst'.ref = inst.ref /\ inst'.dataPlane = inst.dataPlane
        /\ inst'.finalizer = inst.finalizer /\ UNCHANGED <<listed, pc>>
    BY <1>3 DEF DeleteInstance, clusterVars, IndInv, TypeOK, InstanceState
  <2>2. Lifecycle!Delete
    BY <2>1 DEF Lifecycle!Delete
  <2> QED
    BY <2>2 DEF Lifecycle!Next
<1>4. CASE ListInstance
  <2>1. Lifecycle!Enlist
    BY <1>4 DEF ListInstance, ctrlVars, Lifecycle!Enlist
  <2> QED
    BY <2>1 DEF Lifecycle!Next
<1>5. CASE Restart
  <2>1. UNCHANGED <<inst, listed>> /\ (pc' = "unfinalize") = FALSE
    BY <1>5 DEF Restart, Finish, clusterVars
  <2>2. CASE pc = "unfinalize"
    <3>1. Lifecycle!Retreat
      BY <2>1, <2>2 DEF Lifecycle!Retreat
    <3> QED
      BY <3>1 DEF Lifecycle!Next
  <2>3. CASE pc # "unfinalize"
    BY <2>1, <2>3, Unseen
  <2> QED
    BY <2>2, <2>3
<1> QED
  BY <1>1, <1>2, <1>3, <1>4, <1>5

\* Every other step is not seen.
LEMMA StepSimulated ==
  ASSUME IndInv, LifeInv, [Next]_vars PROVE [Lifecycle!Next]_(Lifecycle!vars)
<1> USE DEF Goto, Fail
<1>1. ASSUME NEW o \in Outcomes,
             \/ Observe(o) \/ HandleError(o) \/ StoreRef(o) \/ StoreEmptyRef(o)
             \/ PersistShoot(o) \/ ClearRef(o)
      PROVE  [Lifecycle!Next]_(Lifecycle!vars)
  <2>1. StoreStatus(o) /\ UNCHANGED listed /\ pc \notin {"idle", "unfinalize"}
    BY <1>1 DEF Observe, HandleError, StoreRef, StoreEmptyRef, PersistShoot,
                ClearRef, clusterVars
  <2>2. cur \in Kinds
    BY DEF IndInv, TypeOK
  <2>3. pc' # "unfinalize"
    BY <1>1, <2>2 DEF Observe, HandleError, StoreRef, StoreEmptyRef, PersistShoot,
       ClearRef, Dispatch, Finish, GotoAfter, GotoAfterRemoval, Kinds, ImportKinds
  <2> QED
    BY <2>1, <2>3, StoreStatusSimulated
<1>2. CASE \E o \in Outcomes : Release(o) \/ RemoveFinalizer(o)
  BY <1>2, EndSimulated
<1>3. CASE \/ \E o \in Outcomes : AddFinalizer(o)
           \/ UpdateInstance \/ DeleteInstance \/ ListInstance \/ Restart
  BY <1>3, WritesSimulated
<1>4. CASE UNCHANGED <<inst, listed>> /\ pc # "unfinalize" /\ pc' # "unfinalize"
  BY <1>4, Unseen
<1>5. CASE UNCHANGED <<inst, listed, pc>>
  BY <1>5, Unseen
<1>6. ASSUME \/ StartReconcile \/ NameShootFails \/ NothingToStore \/ SkipRemove
             \/ \E s \in Shoots : NameShoot(s)
             \/ \E o \in Outcomes : RemoveNamespace(o)
             \/ \E k \in Kinds :
                  \/ \E n \in Names : Ensure(k, n)
                  \/ \E o \in Outcomes : EnsureFails(k, o) \/ Remove(k, o)
                  \/ RemoveNotFound(k)
      PROVE  UNCHANGED <<inst, listed>> /\ pc # "unfinalize" /\ pc' # "unfinalize"
  <2>1. cur \in Kinds
    BY DEF IndInv, TypeOK
  <2>2. CASE StartReconcile
    BY <2>2 DEF StartReconcile, Dispatch, Finish, ctrlVars, clusterVars
  <2>3. CASE \/ NameShootFails \/ NothingToStore \/ SkipRemove
             \/ \E s \in Shoots : NameShoot(s)
             \/ \E o \in Outcomes : RemoveNamespace(o)
    BY <2>1, <2>3 DEF NameShootFails, NothingToStore, SkipRemove, NameShoot,
       RemoveNamespace, GotoAfterRemoval, Finish, clusterVars, Kinds, ImportKinds
  <2>4. ASSUME NEW k \in Kinds,
               \/ \E n \in Names : Ensure(k, n)
               \/ \E o \in Outcomes : EnsureFails(k, o) \/ Remove(k, o)
               \/ RemoveNotFound(k)
        PROVE  UNCHANGED <<inst, listed>> /\ pc # "unfinalize" /\ pc' # "unfinalize"
    BY <2>1, <2>4 DEF Ensure, EnsureFails, Remove, RemoveNotFound, GotoAfter,
       Finish, clusterVars, Kinds, ImportKinds
  <2> QED
    BY <1>6, <2>2, <2>3, <2>4
<1>7. CASE Reconcile
  BY <1>1, <1>2, <1>3, <1>4, <1>6, <1>7 DEF Reconcile
<1>8. CASE Landscaper \/ ApiServer \/ Others \/ UNCHANGED vars
  BY <1>3, <1>5, <1>8 DEF Landscaper, ApiServer, Others, Deploy, Uninstall,
     NamespaceVanishes, Vanish, CollectGarbage, AutomaticReconcile, DeleteByHand,
     vars, ctrlVars, clusterVars
<1> QED
  BY <1>7, <1>8 DEF Next

\* The Instance controller keeps what an Instance promises (InstanceLifecycle),
\* whatever calls fail, whoever else writes and whenever it is restarted, for
\* any number of generated names, faults and changes of the spec.
THEOREM LifecycleIsKept == Spec => KeepsLifecycle
<1>1. Init => LifeInv
  BY InitLife
<1>2. IndInv /\ LifeInv /\ [Next]_vars => LifeInv'
  BY NextLife
<1>3. Init => Lifecycle!Init
  BY InitSimulated
<1>4. IndInv /\ LifeInv /\ [Next]_vars => [Lifecycle!Next]_(Lifecycle!vars)
  BY StepSimulated
<1> QED
  BY <1>1, <1>2, <1>3, <1>4, Inductive, PTL DEF Spec, KeepsLifecycle, Lifecycle!Spec

\* What is proved of the life of an Instance, for the Instance controller.
Promise == INSTANCE InstanceLifecycleProofs WITH
  Objects <- Kinds,
  Installation <- "installation",
  needs <- Needed(inst.dataPlane),
  state <- IF inst.state = "gone" THEN "absent" ELSE inst.state,
  finalizer <- inst.finalizer,
  held <- {k \in Kinds : IsSet(inst.ref[k])},
  released <- pc = "unfinalize",
  target <- TRUE

\* It is the same life.
LEMMA SameLife ==
  /\ Lifecycle!Init => Promise!Init
  /\ [Lifecycle!Next]_(Lifecycle!vars) => [Promise!Next]_(Promise!vars)
  /\ Promise!NothingBehind => Lifecycle!NothingBehind
BY DEF Lifecycle!Init, Promise!Init, Lifecycle!Next, Promise!Next,
   Lifecycle!vars, Promise!vars, Lifecycle!NothingBehind, Promise!NothingBehind,
   Lifecycle!Create, Promise!Create, Lifecycle!Protect, Promise!Protect,
   Lifecycle!Enlist, Promise!Enlist, Lifecycle!LoseTarget, Promise!LoseTarget,
   Lifecycle!Delete, Promise!Delete, Lifecycle!Release, Promise!Release,
   Lifecycle!Retreat, Promise!Retreat, Lifecycle!Leave, Promise!Leave,
   Lifecycle!Acquire, Promise!Acquire, Lifecycle!GiveUp, Promise!GiveUp

\* By the refinement, and by what is proved of the abstract life, an Instance
\* without its finalizer, so one that is gone, refers to nothing, and there is
\* never a reference to an Installation without those to what it imports.
THEOREM NothingIsLeftBehind == Spec => []Lifecycle!NothingBehind
<1>1. Spec => Lifecycle!Init /\ [][Lifecycle!Next]_(Lifecycle!vars)
  BY LifecycleIsKept DEF KeepsLifecycle, Lifecycle!Spec
<1>2. Promise!Init /\ [][Promise!Next]_(Promise!vars) => []Promise!NothingBehind
  BY Promise!NothingLeftBehind DEF Promise!Spec
<1>3. QED
  BY <1>1, <1>2, SameLife, PTL

-----------------------------------------------------------------------------
(***************************************************************************)
(* The namespace on the target cluster.  A deleted Instance passes the     *)
(* namespace only once it is gone.  What could create it again is an       *)
(* Installation whose reference was lost: the Landscaper deploys it as     *)
(* long as its imports are there.  But then nobody uninstalls it either,   *)
(* because its imports go with the references that the Instance gives up.  *)
(***************************************************************************)

\* Without the finalizer an Instance has nothing, and the controller gives it
\* nothing.
FinalizerInv ==
  /\ inst.state = "gone" => ~inst.finalizer
  /\ pc # "idle" /\ mem.state = "present" /\ mem.finalizer => inst.finalizer
  /\ ~inst.finalizer => \A k \in Kinds : ~IsSet(inst.ref[k])
  /\ ~inst.finalizer /\ inst.state = "present" =>
       ns = "absent" /\ \A n \in Names : objs["installation"][n] = "unused"

\* Every Installation, also one whose reference was lost, imports what the
\* Instance references, or something that is gone for good.
ImportsGoInv ==
  \A n \in Names : objs["installation"][n] # "unused" =>
    \A k \in Needed(inst.dataPlane) :
      \/ install[n].imports[k] = inst.ref[k]
      \/ objs[k][install[n].imports[k]] = "gone"

\* Only the referenced Installation is deleted while the Instance is there.
DeletingInv ==
  meddle = 0 /\ inst.state # "gone" =>
    \A n \in Names : objs["installation"][n] = "deleting" =>
      n = inst.ref["installation"]

\* The worker has found the namespace gone and goes on with what follows it.
PastNamespace ==
  \/ pc \in {"release", "unfinalize"}
  \/ pc \in {"remove", "clear"} /\ cur # "installation"

\* A namespace that no Installation accounts for will still be deleted.
NamespaceInv ==
  meddle = 0 /\ NoInstallationLeft /\ ns # "absent" =>
    inst.state # "gone" /\ ~PastNamespace

ExitInv == FinalizerInv /\ ImportsGoInv /\ DeletingInv /\ NamespaceInv

\* The ways in which the stored Instance changes.
LEMMA InstanceSteps ==
  ASSUME [Next]_vars
  PROVE  \/ UNCHANGED inst
         \/ /\ \E o \in Outcomes : StoreStatus(o)
            /\ pc # "idle" /\ UNCHANGED <<objs, install, ns, meddle>>
         \/ \E o \in Outcomes : AddFinalizer(o) \/ RemoveFinalizer(o)
         \/ UpdateInstance \/ DeleteInstance
<1>1. ASSUME NEW o \in Outcomes,
             \/ Observe(o) \/ HandleError(o) \/ StoreRef(o)
             \/ StoreEmptyRef(o) \/ PersistShoot(o) \/ ClearRef(o)
      PROVE  StoreStatus(o) /\ pc # "idle" /\ UNCHANGED <<objs, install, ns, meddle>>
  BY <1>1 DEF Observe, HandleError, StoreRef, StoreEmptyRef, PersistShoot, ClearRef,
              clusterVars
<1> QED
  BY <1>1 DEF Next, Reconcile, Landscaper, ApiServer, Others, StartReconcile,
     RemoveNamespace, Release, Ensure, EnsureFails, Remove, RemoveNotFound,
     NameShoot, NameShootFails, NothingToStore, SkipRemove, Deploy, Uninstall,
     NamespaceVanishes, Vanish, CollectGarbage, Restart, AutomaticReconcile,
     ListInstance, DeleteByHand, vars

\* Where the controller's copy comes from.
LEMMA CopySteps ==
  ASSUME TypeOK, [Next]_vars
  PROVE  \/ pc' = "idle"
         \/ pc # "idle" /\ mem'.state = mem.state /\ mem'.finalizer = mem.finalizer
         \/ mem'.finalizer = inst.finalizer /\ UNCHANGED inst
<1> USE DEF Goto, Fail, Finish
<1>1. CASE StartReconcile
  <2>1. [inst EXCEPT !.observed = inst.spec].finalizer = inst.finalizer
    BY DEF TypeOK, InstanceState
  <2> QED
    BY <1>1, <2>1 DEF StartReconcile, Dispatch, ctrlVars
<1>2. ASSUME NEW o \in Outcomes, Observe(o)
      PROVE  pc' = "idle" \/ (pc # "idle" /\ UNCHANGED mem)
  BY <1>2 DEF Observe, Dispatch
<1>3. ASSUME NEW o \in Outcomes,
             \/ AddFinalizer(o) \/ HandleError(o) \/ StoreRef(o) \/ StoreEmptyRef(o)
             \/ PersistShoot(o) \/ ClearRef(o) \/ RemoveNamespace(o) \/ Release(o)
             \/ RemoveFinalizer(o)
      PROVE  pc' = "idle" \/ (pc # "idle" /\ UNCHANGED mem)
  BY <1>3 DEF AddFinalizer, HandleError, StoreRef, StoreEmptyRef, PersistShoot,
              ClearRef, RemoveNamespace, Release, RemoveFinalizer
<1>4. ASSUME NEW k \in Kinds, NEW n \in Names, Ensure(k, n)
      PROVE  pc # "idle" /\ mem'.state = mem.state /\ mem'.finalizer = mem.finalizer
  BY <1>4 DEF Ensure, TypeOK, InstanceState
<1>5. ASSUME NEW k \in Kinds, NEW o \in Outcomes, EnsureFails(k, o)
      PROVE  pc # "idle" /\ mem'.state = mem.state /\ mem'.finalizer = mem.finalizer
  <2>1. mem' = mem \/ mem' = [mem EXCEPT !.ref[k] = EmptyName]
    BY <1>5 DEF EnsureFails
  <2> QED
    BY <1>5, <2>1 DEF EnsureFails, TypeOK, InstanceState
<1>6. ASSUME NEW k \in Kinds, RemoveNotFound(k)
      PROVE  pc # "idle" /\ mem'.state = mem.state /\ mem'.finalizer = mem.finalizer
  BY <1>6 DEF RemoveNotFound, TypeOK, InstanceState
<1>7. ASSUME NEW s \in Shoots, NameShoot(s)
      PROVE  pc # "idle" /\ mem'.state = mem.state /\ mem'.finalizer = mem.finalizer
  BY <1>7 DEF NameShoot, TypeOK, InstanceState
<1>8. ASSUME \/ \E k \in Kinds, o \in Outcomes : Remove(k, o)
             \/ NameShootFails \/ NothingToStore \/ SkipRemove \/ Restart
      PROVE  pc' = "idle" \/ (pc # "idle" /\ UNCHANGED mem)
  BY <1>8 DEF Remove, NameShootFails, NothingToStore, SkipRemove, Restart
<1>9. CASE UNCHANGED <<mem, pc>>
  BY <1>9
<1> QED
  BY <1>1, <1>2, <1>3, <1>4, <1>5, <1>6, <1>7, <1>8, <1>9
     DEF Next, Reconcile, Landscaper, ApiServer, Others, Deploy, Uninstall,
         NamespaceVanishes, Vanish, CollectGarbage, AutomaticReconcile, UpdateInstance,
         DeleteInstance, ListInstance, DeleteByHand, ctrlVars, vars

\* CreateOrUpdate takes effect.
Applied(k, n) ==
  /\ pc = "ensure" /\ cur = k /\ ObjectFor(k, n) /\ Apply(k, n)
  /\ UNCHANGED <<inst, ns, meddle>>

\* The ways in which the owned objects and the namespace change.
LEMMA ObjectSteps ==
  ASSUME [Next]_vars
  PROVE  \/ UNCHANGED <<objs, install, ns, meddle>>
         \/ \E k \in Kinds, n \in Names : Applied(k, n)
         \/ \E k \in Kinds, o \in Outcomes : Remove(k, o)
         \/ \E k \in Kinds, n \in Names : CollectGarbage(k, n) \/ DeleteByHand(k, n)
         \/ \E k \in ImportKinds, n \in Names : Vanish(k, n)
         \/ \E n \in Names : Deploy(n) \/ Uninstall(n)
         \/ NamespaceVanishes \/ \E o \in Outcomes : RemoveNamespace(o)
<1>1. ASSUME NEW k \in Kinds, NEW n \in Names, Ensure(k, n) PROVE Applied(k, n)
  BY <1>1 DEF Ensure, Applied
<1>2. ASSUME NEW k \in Kinds, NEW o \in Outcomes, EnsureFails(k, o)
      PROVE  UNCHANGED <<objs, install, ns, meddle>> \/ \E n \in Names : Applied(k, n)
  BY <1>2 DEF EnsureFails, Applied
<1>3. ASSUME \E o \in Outcomes :
               \/ Observe(o) \/ AddFinalizer(o) \/ HandleError(o)
               \/ StoreRef(o) \/ StoreEmptyRef(o) \/ PersistShoot(o)
               \/ ClearRef(o) \/ Release(o) \/ RemoveFinalizer(o)
      PROVE  UNCHANGED <<objs, install, ns, meddle>>
  BY <1>3 DEF Observe, AddFinalizer, HandleError, StoreRef, StoreEmptyRef,
              PersistShoot, ClearRef, Release, RemoveFinalizer, clusterVars
<1>4. ASSUME \/ StartReconcile \/ NameShootFails \/ NothingToStore \/ SkipRemove
             \/ \E k \in Kinds : RemoveNotFound(k)
             \/ \E s \in Shoots : NameShoot(s)
             \/ Restart \/ AutomaticReconcile \/ UpdateInstance \/ ListInstance
             \/ DeleteInstance \/ UNCHANGED vars
      PROVE  UNCHANGED <<objs, install, ns, meddle>>
  BY <1>4 DEF StartReconcile, NameShootFails, NothingToStore, SkipRemove,
              RemoveNotFound, NameShoot, Restart, AutomaticReconcile, UpdateInstance,
              ListInstance, DeleteInstance, clusterVars, vars
<1> QED
  BY <1>1, <1>2, <1>3, <1>4 DEF Next, Reconcile, Landscaper, ApiServer, Others

\* A reconcile gets past the namespace only when it is gone.
LEMMA PlaceSteps ==
  ASSUME TypeOK, [Next]_vars, PastNamespace'
  PROVE  PastNamespace \/ ns = "absent"
<1> USE DEF PastNamespace, Goto, Fail, Finish
<1>1. ASSUME NEW k \in Kinds, GotoAfterRemoval(k), cur = k,
             pc \in {"remove", "clear"}
      PROVE  PastNamespace
  BY <1>1 DEF GotoAfterRemoval, Kinds, ImportKinds
<1>2. CASE SkipRemove
  BY <1>1, <1>2 DEF SkipRemove, TypeOK
<1>3. ASSUME NEW o \in Outcomes, ClearRef(o) PROVE PastNamespace
  BY <1>1, <1>3 DEF ClearRef, TypeOK
<1>4. ASSUME NEW k \in Kinds, RemoveNotFound(k) PROVE PastNamespace
  BY <1>4 DEF RemoveNotFound
<1>5. ASSUME NEW o \in Outcomes, RemoveNamespace(o) PROVE ns = "absent"
  BY <1>5 DEF RemoveNamespace
<1>6. ASSUME NEW o \in Outcomes, Release(o) PROVE PastNamespace
  BY <1>6 DEF Release
<1>7. CASE StartReconcile
  BY <1>7 DEF StartReconcile, Dispatch, ctrlVars
<1>8. ASSUME NEW o \in Outcomes,
             \/ Observe(o) \/ AddFinalizer(o) \/ HandleError(o) \/ StoreRef(o)
             \/ StoreEmptyRef(o) \/ PersistShoot(o) \/ RemoveFinalizer(o)
      PROVE  FALSE
  <2>1. CASE StoreRef(o)
    BY <2>1 DEF StoreRef, GotoAfter, TypeOK, Kinds, ImportKinds
  <2>2. CASE Observe(o)
    BY <2>2 DEF Observe, Dispatch
  <2> QED
    BY <1>8, <2>1, <2>2
       DEF AddFinalizer, HandleError, StoreEmptyRef, PersistShoot, RemoveFinalizer
<1>9. ASSUME NEW k \in Kinds,
             \/ \E n \in Names : Ensure(k, n)
             \/ \E o \in Outcomes : EnsureFails(k, o)
      PROVE  FALSE
  BY <1>9 DEF Ensure, EnsureFails, GotoAfter, Kinds, ImportKinds
<1>10. ASSUME \/ \E k \in Kinds, o \in Outcomes : Remove(k, o)
              \/ \E s \in Shoots : NameShoot(s)
              \/ NameShootFails \/ NothingToStore \/ Restart
       PROVE  FALSE
  BY <1>10 DEF Remove, NameShoot, NameShootFails, NothingToStore, Restart
<1>11. CASE UNCHANGED <<pc, cur>>
  BY <1>11
<1> QED
  BY <1>2, <1>3, <1>4, <1>5, <1>6, <1>7, <1>8, <1>9, <1>10, <1>11
     DEF Next, Reconcile, Landscaper, ApiServer, Others, Deploy, Uninstall,
         NamespaceVanishes, Vanish, CollectGarbage, AutomaticReconcile, UpdateInstance,
         DeleteInstance, ListInstance, DeleteByHand, ctrlVars, vars

LEMMA InitExit == Init => ExitInv
<1> SUFFICES ASSUME Init PROVE ExitInv
  OBVIOUS
<1>1. inst.ref = [k \in Kinds |-> Nil] /\ inst.state = "present"
  BY DEF Init, NewInstance
<1>2. \A n \in Names : objs["installation"][n] = "unused"
  BY DEF Init, Kinds
<1>3. FinalizerInv
  BY <1>1, <1>2, NilIsNotSet DEF Init, FinalizerInv
<1>4. ImportsGoInv /\ DeletingInv /\ NamespaceInv
  BY <1>2 DEF Init, ImportsGoInv, DeletingInv, NamespaceInv
<1> QED
  BY <1>3, <1>4 DEF ExitInv

\* A creating reconcile, and the status update after its failure, has the
\* finalizer.
LEMMA CreatorHasFinalizer ==
  ASSUME IndInv, LifeInv, FinalizerInv, pc \in CreateSteps \cup {"error"},
         mem.state = "present"
  PROVE  inst.finalizer
BY DEF LifeInv, FinalizerInv, CreateSteps

\* What a status update makes of a reference.
LEMMA StoredReference ==
  ASSUME IndInv, NEW o \in Outcomes, StoreStatus(o), pc # "idle", NEW k \in Kinds,
         inst'.ref[k] # inst.ref[k]
  PROVE  /\ k = cur /\ fresh /\ inst'.ref[k] = mem.ref[k]
         /\ \/ ~IsSet(inst.ref[k])
            \/ objs[k][inst.ref[k]] = "gone"
         /\ IsSet(inst'.ref[k]) =>
              mem.state = "present" /\ pc \in {"ref", "emptyRef", "clear", "error"}
<1>1. fresh /\ inst'.ref[k] = mem.ref[k] /\ mem.ref[k] # inst.ref[k]
  BY StoredValues
<1> QED
  BY <1>1, NilIsNotSet DEF IndInv, CopyInv, IsSet, Names, EmptyName

LEMMA FinalizerKept ==
  ASSUME IndInv, LifeInv, FinalizerInv, TypeOK', [Next]_vars PROVE FinalizerInv'
<1> USE DEF IndInv
<1>2. CASE UNCHANGED inst
  <2>1. pc' # "idle" /\ mem'.state = "present" /\ mem'.finalizer => inst.finalizer
    BY CopySteps, <1>2 DEF FinalizerInv
  <2>2. ASSUME ~inst.finalizer, inst.state = "present"
        PROVE  ns' = "absent" /\ \A n \in Names : objs'["installation"][n] = "unused"
    <3>1. ns = "absent" /\ \A n \in Names : objs["installation"][n] = "unused"
      BY <2>2 DEF FinalizerInv
    <3>2. ASSUME NEW k \in Kinds, NEW n \in Names, Applied(k, n) PROVE FALSE
      <4>1. pc \in CreateSteps /\ mem.state = "present"
        BY <3>2 DEF Applied, CreateSteps, CopyInv
      <4> QED
        BY <2>2, <4>1, CreatorHasFinalizer
    <3>3. ASSUME NEW k \in Kinds, NEW o \in Outcomes, Remove(k, o) PROVE FALSE
      BY <2>2, <3>3 DEF Remove, LifeInv, RemoveSteps
    <3>4. ASSUME NEW k \in Kinds, NEW n \in Names, DeleteByHand(k, n)
          PROVE  UNCHANGED ns /\ \A m \in Names :
                   objs'["installation"][m] = objs["installation"][m]
      BY <3>1, <3>4 DEF DeleteByHand, TypeOK
    <3>5. ASSUME NEW k \in ImportKinds, NEW n \in Names, Vanish(k, n)
          PROVE  UNCHANGED ns /\ \A m \in Names :
                   objs'["installation"][m] = objs["installation"][m]
      BY <3>1, <3>5 DEF Vanish, TypeOK, Kinds, ImportKinds
    <3>6. ASSUME NEW o \in Outcomes, RemoveNamespace(o) PROVE UNCHANGED <<ns, objs>>
      BY <3>1, <3>6 DEF RemoveNamespace
    <3>7. ASSUME NEW k \in Kinds, NEW n \in Names, CollectGarbage(k, n) PROVE FALSE
      BY <2>2, <3>7 DEF CollectGarbage
    <3>8. ASSUME NEW n \in Names, Deploy(n) \/ Uninstall(n) PROVE FALSE
      BY <3>1, <3>8 DEF Deploy, Uninstall
    <3>9. ~NamespaceVanishes
      BY <3>1 DEF NamespaceVanishes
    <3> QED
      BY <3>1, <3>2, <3>3, <3>4, <3>5, <3>6, <3>7, <3>8, <3>9, ObjectSteps
  <2> QED
    BY <1>2, <2>1, <2>2 DEF FinalizerInv
<1>3. ASSUME NEW o \in Outcomes, StoreStatus(o), pc # "idle",
             UNCHANGED <<objs, install, ns, meddle>>
      PROVE  FinalizerInv'
  <2>1. inst'.state = inst.state /\ inst'.finalizer = inst.finalizer
    BY <1>3, StoreStatusEffect
  <2>2. pc' # "idle" /\ mem'.state = "present" /\ mem'.finalizer => inst'.finalizer
    BY CopySteps, <2>1, <1>3 DEF FinalizerInv
  <2>3. ASSUME ~inst'.finalizer, NEW k \in Kinds, IsSet(inst'.ref[k]) PROVE FALSE
    <3>1. ~IsSet(inst.ref[k])
      BY <2>1, <2>3 DEF FinalizerInv
    <3>2. mem.state = "present" /\ pc \in CreateSteps \cup RemoveSteps \cup {"error"}
      BY <1>3, <2>3, <3>1, StoredReference DEF CreateSteps, RemoveSteps
    <3>3. pc \in CreateSteps \cup {"error"}
      BY <3>2 DEF CopyInv
    <3> QED
      BY <2>1, <2>3, <3>2, <3>3, CreatorHasFinalizer
  <2> QED
    BY <1>3, <2>1, <2>2, <2>3 DEF FinalizerInv
<1>4. ASSUME NEW o \in Outcomes, AddFinalizer(o) PROVE FinalizerInv'
  <2>1. UNCHANGED inst \/ (inst'.finalizer /\ inst'.state = "present")
    BY <1>4 DEF AddFinalizer, TypeOK, InstanceState, LifeInv, CopyInv
  <2>2. pc' = "idle"
    BY <1>4 DEF AddFinalizer, Finish, Goto
  <2> QED
    BY <1>2, <2>1, <2>2 DEF FinalizerInv
<1>5. ASSUME NEW o \in Outcomes, RemoveFinalizer(o) PROVE FinalizerInv'
  <2>1. CASE inst' = [inst EXCEPT !.finalizer = FALSE, !.state = "gone"]
    <3>1. inst'.state = "gone" /\ inst'.finalizer = FALSE /\ inst'.ref = inst.ref
      BY <2>1 DEF TypeOK, InstanceState
    <3>2. \A k \in Kinds : ~IsSet(inst.ref[k])
      BY <1>5, CopyIsStored DEF RemoveFinalizer, RemoveInv, RemoveSteps, Steps
    <3>3. mem'.state = "deleting" \/ pc' = "idle"
      BY <1>5 DEF RemoveFinalizer, CopyInv, RemoveSteps, Finish, Goto, Fail
    <3> QED
      BY <3>1, <3>2, <3>3 DEF FinalizerInv
  <2> QED
    BY <1>2, <1>5, <2>1 DEF RemoveFinalizer
<1>6. CASE UpdateInstance \/ DeleteInstance
  <2>1. /\ inst'.finalizer = inst.finalizer /\ inst'.ref = inst.ref
        /\ UNCHANGED <<mem, pc, ns, objs>>
        /\ inst'.state = inst.state
           \/ (inst'.state = "deleting" /\ inst.finalizer)
           \/ (inst'.state = "gone" /\ ~inst.finalizer)
    BY <1>6 DEF UpdateInstance, DeleteInstance, TypeOK, InstanceState, clusterVars
  <2> QED
    BY <2>1 DEF FinalizerInv
<1> QED
  BY <1>2, <1>3, <1>4, <1>5, <1>6, InstanceSteps

\* The deletion of an object begins or ends.
Moved(k, n) ==
  /\ objs[k][n] \in {"present", "deleting"}
  /\ objs' \in {[objs EXCEPT ![k][n] = "deleting"], [objs EXCEPT ![k][n] = "gone"]}

\* Deploying, deleting and removing objects leave alone what Installations
\* import, what was created and what is gone.
LEMMA ObjectsStay ==
  ASSUME IndInv,
         \/ UNCHANGED <<objs, install, ns, meddle>>
         \/ \E k \in Kinds, o \in Outcomes : Remove(k, o)
         \/ \E k \in Kinds, n \in Names : CollectGarbage(k, n) \/ DeleteByHand(k, n)
         \/ \E k \in ImportKinds, n \in Names : Vanish(k, n)
         \/ \E n \in Names : Deploy(n) \/ Uninstall(n)
         \/ NamespaceVanishes \/ \E o \in Outcomes : RemoveNamespace(o)
  PROVE  /\ \A n \in Names : install'[n].imports = install[n].imports
         /\ \A k \in Kinds, n \in Names :
              /\ objs'[k][n] = "unused" <=> objs[k][n] = "unused"
              /\ objs[k][n] = "gone" => objs'[k][n] = "gone"
<1> USE DEF IndInv
<1>1. \A n \in Names : install'[n].imports = install[n].imports
  <2>1. ASSUME NEW n \in Names, Deploy(n)
        PROVE  \A m \in Names : install'[m].imports = install[m].imports
    BY <2>1 DEF Deploy, TypeOK, InstallationState
  <2>2. (\E n \in Names : Deploy(n)) \/ UNCHANGED install
    BY DEF Remove, CollectGarbage, DeleteByHand, Vanish, Uninstall,
           NamespaceVanishes, RemoveNamespace
  <2> QED
    BY <2>1, <2>2
<1>2. UNCHANGED objs \/ \E k \in Kinds, n \in Names : Moved(k, n)
  <2>1. ASSUME NEW k \in Kinds, NEW o \in Outcomes, Remove(k, o)
        PROVE  UNCHANGED objs \/ \E n \in Names : Moved(k, n)
    <3>1. pc # "idle" /\ mem.ref[k] \in Names
          /\ objs[k][mem.ref[k]] \notin {"gone", "unused"}
      BY <2>1 DEF Remove, IsSet, PendingInv
    <3>2. objs[k][mem.ref[k]] \in {"present", "deleting"}
      BY <3>1 DEF TypeOK, ObjectState
    <3> QED
      BY <2>1, <3>1, <3>2 DEF Remove, Moved
  <2>2. ASSUME NEW k \in Kinds, NEW n \in Names, CollectGarbage(k, n) \/ DeleteByHand(k, n)
        PROVE  Moved(k, n)
    BY <2>2 DEF CollectGarbage, DeleteByHand, Moved
  <2>3. ASSUME NEW k \in ImportKinds, NEW n \in Names, Vanish(k, n)
        PROVE  Moved(k, n) /\ k \in Kinds
    BY <2>3 DEF Vanish, Moved, Kinds
  <2>4. ASSUME NEW n \in Names, Uninstall(n) PROVE Moved("installation", n)
    BY <2>4 DEF Uninstall, Moved
  <2>5. "installation" \in Kinds
    BY DEF Kinds
  <2>6. (\E n \in Names : Deploy(n)) \/ NamespaceVanishes
          \/ (\E o \in Outcomes : RemoveNamespace(o)) => UNCHANGED objs
    BY DEF Deploy, NamespaceVanishes, RemoveNamespace
  <2> QED
    BY <2>1, <2>2, <2>3, <2>4, <2>5, <2>6
<1>3. ASSUME NEW k \in Kinds, NEW n \in Names, Moved(k, n)
      PROVE  \A j \in Kinds, m \in Names :
               /\ objs'[j][m] = "unused" <=> objs[j][m] = "unused"
               /\ objs[j][m] = "gone" => objs'[j][m] = "gone"
  <2>1. \A j \in Kinds, m \in Names :
          objs'[j][m] = objs[j][m] \/ (j = k /\ m = n /\ objs'[j][m] \in {"deleting", "gone"})
    BY <1>3 DEF Moved, TypeOK
  <2> QED
    BY <1>3, <2>1 DEF Moved
<1> QED
  BY <1>1, <1>2, <1>3

LEMMA ImportsGo ==
  ASSUME IndInv, LifeInv, ImportsGoInv, TypeOK', [Next]_vars PROVE ImportsGoInv'
<1> USE DEF IndInv
<1>1. inst'.dataPlane = inst.dataPlane
  <2>1. \A o \in Outcomes : StoreStatus(o) => inst'.dataPlane = inst.dataPlane
    BY StoreStatusEffect
  <2> QED
    BY <2>1, InstanceSteps
       DEF AddFinalizer, RemoveFinalizer, UpdateInstance, DeleteInstance, TypeOK,
           InstanceState
<1>2. \A k \in Needed(inst.dataPlane) : k \in Kinds /\ k # "installation"
  BY DEF Needed, Kinds, ImportKinds
<1>3. \A n \in Names : objs["installation"][n] # "unused" =>
        \A k \in Needed(inst.dataPlane) : install[n].imports[k] \in Names
  BY DEF ImportsComplete, IsSet
<1>4. "installation" \in Kinds
  BY DEF Kinds
\* The references change.
<1>5. ASSUME UNCHANGED <<objs, install, ns, meddle>> PROVE ImportsGoInv'
  <2>1. ASSUME NEW n \in Names, objs["installation"][n] # "unused",
               NEW k \in Needed(inst.dataPlane), install[n].imports[k] # inst'.ref[k]
        PROVE  objs[k][install[n].imports[k]] = "gone"
    <3>1. CASE inst'.ref[k] = inst.ref[k]
      BY <2>1, <3>1 DEF ImportsGoInv
    <3>2. CASE inst'.ref[k] # inst.ref[k]
      <4>1. \A o \in Outcomes : AddFinalizer(o) \/ RemoveFinalizer(o) =>
              inst'.ref = inst.ref
        BY DEF AddFinalizer, RemoveFinalizer, TypeOK, InstanceState
      <4>2. UpdateInstance \/ DeleteInstance => inst'.ref = inst.ref
        BY DEF UpdateInstance, DeleteInstance, TypeOK, InstanceState
      <4>3. PICK o \in Outcomes : StoreStatus(o) /\ pc # "idle"
        BY <3>2, <4>1, <4>2, InstanceSteps
      <4>4. ~IsSet(inst.ref[k]) \/ objs[k][inst.ref[k]] = "gone"
        BY <1>2, <3>2, <4>3, StoredReference
      <4> QED
        BY <1>3, <2>1, <4>4 DEF ImportsGoInv, IsSet
    <3> QED
      BY <3>1, <3>2
  <2> QED
    BY <1>1, <1>5, <2>1 DEF ImportsGoInv
\* An object is created, or an Installation written.
<1>6. ASSUME NEW k \in Kinds, NEW n \in Names, Applied(k, n) PROVE ImportsGoInv'
  <2>1. /\ UNCHANGED inst /\ pc = "ensure" /\ cur = k
        /\ ObjectFor(k, n) /\ Apply(k, n)
        /\ mem.ref = inst.ref /\ mem.dataPlane = inst.dataPlane
    BY <1>6, CopyIsStored DEF Applied, Steps, CopyInv
  <2>2. /\ k = "installation" =>
             \A j \in Needed(mem.dataPlane) : install'[n].imports[j] = mem.ref[j]
        /\ \A m \in Names : k # "installation" \/ m # n => install'[m] = install[m]
        /\ \A j \in Kinds, m \in Names :
             j # k \/ m # n => objs'[j][m] = objs[j][m]
    BY <2>1, ApplyEffect
  <2>3. objs[k][n] # "gone" \/ n = inst.ref[k]
    BY <2>1 DEF ObjectFor, GeneratedName, Unused
  <2>4. ASSUME NEW m \in Names, objs'["installation"][m] # "unused",
               NEW j \in Needed(inst.dataPlane), install'[m].imports[j] # inst.ref[j]
        PROVE  objs'[j][install'[m].imports[j]] = "gone"
    <3>1. k # "installation" \/ m # n
      BY <2>1, <2>2, <2>4
    <3>2. install'[m] = install[m] /\ objs'["installation"][m] = objs["installation"][m]
      BY <1>4, <2>2, <3>1
    <3>3. objs[j][install[m].imports[j]] = "gone" /\ install[m].imports[j] \in Names
      BY <1>3, <2>4, <3>2 DEF ImportsGoInv
    <3>4. j # k \/ install[m].imports[j] # n
      BY <2>3, <2>4, <3>2, <3>3
    <3> QED
      BY <1>2, <2>2, <3>2, <3>3, <3>4
  <2> QED
    BY <2>1, <2>4 DEF ImportsGoInv
\* Otherwise what is gone stays so.
<1>7. ASSUME UNCHANGED inst,
             /\ \A n \in Names : install'[n].imports = install[n].imports
             /\ \A k \in Kinds, n \in Names :
                  /\ objs'[k][n] = "unused" <=> objs[k][n] = "unused"
                  /\ objs[k][n] = "gone" => objs'[k][n] = "gone"
      PROVE  ImportsGoInv'
  <2>1. ASSUME NEW n \in Names, objs'["installation"][n] # "unused",
               NEW k \in Needed(inst.dataPlane), install'[n].imports[k] # inst.ref[k]
        PROVE  objs'[k][install'[n].imports[k]] = "gone"
    BY <1>2, <1>3, <1>4, <1>7, <2>1 DEF ImportsGoInv
  <2> QED
    BY <1>7, <2>1 DEF ImportsGoInv
<1>8. \/ UNCHANGED <<objs, install, ns, meddle>>
      \/ \E k \in Kinds, n \in Names : Applied(k, n)
      \/ UNCHANGED inst
  BY ObjectSteps DEF Remove, CollectGarbage, DeleteByHand, Vanish, Deploy, Uninstall,
                     NamespaceVanishes, RemoveNamespace
<1> QED
  BY <1>5, <1>6, <1>7, <1>8, ObjectSteps, ObjectsStay

LEMMA MeddleGrows == ASSUME TypeOK, [Next]_vars PROVE meddle' = 0 => meddle = 0
<1>1. \A k \in Kinds, n \in Names : DeleteByHand(k, n) => meddle' # 0
  BY DEF DeleteByHand, TypeOK
<1> QED
  BY <1>1, ObjectSteps DEF Applied, Remove, CollectGarbage, Vanish, Deploy, Uninstall,
                           NamespaceVanishes, RemoveNamespace

\* What becomes of Installations.
LEMMA InstallationSteps ==
  ASSUME IndInv, [Next]_vars, meddle' = 0, inst.state # "gone", NEW n \in Names,
         objs'["installation"][n] = "deleting"
  PROVE  \/ objs["installation"][n] = "deleting"
         \/ n = inst.ref["installation"] /\ UNCHANGED inst
<1> USE DEF IndInv
<1>1. "installation" \in Kinds
  BY DEF Kinds
<1>2. ASSUME NEW k \in Kinds, NEW m \in Names, Applied(k, m)
      PROVE  objs["installation"][n] = "deleting"
  BY <1>1, <1>2 DEF Applied, Apply, TypeOK
<1>3. ASSUME NEW k \in Kinds, NEW o \in Outcomes, Remove(k, o)
      PROVE  \/ objs["installation"][n] = "deleting"
             \/ n = inst.ref["installation"] /\ UNCHANGED inst
  <2>1. mem.ref = inst.ref /\ UNCHANGED inst /\ mem.ref[k] \in Names
    BY <1>3, CopyIsStored DEF Remove, Steps, IsSet
  <2> QED
    BY <1>1, <1>3, <2>1 DEF Remove, TypeOK
<1>4. ASSUME NEW k \in Kinds, NEW m \in Names, CollectGarbage(k, m) PROVE FALSE
  BY <1>4 DEF CollectGarbage
<1>5. ASSUME NEW k \in Kinds, NEW m \in Names, DeleteByHand(k, m) PROVE FALSE
  BY <1>5 DEF DeleteByHand, TypeOK
<1>6. ASSUME NEW k \in ImportKinds, NEW m \in Names, Vanish(k, m)
      PROVE  objs["installation"][n] = "deleting"
  BY <1>1, <1>6 DEF Vanish, TypeOK, Kinds
<1>7. ASSUME NEW m \in Names, Deploy(m) \/ Uninstall(m)
      PROVE  objs["installation"][n] = "deleting"
  BY <1>1, <1>7 DEF Deploy, Uninstall, TypeOK
<1> QED
  BY <1>2, <1>3, <1>4, <1>5, <1>6, <1>7, ObjectSteps DEF NamespaceVanishes, RemoveNamespace

LEMMA DeletingKept ==
  ASSUME IndInv, LifeInv, DeletingInv, TypeOK', [Next]_vars PROVE DeletingInv'
<1> USE DEF IndInv
<1> SUFFICES ASSUME meddle' = 0, inst'.state # "gone", NEW n \in Names,
                    objs'["installation"][n] = "deleting"
             PROVE  n = inst'.ref["installation"]
  BY DEF DeletingInv
<1>1. "installation" \in Kinds
  BY DEF Kinds
<1>2. /\ inst.state # "gone"
      /\ inst'.ref = inst.ref \/ \E o \in Outcomes : StoreStatus(o) /\ pc # "idle"
                                                     /\ UNCHANGED objs
  <2>1. ASSUME NEW o \in Outcomes, AddFinalizer(o) \/ RemoveFinalizer(o)
        PROVE  inst'.ref = inst.ref /\ (inst.state = "gone" => inst'.state = "gone")
    BY <2>1 DEF AddFinalizer, RemoveFinalizer, TypeOK, InstanceState
  <2>2. UpdateInstance \/ DeleteInstance => inst'.ref = inst.ref /\ inst.state # "gone"
    BY DEF UpdateInstance, DeleteInstance, TypeOK, InstanceState
  <2>3. \A o \in Outcomes : StoreStatus(o) => inst'.state = inst.state
    BY StoreStatusEffect
  <2> QED
    BY <2>1, <2>2, <2>3, InstanceSteps
<1>3. \/ objs["installation"][n] = "deleting"
      \/ n = inst.ref["installation"] /\ UNCHANGED inst
  BY <1>2, InstallationSteps
<1>4. ASSUME objs["installation"][n] = "deleting" PROVE n = inst'.ref["installation"]
  <2>1. n = inst.ref["installation"]
    BY <1>2, <1>4, MeddleGrows DEF DeletingInv
  <2>2. ASSUME NEW o \in Outcomes, StoreStatus(o), pc # "idle"
        PROVE  inst'.ref["installation"] = inst.ref["installation"]
    BY <1>1, <1>4, <2>1, <2>2, StoredReference DEF IsSet
  <2> QED
    BY <1>2, <2>1, <2>2
<1> QED
  BY <1>3, <1>4

\* No Installation is uninstalled after the namespace was found gone.
LEMMA UninstallComesFirst ==
  ASSUME IndInv, ExitInv, NEW n \in Names, Uninstall(n), meddle = 0
  PROVE  inst.state # "gone" /\ ~PastNamespace
<1> USE DEF IndInv, ExitInv
<1>1. objs["installation"][n] = "deleting" /\ ImportsPresent(n)
  BY DEF Uninstall
<1>2. "context" \in Needed(inst.dataPlane) /\ "context" \in ImportKinds
      /\ "context" \in Kinds /\ "installation" \in Kinds
  BY DEF Needed, ImportKinds, Kinds
<1>3. IsSet(install[n].imports["context"])
  BY <1>1, <1>2 DEF ImportsComplete
<1>4. objs["context"][install[n].imports["context"]] = "present"
  BY <1>1, <1>2, <1>3 DEF ImportsPresent
<1>5. IsSet(inst.ref["context"])
  BY <1>1, <1>2, <1>3, <1>4 DEF ImportsGoInv
<1>6. inst.state # "gone"
  BY <1>2, <1>5 DEF FinalizerInv
<1>7. IsSet(inst.ref["installation"])
  BY <1>1, <1>6 DEF DeletingInv, IsSet
<1>8. ASSUME PastNamespace PROVE FALSE
  <2>1. pc \in RemoveSteps
    BY <1>8 DEF PastNamespace, RemoveSteps
  <2>2. ~IsSet(mem.ref["installation"])
    <3>1. CASE pc \in {"release", "unfinalize"}
      BY <1>2, <2>1, <3>1 DEF RemoveInv
    <3>2. CASE cur # "installation"
      BY <2>1, <3>2 DEF RemoveInv, RemovedBefore, TypeOK, Kinds, ImportKinds
    <3> QED
      BY <1>8, <3>1, <3>2 DEF PastNamespace
  <2>3. CASE pc = "clear"
    <3>1. cur # "installation"
      BY <1>8, <2>3 DEF PastNamespace
    <3>2. mem.ref["installation"] = inst.ref["installation"]
      BY <1>2, <2>3, <3>1 DEF CopyInv
    <3> QED
      BY <1>7, <2>2, <3>2
  <2>4. CASE pc # "clear"
    BY <1>7, <1>8, <2>2, <2>4, CopyIsStored DEF PastNamespace, Steps
  <2> QED
    BY <2>3, <2>4
<1> QED
  BY <1>6, <1>8

\* How the last Installation goes, and how a namespace comes.
LEMMA LeavingSteps ==
  ASSUME IndInv, [Next]_vars, NoInstallationLeft', ns' # "absent"
  PROVE  \/ NoInstallationLeft /\ ns # "absent"
         \/ \E n \in Names : Uninstall(n)
<1> USE DEF IndInv
<1>1. "installation" \in Kinds
  BY DEF Kinds
<1>2. CASE NoInstallationLeft
  <2>1. ASSUME NEW n \in Names, Deploy(n) PROVE FALSE
    BY <1>2, <2>1 DEF Deploy, NoInstallationLeft
  <2>2. ns' # "absent" /\ ~(\E n \in Names : Deploy(n)) => ns # "absent"
    BY ObjectSteps DEF Applied, Remove, CollectGarbage, DeleteByHand, Vanish,
                       Uninstall, NamespaceVanishes, RemoveNamespace
  <2> QED
    BY <1>2, <2>1, <2>2
<1>3. ASSUME NEW n \in Names, objs["installation"][n] \notin {"unused", "gone"}
      PROVE  \E m \in Names : Uninstall(m)
  <2>1. objs'["installation"][n] \in {"unused", "gone"}
    BY DEF NoInstallationLeft
  <2>2. ASSUME NEW k \in Kinds, NEW m \in Names, Applied(k, m) PROVE FALSE
    BY <1>1, <1>3, <2>1, <2>2 DEF Applied, Apply, TypeOK
  <2>3. ASSUME NEW k \in Kinds, NEW o \in Outcomes, Remove(k, o) PROVE FALSE
    <3>1. mem.ref[k] \in Names
      BY <2>3 DEF Remove, IsSet
    <3> QED
      BY <1>1, <1>3, <2>1, <2>3, <3>1 DEF Remove, TypeOK
  <2>4. ASSUME NEW k \in Kinds, NEW m \in Names, CollectGarbage(k, m) \/ DeleteByHand(k, m)
        PROVE  FALSE
    BY <1>1, <1>3, <2>1, <2>4 DEF CollectGarbage, DeleteByHand, TypeOK
  <2>5. ASSUME NEW k \in ImportKinds, NEW m \in Names, Vanish(k, m) PROVE FALSE
    BY <1>1, <1>3, <2>1, <2>5 DEF Vanish, TypeOK, Kinds, ImportKinds
  <2>6. UNCHANGED objs => FALSE
    BY <1>3, <2>1
  <2> QED
    BY <2>2, <2>3, <2>4, <2>5, <2>6, ObjectSteps
       DEF Deploy, NamespaceVanishes, RemoveNamespace
<1> QED
  BY <1>2, <1>3 DEF NoInstallationLeft

LEMMA NamespaceKept ==
  ASSUME IndInv, LifeInv, ExitInv, [Next]_vars PROVE NamespaceInv'
<1> USE DEF IndInv, ExitInv
<1> SUFFICES ASSUME meddle' = 0, NoInstallationLeft', ns' # "absent"
             PROVE  inst'.state # "gone" /\ ~PastNamespace'
  BY DEF NamespaceInv
<1>1. meddle = 0
  BY MeddleGrows
<1>2. CASE NoInstallationLeft /\ ns # "absent"
  <2>1. inst.state # "gone" /\ ~PastNamespace
    BY <1>1, <1>2 DEF NamespaceInv
  <2>2. ~PastNamespace'
    BY <1>2, <2>1, PlaceSteps
  <2>3. ASSUME NEW o \in Outcomes, RemoveFinalizer(o) PROVE FALSE
    BY <2>1, <2>3 DEF RemoveFinalizer, PastNamespace
  <2>4. ASSUME NEW o \in Outcomes, AddFinalizer(o) \/ StoreStatus(o)
        PROVE  inst'.state = inst.state
    BY <2>4, StoreStatusEffect DEF AddFinalizer, TypeOK, InstanceState
  <2>5. ASSUME UpdateInstance \/ DeleteInstance PROVE inst'.state # "gone"
    <3>1. inst.state = "present" => inst.finalizer
      BY <1>2 DEF FinalizerInv
    <3> QED
      BY <2>1, <2>5, <3>1 DEF UpdateInstance, DeleteInstance, TypeOK, InstanceState
  <2> QED
    BY <2>1, <2>2, <2>3, <2>4, <2>5, InstanceSteps
<1>3. ASSUME NEW n \in Names, Uninstall(n) PROVE inst'.state # "gone" /\ ~PastNamespace'
  <2>1. UNCHANGED <<inst, pc, cur>>
    BY <1>3 DEF Uninstall, ctrlVars
  <2> QED
    BY <1>1, <1>3, <2>1, UninstallComesFirst DEF PastNamespace
<1> QED
  BY <1>2, <1>3, LeavingSteps

\* The invariants of this module and of module Instances, together.
LEMMA ExitInductive == Spec => [](IndInv /\ LifeInv /\ ExitInv)
<1>1. Init => IndInv /\ LifeInv /\ ExitInv
  BY InitInv, InitLife, InitExit
<1>2. ASSUME IndInv, LifeInv, ExitInv, [Next]_vars PROVE IndInv' /\ LifeInv' /\ ExitInv'
  <2>1. IndInv' /\ LifeInv'
    BY <1>2, NextInv, NextLife
  <2>2. TypeOK'
    BY <2>1 DEF IndInv
  <2>3. FinalizerInv' /\ ImportsGoInv' /\ DeletingInv' /\ NamespaceInv'
    BY <1>2, <2>2, FinalizerKept, ImportsGo, DeletingKept, NamespaceKept DEF ExitInv
  <2> QED
    BY <2>1, <2>3 DEF ExitInv
<1> QED
  BY <1>1, <1>2, PTL DEF Spec

\* The deletion of an Instance removes its namespace on the target cluster
\* (ensureDeleteTargetClusterNamespace), and nothing creates it again, unless
\* an orphaned Installation is left or somebody deleted an object by hand.
THEOREM NothingStaysBehind == Spec => []CleanExit
<1>1. ExitInv => CleanExit
  BY DEF ExitInv, NamespaceInv, CleanExit
<1> QED
  BY <1>1, ExitInductive, PTL

\* The Instance is taken out of the load of its ServiceTargetConfig last: when
\* it references nothing any more, and its namespace is gone, also after it was
\* created once more in between, with the exceptions of CleanExit.
THEOREM ReleasedIsLast == Spec => ReleasedLast
<1> DEFINE Last == /\ \A k \in Kinds : ~IsSet(inst.ref[k])
                   /\ meddle = 0 /\ NoInstallationLeft => ns = "absent"
<1>1. ASSUME IndInv, ExitInv, [Next]_vars, listed, ~listed'
      PROVE  Last
  <2>1. \E o \in Outcomes : Release(o)
    BY <1>1 DEF Next, Reconcile, Landscaper, ApiServer, Others, StartReconcile,
       Observe, AddFinalizer, HandleError, StoreRef, StoreEmptyRef, PersistShoot,
       ClearRef, RemoveFinalizer, RemoveNamespace, Ensure, EnsureFails,
       Remove, RemoveNotFound, NameShoot, NameShootFails, NothingToStore,
       SkipRemove, Deploy, Uninstall, NamespaceVanishes, Vanish, CollectGarbage,
       Restart, AutomaticReconcile, UpdateInstance, ListInstance, DeleteInstance,
       DeleteByHand, clusterVars, vars
  <2>2. pc = "release"
    BY <2>1 DEF Release
  <2>3. \A k \in Kinds : ~IsSet(inst.ref[k])
    BY <1>1, <2>2, CopyIsStored DEF Steps, IndInv, RemoveInv, RemoveSteps
  <2>4. meddle = 0 /\ NoInstallationLeft => ns = "absent"
    BY <1>1, <2>2 DEF ExitInv, NamespaceInv, PastNamespace
  <2> QED
    BY <2>3, <2>4
<1>2. ASSUME IndInv, ExitInv, [Next]_vars
      PROVE  [listed /\ ~listed' => Last]_vars
  BY <1>1, <1>2
<1>3. IndInv /\ ExitInv /\ [Next]_vars => [listed /\ ~listed' => Last]_vars
  BY <1>2
<1> QED
  BY <1>3, ExitInductive, PTL DEF Spec, ReleasedLast

=============================================================================
