--------------------------- MODULE AdmissionProofs ---------------------------
(***************************************************************************)
(* That the webhooks of deployments and Instances and the controller       *)
(* between them agree, for every set of tenants, identifiers and targets.  *)
(***************************************************************************)
EXTENDS Admission, TLAPS

\* What an Instance has besides its identifier is also there.
Complete == instance # Absent => instance.id # None /\ instance.target # None

\* What is stored for a deployment whose webhook is on is valid, and differs
\* from what the Instance has in nothing that is immutable, but for a failure
\* tolerance whose removal the Instance has missed.
Copyable ==
  deployment # Absent /\ "deployment" \notin skips =>
    /\ ValidDeployment(deployment)
    /\ instance # Absent =>
         /\ ToleranceKept(deployment, instance) \/ missed
         /\ PlaneKept(deployment, instance)
         /\ instance.tolerance \in {"none", "zone", "node"}

IInv == TypeOK /\ Complete /\ SameTenant /\ Copyable

-----------------------------------------------------------------------------
\* A copy of a stored deployment is the spec of an Instance.
LEMMA MutatedType ==
  ASSUME deployment \in DeploymentSpecs,
         NEW i \in Ids \cup {None}, NEW t \in Targets \cup {None}
  PROVE  Mutated(i, t) \in InstanceSpecs
BY DEF DeploymentSpecs, InstanceSpecs, Mutated

\* The fields of a copy.
LEMMA MutatedFields ==
  ASSUME NEW i, NEW t
  PROVE  /\ Mutated(i, t).tenant = deployment.tenant
         /\ Mutated(i, t).oidc = deployment.oidc
         /\ Mutated(i, t).tolerance = deployment.tolerance
         /\ Mutated(i, t).dataPlane = deployment.dataPlane
         /\ Mutated(i, t).id = i
         /\ Mutated(i, t).target = t
BY DEF Mutated

\* The parts that specs of deployments and Instances have.
LEMMA SpecFields ==
  /\ \A s \in DeploymentSpecs : s.tolerance \in Tolerances
  /\ \A s \in InstanceSpecs :
       /\ s.id \in Ids \cup {None} /\ s.target \in Targets \cup {None}
       /\ s.tolerance \in Tolerances
BY DEF DeploymentSpecs, InstanceSpecs

-----------------------------------------------------------------------------
(***************************************************************************)
(* The inductive invariant.                                                *)
(***************************************************************************)
LEMMA InitInv == Init => IInv
BY DEF Init, IInv, TypeOK, Complete, SameTenant, Copyable

LEMMA CreateDeploymentInv == IInv /\ CreateDeployment => IInv'
<1> SUFFICES ASSUME IInv, CreateDeployment PROVE IInv'
  OBVIOUS
<1> USE DEF IInv, CreateDeployment
<1>1. instance = Absent /\ instance' = Absent
  BY DEF TypeOK, Absent
<1>2. TypeOK'
  BY <1>1 DEF TypeOK, Absent
<1>3. Complete' /\ SameTenant'
  BY <1>1 DEF Complete, SameTenant, Absent
<1>4. Copyable'
  BY <1>1 DEF Copyable, DeploymentAdmitted, ValidDeployment, ValidCommon,
              ValidateHighAvailabilityConfig, ValidateDataPlane, Absent
<1>5. QED
  BY <1>2, <1>3, <1>4

LEMMA UpdateDeploymentInv == IInv /\ UpdateDeployment => IInv'
<1> SUFFICES ASSUME IInv, UpdateDeployment PROVE IInv'
  OBVIOUS
<1> USE DEF IInv, UpdateDeployment
<1>1. TypeOK'
  <2>1. deployment' \in DeploymentSpecs
    OBVIOUS
  <2>2. deployment' # Absent' \/ instance = Absent
    <3>1. DOMAIN deployment' = {"tenant", "oidc", "tolerance", "dataPlane"}
      BY <2>1 DEF DeploymentSpecs
    <3>2. DOMAIN Absent' = {"tenant"}
      BY DEF Absent
    <3>3. QED
      BY <3>1, <3>2
  <2>3. QED
    BY <2>1, <2>2 DEF TypeOK, Absent
<1>2. Complete'
  BY DEF Complete, Absent
<1>3. SameTenant'
  BY DEF SameTenant, DeploymentAdmitted, ValidDeploymentUpdate, Absent
<1>4. Copyable'
  <2> SUFFICES ASSUME "deployment" \notin skips'
               PROVE  /\ ValidDeployment(deployment')
                      /\ instance' # Absent =>
                           /\ ToleranceKept(deployment', instance') \/ missed'
                           /\ PlaneKept(deployment', instance')
                           /\ instance'.tolerance \in {"none", "zone", "node"}
    BY DEF Copyable, Absent, ValidDeployment, ValidCommon, ToleranceKept,
           PlaneKept, ValidateHighAvailabilityConfig, ValidateDataPlane
  <2>1. "deployment" \notin skips
    OBVIOUS
  <2>2. ValidDeployment(deployment') /\ ValidDeploymentUpdate(deployment', deployment)
    BY <2>1 DEF DeploymentAdmitted
  <2>3. ASSUME instance # Absent
        PROVE  /\ ToleranceKept(deployment', instance) \/ missed'
               /\ PlaneKept(deployment', instance)
               /\ instance.tolerance \in {"none", "zone", "node"}
    <3>1. /\ ToleranceKept(deployment, instance) \/ missed
          /\ PlaneKept(deployment, instance)
          /\ instance.tolerance \in {"none", "zone", "node"}
      BY <2>1, <2>3 DEF Copyable
    <3>2. missed' = (missed \/ Lagging)
      OBVIOUS
    <3>3. QED
      BY <2>2, <2>3, <3>1, <3>2 DEF ValidDeploymentUpdate, ToleranceKept, PlaneKept, Lagging
  <2>4. QED
    BY <2>2, <2>3
<1>5. QED
  BY <1>1, <1>2, <1>3, <1>4

\* Creation and update of the Instance alike: it becomes a complete copy.
LEMMA CopyInv ==
  ASSUME IInv, deployment # Absent,
         NEW i \in Ids, NEW t \in Targets, instance' = Mutated(i, t),
         Had(instance'), UNCHANGED <<skips, deployment>>, missed' \in BOOLEAN
  PROVE  IInv'
<1> USE DEF IInv
<1>1. deployment \in DeploymentSpecs
  BY DEF TypeOK
<1>2. /\ instance' \in InstanceSpecs
      /\ instance'.tolerance \in Tolerances
  BY <1>1, MutatedType, SpecFields
<1>3. /\ instance'.tenant = deployment.tenant
      /\ instance'.tolerance = deployment.tolerance
      /\ instance'.dataPlane = deployment.dataPlane
      /\ instance'.id = i /\ instance'.target = t
  BY MutatedFields
<1>4. i # None /\ t # None
  BY NoneAssumption
<1>5. TypeOK'
  <2>1. tolerances' \subseteq Tolerances \ {"none"}
    BY <1>2 DEF Had, TypeOK
  <2>2. QED
    BY <1>2, <1>3, <1>4, <2>1 DEF TypeOK, Absent
<1>6. Complete' /\ SameTenant'
  BY <1>3, <1>4 DEF Complete, SameTenant, Absent
<1>7. Copyable'
  BY <1>3 DEF Copyable, ToleranceKept, PlaneKept, Absent, ValidDeployment,
              ValidCommon, ValidateHighAvailabilityConfig, ValidateDataPlane
<1>8. QED
  BY <1>5, <1>6, <1>7

LEMMA CreateInstanceInv == IInv /\ CreateInstance => IInv'
BY CopyInv DEF CreateInstance, IInv, TypeOK

LEMMA UpdateInstanceInv == IInv /\ UpdateInstance => IInv'
<1> SUFFICES ASSUME IInv, UpdateInstance PROVE IInv'
  OBVIOUS
<1>1. instance.id \in Ids /\ instance.target \in Targets
  BY SpecFields DEF IInv, UpdateInstance, TypeOK, Complete
<1>2. instance' = Mutated(instance.id, instance.target)
  BY DEF UpdateInstance
<1>3. QED
  BY <1>1, <1>2, CopyInv DEF UpdateInstance

LEMMA DeleteDeploymentInv == IInv /\ DeleteDeployment => IInv'
BY DEF DeleteDeployment, IInv, TypeOK, Complete, SameTenant, Copyable, Absent

LEMMA StutterInv == IInv /\ UNCHANGED vars => IInv'
BY DEF vars, IInv, TypeOK, Complete, SameTenant, Copyable, Absent, ValidDeployment,
       ValidCommon, ToleranceKept, PlaneKept, ValidateHighAvailabilityConfig,
       ValidateDataPlane

\* The strengthening is an invariant.
THEOREM Invariance == Spec => []IInv
<1>1. IInv /\ [Next]_vars => IInv'
  <2> SUFFICES ASSUME IInv, [Next]_vars PROVE IInv'
    OBVIOUS
  <2>1. CASE CreateDeployment
    BY <2>1, CreateDeploymentInv
  <2>2. CASE UpdateDeployment
    BY <2>2, UpdateDeploymentInv
  <2>3. CASE DeleteDeployment
    BY <2>3, DeleteDeploymentInv
  <2>4. CASE CreateInstance
    BY <2>4, CreateInstanceInv
  <2>5. CASE UpdateInstance
    BY <2>5, UpdateInstanceInv
  <2>6. CASE InstanceRefused
    BY <2>6, StutterInv DEF InstanceRefused
  <2>7. CASE UNCHANGED vars
    BY <2>7, StutterInv
  <2>8. QED
    BY <2>1, <2>2, <2>3, <2>4, <2>5, <2>6, <2>7 DEF Next
<1>2. QED
  BY <1>1, InitInv, PTL DEF Spec

-----------------------------------------------------------------------------
(***************************************************************************)
(* What follows.                                                           *)
(***************************************************************************)
\* What the API server has stored has the shape of its kind.
THEOREM TypeCorrect == Spec => []TypeOK
<1>1. IInv => TypeOK
  BY DEF IInv
<1>2. QED
  BY <1>1, Invariance, PTL

\* An Instance always belongs to the tenant of its deployment.
THEOREM TenantsAgree == Spec => []SameTenant
<1>1. IInv => SameTenant
  BY DEF IInv
<1>2. QED
  BY <1>1, Invariance, PTL

\* What the webhook of deployments accepts is accepted for the Instance too,
\* unless it missed that the failure tolerance was removed, and then but for
\* that.
THEOREM AcceptedArrives == Spec => []NotStuck
<1>1. IInv => NotStuck
  <2> SUFFICES ASSUME IInv, deployment # Absent, "deployment" \notin skips
               PROVE  NotStuck
    BY DEF NotStuck, Arrives
  <2>1. ValidDeployment(deployment)
    BY DEF IInv, Copyable
  <2>2. ASSUME NEW i, NEW t, i # None, t # None
        PROVE  ValidInstance(Mutated(i, t))
    BY <2>1, <2>2, MutatedFields DEF ValidInstance, ValidDeployment, ValidCommon
  <2>3. CASE instance = Absent
    <3>1. \A i \in Ids, t \in Targets : InstanceAdmitted(Mutated(i, t), Absent)
      BY <2>2, NoneAssumption DEF InstanceAdmitted
    <3>2. QED
      BY <2>3, <3>1 DEF NotStuck, Arrives
  <2>4. CASE instance # Absent
    <3>1. ValidInstance(Copy)
      BY <2>2, <2>4 DEF IInv, Complete, Copy
    <3>2. /\ Copy.tenant = instance.tenant
          /\ Copy.id = instance.id /\ Copy.target = instance.target
      BY <2>4, MutatedFields DEF IInv, SameTenant, Copy
    <3>3. /\ ToleranceKept(Copy, instance) \/ missed
          /\ PlaneKept(Copy, instance)
          /\ instance.tolerance \in {"none", "zone", "node"}
      BY <2>4, MutatedFields DEF IInv, Copyable, ToleranceKept, PlaneKept, Copy
    <3>4. CASE ToleranceKept(Copy, instance)
      <4>1. InstanceAdmitted(Copy, instance)
        BY <3>1, <3>2, <3>3, <3>4 DEF InstanceAdmitted, ValidInstanceUpdate
      <4>2. QED
        BY <2>4, <4>1 DEF NotStuck, Arrives
    <3>5. CASE ~ToleranceKept(Copy, instance)
      <4> DEFINE back == [Copy EXCEPT !.tolerance = instance.tolerance]
      <4>1. /\ back.tenant = Copy.tenant /\ back.id = Copy.id
            /\ back.target = Copy.target /\ back.dataPlane = Copy.dataPlane
            /\ back.oidc = Copy.oidc /\ back.tolerance = instance.tolerance
        BY DEF Copy, Mutated
      <4>2. Copy.tolerance # "none"
        BY <3>5 DEF ToleranceKept
      <4> HIDE DEF back
      <4>3. ValidInstance(back)
        BY <3>1, <3>3, <4>1, <4>2
           DEF ValidInstance, ValidCommon, ValidateHighAvailabilityConfig
      <4>4. ValidInstanceUpdate(back, instance)
        BY <3>2, <3>3, <4>1 DEF ValidInstanceUpdate, ToleranceKept, PlaneKept
      <4>5. InstanceAdmitted(back, instance)
        BY <4>3, <4>4 DEF InstanceAdmitted
      <4>6. QED
        BY <2>4, <3>3, <3>5, <4>5 DEF NotStuck, back
    <3>6. QED
      BY <3>4, <3>5
  <2>5. QED
    BY <2>3, <2>4
<1>2. QED
  BY <1>1, Invariance, PTL
=============================================================================
