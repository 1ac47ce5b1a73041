------------------------------ MODULE Admission ------------------------------
(***************************************************************************)
(* The validating webhooks of LandscaperDeployments and Instances, and the *)
(* controller that copies the spec of a deployment to its Instance: what   *)
(* one webhook has accepted has to get past the other.                     *)
(*                                                                         *)
(* Left out: names and metadata, the purpose and the Landscaper            *)
(* configuration, which no rule relates to anything else.                  *)
(***************************************************************************)
EXTENDS Integers, FiniteSets

CONSTANTS
  Tenants,  \* identifiers of tenants of the required length
  Ids,      \* identifiers of Instances of the required length
  Targets,  \* names of ServiceTargetConfigs
  None      \* no or an unusable identifier, reference or config

ASSUME NoneAssumption == None \notin Tenants \cup Ids \cup Targets

VARIABLES
  skips,       \* who carries the label that turns the webhook off
  deployment,  \* spec of the LandscaperDeployment, or Absent
  instance,    \* spec of its Instance, or Absent
  missed,      \* history: the deployment had no failure tolerance for a while
               \* and was changed again, but the Instance has kept its own
  tolerances   \* history: the failure tolerances the Instance has had

vars == <<skips, deployment, instance, missed, tolerances>>

-----------------------------------------------------------------------------
(***************************************************************************)
(* Data.                                                                   *)
(***************************************************************************)
\* The failure tolerance, or none if there is no highAvailabilityConfig.
Tolerances == {"none", "zone", "node", "other"}

\* What dataPlane consists of; none if there is no dataPlane.
DataPlanes == {"none", "secretRef", "kubeconfig", "both", "neither", "badSecretRef"}

DeploymentSpecs ==
  [tenant: Tenants \cup {None}, oidc: BOOLEAN, tolerance: Tolerances,
   dataPlane: DataPlanes]

InstanceSpecs ==
  [tenant: Tenants \cup {None}, oidc: BOOLEAN, tolerance: Tolerances,
   dataPlane: DataPlanes, id: Ids \cup {None}, target: Targets \cup {None}]

Absent == [tenant |-> None]

ValidateHighAvailabilityConfig(tolerance) == tolerance \in {"zone", "node"}

ValidateDataPlane(plane) == plane \in {"secretRef", "kubeconfig"}

\* What both kinds have in common.
ValidCommon(spec) ==
  /\ spec.tenant # None
  /\ spec.dataPlane # "none" => ~spec.oidc /\ spec.tolerance = "none"
  /\ spec.tolerance # "none" => ValidateHighAvailabilityConfig(spec.tolerance)
  /\ spec.dataPlane # "none" => ValidateDataPlane(spec.dataPlane)

ToleranceKept(spec, old) ==
  spec.tolerance # "none" /\ old.tolerance # "none" =>
    spec.tolerance = old.tolerance

PlaneKept(spec, old) == (spec.dataPlane = "none") = (old.dataPlane = "none")

\* Mutant: the combination of fields is left to the Instance's webhook.
ValidDeployment_Separate(spec) ==
  /\ spec.tenant # None
  /\ spec.tolerance # "none" => ValidateHighAvailabilityConfig(spec.tolerance)
  /\ spec.dataPlane # "none" => ValidateDataPlane(spec.dataPlane)

ValidDeployment(spec) == ValidCommon(spec)

\* Mutant: the tenant may be changed.
ValidDeploymentUpdate_Tenant(spec, old) ==
  ToleranceKept(spec, old) /\ PlaneKept(spec, old)

ValidDeploymentUpdate(spec, old) ==
  /\ spec.tenant = old.tenant
  /\ ToleranceKept(spec, old)
  /\ PlaneKept(spec, old)

ValidInstance(spec) ==
  ValidCommon(spec) /\ spec.id # None /\ spec.target # None

ValidInstanceUpdate(spec, old) ==
  /\ spec.tenant = old.tenant /\ spec.id = old.id /\ spec.target = old.target
  /\ ToleranceKept(spec, old)
  /\ PlaneKept(spec, old)

\* Whether the API server stores spec in place of old.
DeploymentAdmitted(spec, old) ==
  \/ "deployment" \in skips
  \/ /\ ValidDeployment(spec)
     /\ old # Absent => ValidDeploymentUpdate(spec, old)

InstanceAdmitted(spec, old) ==
  \/ "instance" \in skips
  \/ /\ ValidInstance(spec)
     /\ old # Absent => ValidInstanceUpdate(spec, old)

\* mutateInstance: an Instance keeps the identifier and the target it has.
Mutated(id, target) ==
  [tenant |-> deployment.tenant, oidc |-> deployment.oidc,
   tolerance |-> deployment.tolerance, dataPlane |-> deployment.dataPlane,
   id |-> id, target |-> target]

InSync ==
  /\ instance # Absent
  /\ instance = Mutated(instance.id, instance.target)

\* The Instance still has a failure tolerance that the deployment has no more.
Lagging ==
  instance # Absent /\ instance.tolerance # "none" /\ deployment.tolerance = "none"

-----------------------------------------------------------------------------
Init ==
  /\ skips \in SUBSET {"deployment", "instance"}
  /\ deployment = Absent /\ instance = Absent
  /\ missed = FALSE /\ tolerances = {}

CreateDeployment ==
  /\ deployment = Absent
  /\ deployment' \in {s \in DeploymentSpecs : DeploymentAdmitted(s, Absent)}
  /\ UNCHANGED <<skips, instance, missed, tolerances>>

UpdateDeployment ==
  /\ deployment # Absent
  /\ deployment' \in {s \in DeploymentSpecs \ {deployment} :
                        DeploymentAdmitted(s, deployment)}
  /\ missed' = (missed \/ Lagging)
  /\ UNCHANGED <<skips, instance, tolerances>>

\* Had(s): the Instance has had spec s.
Had(s) == tolerances' = tolerances \cup ({s.tolerance} \ {"none"})

CreateInstance ==
  /\ deployment # Absent /\ instance = Absent
  /\ \E i \in Ids, t \in Targets :
       /\ InstanceAdmitted(Mutated(i, t), Absent)
       /\ instance' = Mutated(i, t)
  /\ Had(instance')
  /\ UNCHANGED <<skips, deployment, missed>>

\* The id and target that the Instance has are kept unless they are empty.
UpdateInstance ==
  /\ deployment # Absent /\ instance # Absent /\ ~InSync
  /\ LET new == Mutated(instance.id, instance.target) IN
     InstanceAdmitted(new, instance) /\ instance' = new
  /\ Had(instance') /\ missed' = FALSE
  /\ UNCHANGED <<skips, deployment>>

\* The update fails, and will be tried again.
InstanceRefused ==
  /\ deployment # Absent /\ instance # Absent /\ ~InSync
  /\ ~InstanceAdmitted(Mutated(instance.id, instance.target), instance)
  /\ UNCHANGED vars

\* The Instance is deleted with the deployment.
DeleteDeployment ==
  /\ deployment # Absent
  /\ deployment' = Absent /\ instance' = Absent
  /\ missed' = FALSE /\ tolerances' = {}
  /\ UNCHANGED skips

Next ==
  \/ CreateDeployment \/ UpdateDeployment \/ DeleteDeployment
  \/ CreateInstance \/ UpdateInstance \/ InstanceRefused

Spec == Init /\ [][Next]_vars

-----------------------------------------------------------------------------
(***************************************************************************)
(* Properties.                                                             *)
(***************************************************************************)
\* What is stored has the shape of its kind.
TypeOK ==
  /\ skips \subseteq {"deployment", "instance"}
  /\ deployment \in DeploymentSpecs \cup {Absent}
  /\ instance \in InstanceSpecs \cup {Absent}
  /\ instance # Absent => deployment # Absent /\ instance.id # None
  /\ missed \in BOOLEAN
  /\ tolerances \subseteq Tolerances \ {"none"}

\* An Instance belongs to the tenant of its deployment all the time, and so
\* to the customer who pays for it: the two webhooks and the controller's
\* copying agree on what cannot be changed.
SameTenant ==
  "deployment" \notin skips /\ instance # Absent =>
    instance.tenant = deployment.tenant

\* What the controller would store.
Copy == Mutated(instance.id, instance.target)

\* What the webhook of deployments accepts always gets past that of Instances.
\* This is refuted: see NotStuck.
Arrives ==
  deployment # Absent /\ "deployment" \notin skips =>
    IF instance = Absent
    THEN \A i \in Ids, t \in Targets : InstanceAdmitted(Mutated(i, t), Absent)
    ELSE InstanceAdmitted(Copy, instance)

\* What the webhook of deployments accepts gets past that of Instances, however
\* often users change a deployment before its Instance has followed, with one
\* exception: if a failure tolerance was removed and another one set before
\* the Instance had lost the first, every update of the Instance is refused.
\* Even then nothing but the tolerance is in the way:
\* the Instance can follow as soon as the deployment has its tolerance again.
NotStuck ==
  \/ Arrives
  \/ /\ missed /\ instance # Absent
     /\ InstanceAdmitted([Copy EXCEPT !.tolerance = instance.tolerance], instance)

\* The error message of both webhooks: the failure tolerance is immutable.
ToleranceImmutable ==
  skips = {} => Cardinality(tolerances) <= 1
=============================================================================
