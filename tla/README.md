# landscaper-service in TLA+

The landscaper-service runs *Landscaper as a Service*: users order a Landscaper
with a `LandscaperDeployment`, and controllers turn the order into an
`Instance`, schedule it on a target cluster (`ServiceTargetConfig`), have it
installed by a central Landscaper (`Installation`) and give the users access to
the cluster they work on. This directory holds TLA+ modules that model the
controllers, TLC configurations that check them on small instances, and proofs
for TLAPS.

All paths below are relative to `src/`.

## 1. The system

Three processes, which share state only through Kubernetes API servers:

* **landscaper-service-controller** (`cmd/landscaper-service-controller`) on the
  core cluster, with six controllers: LandscaperDeployment, Instance,
  ServiceTargetConfig, AVMonitorRegistration, HealthWatcher and AVUploader. No
  leader election is configured (`app.go`). The client does not cache
  (`pkg/utils/uncached_client.go`), so a read returns what is stored.
* **the sidecar server** (`cmd/landscaper-service-target-shoot-sidecar-server`)
  on every resource cluster, with the NamespaceRegistration and SubjectSync
  controllers.
* **the webhooks server** (`cmd/landscaper-service-webhooks-server`), which
  validates LandscaperDeployments, Instances, ServiceTargetConfigs and
  TargetSchedulings.

Each controller has one worker. It never works on one object twice at the same
time, but the workers of different controllers run concurrently, and the users,
the Landscaper, the API server and the garbage collector write at any time. A
reconcile is a sequence of API calls; between two of them everything else can
happen, each of them can fail, and the process can be restarted. The API server
refuses an update made with an outdated `resourceVersion`.

| component | state it keeps | operations | makes it correct |
|---|---|---|---|
| LandscaperDeployment controller (`pkg/controllers/landscaperdeployments`) | deployment status: `instanceRef`, phase; finalizer | create or update the Instance, schedule it, list it in the ServiceTargetConfig, delete it | one Instance per deployment; target and ID fixed for life; the deployment goes only after its Instance |
| Scheduling (`…/landscaperdeployments/scheduling`) | none | evaluate rules, filter, pick by priority | the rule with the highest priority wins; restricted targets are never chosen without a rule |
| Instance controller (`pkg/controllers/instances`) | references to the owned objects, shoot name; finalizer | create Context, Targets, Installation in order; take them down in reverse order | nothing is orphaned, imports outlive the Installation, one cluster is ordered |
| ServiceTargetConfig controller (`pkg/controllers/servicetargetconfigs`) | observed generation, finalizer | set and remove the finalizer | `status.instanceRefs` is the list of Instances on it |
| HealthWatcher, AVMonitorRegistration, AVUploader | the AvailabilityCollection | register Instances, collect their health, upload it | exactly the established Instances are watched; a lasting failure is reported after its timeout; what was not uploaded is not taken for reported |
| NamespaceRegistration controller | phase, finalizer, namespace, roles | create or delete a customer namespace | nothing is left without a registration that will take it down; access ends before the namespace; retried until done |
| SubjectSync controller | the subjects of the role bindings | copy the SubjectList to all bindings | bindings follow the list; only administrators get rights to write |
| Webhooks and validation (`pkg/webhook`, `pkg/apis/validation`) | none | accept or deny an object | what the controllers take as fixed is fixed |

Interactions: the deployment controller writes the Instance's spec and its
ignore annotation, and appends it to the ServiceTargetConfig's status; the
Instance controller removes it there. The Landscaper acts on Installations and
reads the Context and Targets they import. Events of owned objects (`Owns` in
`add.go`) put the owner into the work queue again.

What is hard here: a reconcile is interrupted at any call, by a failure, a
conflict or a restart; objects are created under generated names and the names
stored one call later; the status of a ServiceTargetConfig has several writers;
deletions span several objects, reconciles and clusters, and go on only if some
event comes. `PROJECT.json` lists each of these hazards at its line, with the
properties that would catch it going wrong.

## 2. Modules

How a controller is modelled. Each worker has a position (`pc`) and a copy of
the object it works on; **one action is one API call** with the code up to the
next. A call has three outcomes: it works (`ok`), it fails without effect
(`fail`), or it takes effect but the answer is lost (`lost`); the last two are
counted by `MaxFaults`. The boolean `fresh` says that the copy has the stored
`resourceVersion`: a write by somebody else makes it false, and an update with
a copy that is not fresh is a conflict, which costs nothing from the bound.
`Restart` forgets everything a worker knows and queues every object again.
Generated names are 1, 2, … in the order of creation. Names of actions are
those of the functions they model; `map` in `PROJECT.json` gives the lines.

| module | models | in |
|---|---|---|
| `Instances` | one Instance, its Context, Targets, Installation, the namespace on the target cluster; the Landscaper and API server as far as they act on these | `pkg/controllers/instances` |
| `LandscaperDeployments` | several deployments, their Instances, ServiceTargetConfigs with their lists; two workers | `pkg/controllers/landscaperdeployments`, `…/servicetargetconfigs`, the end of `…/instances/reconcile_delete.go` |
| `InstanceLifecycle` | abstract: what an Instance promises; `Instances` and `LandscaperDeployments` implement it | |
| `Selectors` | terms that select deployments: what the webhook accepts, what the scheduler makes of them | `…/scheduling/selector.go`, `pkg/apis/validation/targetscheduling.go` |
| `Scheduling` | rules, priorities, the sort and the choice; deployments assigned one after the other | `…/scheduling`, `…/landscaperdeployments/reconcile.go` |
| `FairShare` | abstract: what the default scheduling promises; `Scheduling` implements it | |
| `NamespaceRegistration` | one registration, its namespace, roles, what users put into it; Landscaper and API server | `pkg/controllers/namespaceregistration` |
| `SubjectSync` | the SubjectList, all role bindings, and the two controllers and the start of the process that write them | `pkg/controllers/subjectsync`, parts of `…/namespaceregistration` and of the sidecar server |
| `Availability` | the AvailabilityCollection, its three controllers, the Instances and health checks they read, the service they report to | `…/avmonitorregistration`, `…/healthwatcher`, `…/avuploader` |
| `Admission` | the webhooks of deployments and Instances and the copying of the spec between them | `pkg/apis/validation`, `pkg/webhook`, `…/landscaperdeployments/reconcile.go` |
| `InstancesProofs`, `InstanceLifecycleProofs`, `LandscaperDeploymentsProofs`, `NamespaceRegistrationProofs`, `SubjectSyncProofs`, `AvailabilityProofs`, `AdmissionProofs`, `SchedulingProofs` | the theorems | |
| `MCLandscaperDeployments`, `MCScheduling`, `MCSubjectSync` | instances for TLC | |

`Instances`. `inst` is the stored Instance, `mem` the worker's copy. `objs` says
of each kind and name whether the object is unused, present, deleting or gone;
`install` holds what an Installation imports, names, and has deployed. The
reconcile creates the objects in the order of `GotoAfter`, each by `Ensure` (one
`CreateOrUpdate`) followed by `StoreRef`; `StoreEmptyRef` is the write of a
reference with an empty name, which the code makes for the Targets before it
looks at the error. The deletion follows `GotoAfterRemoval`. Contents of Targets,
secrets, roles and import values are left out.

`LandscaperDeployments`. `pc … refsFresh` belong to the worker of the deployment
controller, `ipc … irefsFresh` to the worker of the Instance controller, of
which only the finalizer and the last steps of a deletion are here. Which of
the visible ServiceTargetConfigs is chosen is left open; that is the subject of
`Scheduling`. A read that fails at the start of a reconcile only keeps the key
queued, which is a stuttering step. Status writes of the Instance by its own
controller are not there; for the deployment controller they mean a conflict,
as the write of the finalizer does.

`InstanceLifecycle` connects the two. It knows of an Instance only whether it is
there, protected by its finalizer, what it holds, whether it is listed and
whether it has been taken out of the list for its end. `Instances` maps the
references in the status to what is held and the position before the removal of
the finalizer to `released`; `LandscaperDeployments` maps each of its Instances,
with nothing held as it does not see the objects. What one module takes the
Instance controller to do is so what the other shows it to do.

`Selectors` and `Scheduling`. A term is the set of its conditions that are not
nil, the deployments that meet it, and its subterms. `Terms` is a set of terms
that has the subterms of each, and `Nesting` says how deep each is nested, so
that what the code computes by calling itself is a recursive function on `Terms`
(`Valid`, `Evaluate`); a list of results is evaluated as in the code, from left
to right with an early end (`Chain`). `Scheduling` considers the rules one after
the other (`Considered`), the stable sort is a sequence of insertions
(`Sorted`), and products are taken modulo the width of an integer (`Wrap`, with
`IntBound` for 2^63); the configs come out of a Go map, so the choice ranges
over the results for all orders. The list of Instances (`refs`) is written one
step after the choice (`assigned`), as in the code. A deletion is three steps
that need not come in one order: the Instance is deleted, its entry goes, and
the Instance goes; an entry written too late, or of an Instance that never had
its finalizer, stays (`stale`), as run `deployments_dangling` shows it does. For
more than 20 elements Go merges sorted blocks instead of inserting; that is the
same as long as the order is one, that is without overflow, and with an overflow
nothing is claimed but that one of the configs is chosen.

`FairShare` is the promise behind priority / (Instances + 1): a deployment goes
to a target with the best claim. `steady` says that nothing else has assigned
deployments, that each was listed before the next scheduling, and that no
product has overflowed. A deleted deployment may be counted as long as its
Instance or its entry is there (`lingering`), which may be for good. Then the
loads stay in proportion to the priorities, up to what was `removed`
(`Balanced`).

`NamespaceRegistration`. `reg` and `copy` are the stored registration and the
worker's copy; `insts` the root Installations of the namespace, with what keeps
the Landscaper from uninstalling; `loose` the kinds of other objects the
deletion looks for; `seen` and `current` are the listed copies of Installations
and whether they are up to date. Only metadata and spec changes are events
(`GenerationChangedPredicate` and the like), so every path has to requeue.

`SubjectSync`. A binding is a pair of a role and a place; `subjects` says whom
it binds. `admins` and `raced` are history: who has ever been listed as
administrator, and the namespaces whose bindings were being created when the
list was last written.

`Availability`. Time passes by `Tick` in the unit of stored timestamps. The
worker of the HealthWatcher reads Instance by Instance, so the world changes
between two of them; `service`, `noticed`, `skipped` and `again` are history the
properties need.

`Admission` has every spec of a deployment, valid or not, every update of it,
the controller that copies it to the Instance, and the label that turns a
webhook off for an object.

All modules contain definitions marked *Mutant* (or *Faulty*): plausible bugs
that take the place of one definition, to show that a property would notice
them. No action uses them. Every module has a `TypeOK`. It holds in the runs
below too, but is not listed in the configurations, as it only says that
variables have their types; the proofs rest on it.

## 3. Runs

| run | bounds | states | shows |
|---|---|---|---|
| `instances` | 3 names, 2 shoot names, 2 specs, 1 fault, 1 object deleted by hand | 1.8 million | `ImportsComplete`: no Installation with a missing import; `OneShoot`: one cluster ordered, also by orphans; `ImportsAlive`; `CleanExit`; `RefStability`; `ReleasedLast`: the Instance leaves the list of its ServiceTargetConfig only when it references nothing and its namespace on the target cluster is gone; `IndInv`; `KeepsLifecycle` |
| `instances_live` | 3 names, 2 specs, 1 fault | 130 000 | `DeletionCompletes`, `SpecDeployed` |
| `instances_orphan` | 2 names, no fault | | finding: `OneInstallation` is **violated** |
| `deployments` | 2 deployments, 2 targets, 3 names, 1 fault, 1 direct deletion or recreation; symmetric in deployments and in targets | 1.4 million | `OneInstance`, `NoOrphan`, `NotForgotten`, `NoLostEntry`, `ReleasedFirst`, `KeepsLifecycle` |
| `deployments_live` | 1 deployment, 2 targets, 2 names, 2 specs, 1 of each disturbance, also a change of labels and the deletion of a target | 505 000 | `DeletionCompletes`, `SpecArrives`, `TargetFixed`: an Instance stays on its target however labels, lists and specs change |
| `deployments_dangling` | 1 of each, no disturbance | | finding: `ListedAreUsers` is **violated** |
| `scheduling` | 4 deployments, 4 configs (one restricted with a high priority, one invisible), lists of up to 2 of 7 rules, 1 change of the rules, 1 deletion, `IntBound` 20; all terms of up to 3 levels and 2 subterms | 1.2 million | `PickAsDocumented`, `FailureJustified`, `AcceptedSchedules`, `EvaluatedAsMeant`, `SharesFairly` |
| `registration` | 2 Installations, all 4 strategies, 1 fault, 2 interventions of users, 2 creations, 1 failed uninstallation; fair | 305 000 | `Accounted`, `CompletedIsUsable`, `AccessEndsFirst`, `KeptWithoutUninstall`, `DeletionCompletes`, `CreationCompletes` |
| `subjects` | 1 customer namespace, 1 foreign one, 2 entries (one of an unknown kind), 2 writes, 1 fault, 1 meddling; fair | 637 000 | `OnlyAdmins`, `BindingsFollow` |
| `availability` | 1 Instance and the own Landscaper, interval and timeout 1, time 3, 3 changes, 1 fault | 5.6 million | `ReportedWasUploaded`, `UploadIsCurrent`, `RegisteredAtRest`, `FailureSurfaces` |
| `availability_live` | 2 Instances and the own Landscaper, interval and timeout 1, time 2, 2 changes, no further reports of a health check, 1 fault; fair | 2.4 million | `RunsKeepUp`, also after one of two registered Instances is gone |
| `admission` | 2 tenants, 1 ID, 1 target, webhooks on or off | 174 000 | `SameTenant`, `NotStuck` |

Why the bounds are enough to be of interest. A second generated name is needed
for an orphan, a third for an orphan after an object was deleted by hand. One
fault already separates a creation from the write of its reference; conflicts
are not bounded by it, they come from the other actors. Two deployments make
two Instances meet in one list; two targets let an Instance move if the code
allowed it. Two specs let a change come in during a reconcile. Two rules make
their order matter; four deployments on configs of priority 3 and 2 show the
proportion, and an `IntBound` of 20 lets a product of priority 8 and a usage of
3 wrap. Two creations let a registration meet the namespace of the one before.
Three seconds with a timeout of one are enough for a failure to be seen, kept
over a run, and reported. `MaxReports` is the change up to which health checks
report anew; `availability_live` does without, as the runs do not depend on what
is reported, and has two Instances instead, so that a registered one can be gone
while another remains. The theorems of section 5 hold without these bounds.

Deadlock is not checked where the system may come to rest: everything is
deleted, or nothing is queued.

**Findings.**

* `OneInstallation` (`docs/usage/Instances.md:11`): when the status update after
  the creation of an Installation meets a conflict, its name is lost and the
  next reconcile creates another one. The counterexample has no failure, only a
  write by the deployment controller. `OneShoot` shows how far this goes: the
  two Installations name the same shoot.
* `ListedAreUsers` (`docs/usage/ServiceTargetConfigs.md:86`): a deployment
  deleted before the Instance has its finalizer leaves the entry of the Instance
  in the list for good. `ReleasedFirst` is what does hold: an Instance with a
  finalizer has left the list when it goes. Instances that somebody has deleted
  directly (`direct`), and later ones of the same name, are excepted: the
  deployment controller may list them between their release and their end.

**Stated, but refuted.** These properties are what a document or a comment
says. TLC finds a counterexample to each when it is added to the configuration
of its module; next to each stands the property that does hold and is checked.

| property | what happens | what holds |
|---|---|---|
| `NamespaceRegistration!KeptForInstallations` | an Installation created after the list was read goes with the namespace | `AccessEndsFirst`, `KeptWithoutUninstall` |
| `NamespaceRegistration!ReleasedAfterNamespace` | the finalizer goes while the namespace terminates | `Accounted` |
| `SubjectSync!BindingsInSync` | a binding created with subjects read before the last change stays so | `BindingsFollow` |
| `Availability!NewerUploads` | a status is sent again after a conflict or a restart | `ReportedWasUploaded` |
| `Availability!EveryStatusUploaded` | two runs in one second have the same time | `UploadIsCurrent` |
| `Availability!AllCollected` | an Instance is passed over without an entry | `FailureSurfaces` |
| `Availability!AllRegistered` | an Installation that could not be loaded, or no Instance | `RegisteredAtRest` |
| `Availability!RunsAlways` | without any Instance nothing updates the list, and every run fails | `RunsKeepUp` |
| `Admission!ToleranceImmutable` | the failure tolerance is removed and added with another value | `NotStuck` |
| `Admission!Arrives` | the failure tolerance zone is removed and node is set before the Instance has followed: its webhook refuses the update, and every later one until the deployment has zone or none again | `NotStuck` |

Two more exceptions are part of the checked properties themselves: products that
do not fit into an int64 (`Overflow` in `PickAsDocumented`), and empty lists of
alternatives, which the webhook accepts and the scheduler refuses
(`HasEmptyList` in `AcceptedSchedules`).

## 4. Fairness

`Instances!Fairness` lets the worker, the Landscaper and the API server go on
with what is enabled: the queue hands out a key as long as there is one, retries
are unlimited, and the Landscaper is a controller of the same kind. Nothing is
assumed of users, of failures or of the automatic reconcile, so the deletion has
to be carried by events and the requeue for the namespace. In
`LandscaperDeployments` each worker goes on (weak fairness), and since its queue
is first-in-first-out, no key waits forever while others are served (strong
fairness of picking a given key; for the Instance worker one for each Instance,
whether it is to be reconciled or deleted).

`NamespaceRegistration` and `SubjectSync` assume the same of their workers, of
the Landscaper and of the API server that empties a terminating namespace;
users may always stop. `Availability` adds that time passes, up to the bound on
it. Its health checks and Instances need not change.

`DeletionCompletes` of deployments is stated under the condition that no
ServiceTargetConfig goes: the code removes its finalizer without regard to the
Instances on it (`servicetargetconfigs/controller.go:73`, marked TODO), and then
their deletion fails for good. `SpecArrives` needs a visible
ServiceTargetConfig, as scheduling fails without one. `DeletionCompletes` of a
registration is stated unless it waits for users (`Blocked`): for Installations
under the strategy that leaves them alone, or for objects it does not delete.

## 5. Proofs

The theorems hold for every value of the constants that meets the assumptions
named in the module (`NamesAssumption`, `BoundsAssumption` and the like): any
number of names, deployments, targets, namespaces and Instances, any number of
faults and of interventions. The assumptions exclude no value the code could
have: the bounds are numbers, and those without which nothing happens are not
zero; resources of different kinds, and the markers for none, have different
names; intervals and timeouts are not zero, as the defaults replace a zero
(`pkg/apis/config/v1alpha1/defaults.go:45`); a term is nested to a finite depth,
and a negation has a subterm, as it is a pointer.

| module | theorem | states |
|---|---|---|
| `InstancesProofs` | `TypeCorrect`, `Inductive` | `TypeOK`, `IndInv` |
| | `ImportsAreComplete` | `ImportsComplete` |
| | `OnlyOneShoot` | `OneShoot` |
| | `ImportsStayAlive` | `ImportsAlive` |
| | `NothingStaysBehind` | `CleanExit` |
| | `ReferencesAreStable` | `RefStability` |
| | `ReleasedIsLast` | `ReleasedLast` |
| | `LifecycleIsKept` | `KeepsLifecycle`, the refinement of `InstanceLifecycle` |
| | `NothingIsLeftBehind` | `Lifecycle!NothingBehind` |
| `InstanceLifecycleProofs` | `NothingLeftBehind` | `NothingBehind` |
| `LandscaperDeploymentsProofs` | `TypeCorrect` | `TypeOK` |
| | `AtMostOneInstance` | `OneInstance` |
| | `NoInstanceOrphaned` | `NoOrphan` |
| | `MissingEntryIsWork` | `NotForgotten` |
| | `TargetIsFixed` | `TargetFixed` |
| | `NoEntryIsLost` | `NoLostEntry` |
| | `ReleasedBeforeGone` | `ReleasedFirst` |
| | `LifecyclesAreKept` | `KeepsLifecycle`, the refinement of `InstanceLifecycle` |
| `NamespaceRegistrationProofs` | `TypeCorrect` | `TypeOK` |
| | `NothingLeftBehind` | `Accounted` |
| | `CompletedMeansUsable` | `CompletedIsUsable` |
| | `NoAccessWhileTerminating` | `AccessEndsFirst` |
| | `NothingUninstalled` | `KeptWithoutUninstall` |
| `SubjectSyncProofs` | `TypeCorrect`, `AccessForAdminsOnly` | `TypeOK`, `OnlyAdmins` |
| `AvailabilityProofs` | `TypeCorrect` | `TypeOK` |
| | `NothingTakenForReported` | `ReportedWasUploaded` |
| | `ServiceIsCurrent` | `UploadIsCurrent` |
| | `RegistrationSettles` | `RegisteredAtRest` |
| | `FailuresSurface` | `FailureSurfaces` |
| `AdmissionProofs` | `TypeCorrect`, `TenantsAgree`, `AcceptedArrives` | `TypeOK`, `SameTenant`, `NotStuck` |
| `SchedulingProofs` | `NeverGuesses` | `NoGuess`, of all terms |
| | `AcceptedDecides` | `AcceptedIsDecided`, of all terms |
| | `TermsAreEvaluatedAsMeant` | `EvaluatedAsMeant` |
| | `PicksAsDocumented` | `PickAsDocumented` |
| | `FailuresAreJustified` | `FailureJustified` |
| | `AcceptedRulesSchedule` | `AcceptedSchedules` |
| | `SharesAreFair` | `SharesFairly`, the refinement of `FairShare` |
| | `SharesAreBalanced` | `Share!Balanced` |

The way is the same everywhere. A safety property is hardly ever inductive: what
a worker writes depends on what its copy held when it made earlier calls. Each
proof module states an `IndInv` (`IInv` in `SchedulingProofs`), in named parts,
that says what copy, position and store have to do with each other. TLC has
found no violation of it with the constants of the module's run. There is a
lemma for each action, or for a group of actions with the same effect, that says
that the action keeps the invariant; the invariants follow from `IndInv`, the
action properties from `IndInv` at the start of a step.

`Instances`. `CopyInv` says that the copy has the stored deletion state while it
is fresh, and the stored references but for the one the worker is about to
write; this is where it matters that only this controller writes the status,
from one worker. `CreateInv` and `RemoveInv` say what is referenced, or no
longer referenced, at each position of a creating or a deleting reconcile,
`StoredInv` and `PendingInv` that references name created objects and agree with
what an Installation imports.

That the refinement holds (`LifecycleIsKept`) needs `LifeInv` in addition. The
abstract conditions are about the stored Instance, the code looks at its copy;
`LifeInv` has what the copy says at each position, above all of the finalizer,
and that a reference which only the copy has lost was taken out in order. A
status update then is `Acquire` or `GiveUp` of the object that the reconcile is
about, or changes nothing, since copy and store differ in no other reference.

`NothingStaysBehind` follows the namespace on the target cluster, unless an
Installation is left behind, which may create it again, or an object is deleted
by hand. What could go wrong is an orphaned Installation that is deployed once
more after the namespace was removed, and then uninstalled. `ExitInv` has the
argument against it in four parts: nothing is made before the finalizer is there
(`FinalizerInv`); an Installation, orphaned or not, imports what is referenced,
or what is gone for good (`ImportsGoInv`); only the referenced Installation is
deleted while the Instance is there (`DeletingInv`), and a later uninstallation
lacks its imports; and so no Installation goes once the worker has passed the
namespace (`NamespaceInv`). From the same invariant `ReleasedIsLast` has that the
namespace is gone when the Instance is taken off the list.

`InstanceLifecycleProofs` proves what the refinement is good for: an Instance
without its finalizer, so one that is gone, refers to nothing, and an
Installation is never without what it needs. `NothingIsLeftBehind` instantiates
this with the refinement mapping of `Instances`.

`LandscaperDeployments`. `OneInstance` is not inductive because an Instance is
created under a generated name and the reference stored two calls later. `Only`
says what a reference means, the stored one, that of the copy and the name at
hand: it is the only Instance of the deployment, if there is one. `NameInv` says
that there is none where the worker creates one, where the lookup by label
(`ensure`) has found none, and where it gives up the finalizer. `TargetInv` and
`InstanceWorkerInv` say of each list at hand that it is the stored one unless
the update will be refused; `NoLostEntry` follows. `ReleasedFirst` needs
`UndisturbedInv`, which speaks of every Instance that nobody has deleted
directly, whatever happens to the others: if it is deleted, so is its
deployment, and the worker knows it and does not list the Instance again. The
refinement (`LifecyclesAreKept`) sorts all steps into six kinds by what they do
to one Instance (`StepKinds`) and maps each kind.

`NamespaceRegistration`. `Fits` is what the registration has to say of the
namespace; `WorkerInv` says what a worker past the finalizer, or at the deletion,
may rely on, `ProgressInv` which roles and bindings exist at each step of the
creation and of the deletion. `ProgressInv` is where the order of the calls
matters, so the steps are tuples in that order (`CreateSteps`, `DeleteSteps`).
`TriggerInv` says that an Installation about to be deleted is as it was listed
if the API server accepts the write.

`SubjectSync`. `CopiesInv` says that every copy of the users, however old, holds
only subjects that were administrators when it was read, so they are in `admins`;
`BindingsInv` carries it over to the bindings, and `PlacesInv` keeps the workers
off foreign namespaces.

`Availability`. `NoticedInv` and `WatcherInv` follow a failure from its first
observation through the status, the run's copy of it and the update that may be
refused. `RegistrationInv` says what the list in the making lacks, `UploaderInv`
what has been sent, and `PastInv` orders the times, none of which is in the
future.

`SchedulingProofs`. The state is simple, and the invariant (`IInv`) little more
than the types: an entry that is not stale is that of the deployment's Instance
(`Tracked`), and the webhook has let the rules pass. What is hard is what one
step computes, by three recursions: over the rules, over the configs to be
sorted, and over nested terms. The induction is done with sets. A set of natural
numbers that is not empty has a least element (`LeastNumber`), as the intervals
below its elements are finite and the strict subset order on finite sets is
well-founded (a theorem of the library); so a set that has 0 and all successors
has every number (`SetInduction`). From this come the existence of a recursive
function on an interval (`PrimitiveRecursion`) and on `Terms`, by their nesting
(`TermRecursion`), which a definition by recursion needs before anything can be
said of it, and induction over terms (`TermInduction`). With them:

* `SoFar` says what is known after the first *n* rules: if there is no error,
  the highest priority is that of a matching rule and no matching rule has a
  higher one, the candidates are the configs of the matching rules of that
  priority, and every malformed rule was passed over for a matching one before
  it. For all rules this is `ConfigsForIsDocumented`.
* `HeadFirst` says of the first *n* configs inserted that none is missing and
  that, unless a product overflows, the first has the highest number. It needs
  that the comparison of products is transitive (`FractionsTransitive`), which
  is where the overflow matters.
* `NeverGuesses` and `AcceptedDecides` follow the evaluation of a term; there is
  one lemma for each kind of term (`OrAsMeant`, `AndAsMeant`, `NotAsMeant`).

The refinement of `FairShare` has to show that a scheduling that only sees the
lists counts what is assigned, and no more than the deleted ones with it
(`UsageIsBounded`). `SharesAreBalanced` draws the conclusion: a deletion takes
from the load of a config what it adds to `removed` (`OthersKeepDue`). It holds
if no priority is negative (`PrioritiesAreNat`; the type
of the field allows negative ones, so it is not an assumption).

`AdmissionProofs`. `NotStuck` is not inductive: that an update is admitted
depends on what was admitted before. The invariant adds that an Instance is
complete (`Complete`), and that what is stored for a checked deployment is valid
and can be copied, but for a failure tolerance whose removal the Instance has
missed (`Copyable`). It needs no assumption on how fast users make their changes.

**Only model-checked** is liveness under fairness, which is out of the prover's
reach: `DeletionCompletes` and `SpecDeployed` of Instances, `DeletionCompletes`
and `SpecArrives` of deployments, `DeletionCompletes` and `CreationCompletes` of
registrations, `BindingsFollow`, `RunsKeepUp`.

## 6. Plan

The modules were written in the order of the table in section 2, the most
important behaviour first: the Instance controller and the deployments, then
scheduling, registrations, subjects, availability and admission. All of them are
written, and every safety property a run checks is proved, the refinements
included. What could be added:

1. The upgrade of the processes, with two of them running at once for a while.
2. The contents of Targets and secrets, with the rotation of the tokens in them.

## 7. Not modelled

Configuration, defaults, import names and blueprints, error texts, start-up
(but for what the sidecar server creates) and CRD management are data or run
once; they have no behaviour of their own to check. The webhook of
ServiceTargetConfigs looks at single fields. Two processes at once, possible
while a new version is rolled out because no leader is elected, are not
modelled: names and IDs drawn at the same time could then collide. The
Landscaper and Gardener are external; of them only what the controllers wait
for is modelled.
