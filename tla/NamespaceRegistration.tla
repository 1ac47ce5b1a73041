----------------------- MODULE NamespaceRegistration -----------------------
(***************************************************************************)
(* The NamespaceRegistration controller (pkg/controllers/namespace-        *)
(* registration) of the sidecar server: one registration, the customer     *)
(* namespace it asks for, the roles and bindings in it, and what users     *)
(* put there.  The Landscaper, which carries out the deletion of an        *)
(* Installation, and the API server, which empties a terminating           *)
(* namespace, are external.                                                *)
(*                                                                         *)
(* The controller has one worker and makes one API call per action.  It    *)
(* looks at a registration again only after 30 seconds or when metadata or *)
(* spec change: its own writes of status and finalizers cause no event.    *)
(*                                                                         *)
(* Left out: status.lastError, which nothing reads but to avoid a write;   *)
(* the subjects of the bindings (module SubjectSync); subinstallations,    *)
(* Executions and DeployItems of an Installation, which go with it.        *)
(***************************************************************************)
EXTENDS Integers, Sequences

CONSTANTS
  Installations,  \* names of root Installations in the namespace
  Strategies,     \* on-delete strategies the users choose from
  MaxFaults,      \* bound: failed calls and restarts of the process
  MaxUser,        \* bound: what users do in the namespace and to the strategy
  MaxRegs,        \* bound: times the registration is created
  MaxFailures     \* bound: failed uninstallations

AllStrategies == {"default", "all", "allWithoutUninstall", "unknown"}

ASSUME StrategiesAssumption == Strategies \subseteq AllStrategies
ASSUME BoundsAssumption ==
  /\ MaxFaults \in Nat /\ MaxUser \in Nat
  /\ MaxRegs \in Nat \ {0} /\ MaxFailures \in Nat

VARIABLES
  wellNamed,  \* the name of the registration starts with "cu-"
  reg,        \* the stored registration
  ns,         \* the namespace
  access,     \* the roles and bindings in the namespace
  insts,      \* the root Installations in it
  loose,      \* kinds of objects in it that belong to no root Installation
  queued,     \* the registration is in the work queue or will be after 30s
  pc,         \* the worker's next call
  copy,       \* its copy of the registration
  fresh,      \* the copy has the stored resource version
  todo,       \* the listed Installations it has not dealt with
  seen,       \* its copies of the listed Installations
  current,    \* the Installations of which that copy is up to date
  faults, user, regs, failures  \* what the bounds count

worker == <<pc, copy, fresh, todo, seen, current>>
content == <<access, insts, loose>>
vars == <<wellNamed, reg, ns, content, queued, worker,
          faults, user, regs, failures>>

-----------------------------------------------------------------------------
(***************************************************************************)
(* Data.                                                                   *)
(***************************************************************************)
Phases == {"", "Creating", "Completed", "Deleting", "Failed"}

Registrations ==
  [state: {"none", "present", "deleting"}, finalizer: BOOLEAN,
   phase: Phases, strategy: AllStrategies]

NoReg == [state |-> "none", finalizer |-> FALSE, phase |-> "",
          strategy |-> "default"]

\* job is the deletion job of the Landscaper: JobID and JobIDFinished differ
\* while it runs.
InstallationStates ==
  [state: {"none", "present", "deleting"},
   keep: BOOLEAN,   \* delete-without-uninstall annotation
   op: BOOLEAN,     \* reconcile annotation
   job: {"none", "running", "done"}]

NoInst == [state |-> "none", keep |-> FALSE, op |-> FALSE, job |-> "none"]

\* In the order in which they are created, and the steps that do so.
Access == <<"userRole", "userBinding", "viewerRole", "viewerBinding">>
AllAccess == {Access[k] : k \in DOMAIN Access}
CreateSteps == <<"createUserRole", "createUserBinding",
                 "createViewerRole", "createViewerBinding">>

\* In the order in which they are deleted.
Revocation == <<"userBinding", "userRole", "viewerBinding", "viewerRole">>
DeleteSteps == <<"deleteUserBinding", "deleteUserRole",
                 "deleteViewerBinding", "deleteViewerRole">>

LooseKinds == {"subinstallation", "execution", "deployItem", "targetSync"}

Steps == {"idle", "refuse", "finalizer", "storeCreating", "createNamespace",
          "loadSubjects", "storeCompleted", "getNamespace", "storeDeleting",
          "installations", "trigger", "executions", "deployItems",
          "targetSyncs", "deleteTargetSyncs", "deleteNamespace", "unfinalize"}
         \cup {CreateSteps[k] : k \in DOMAIN Access}
         \cup {DeleteSteps[k] : k \in DOMAIN Revocation}

Present == {i \in Installations : insts[i].state # "none"}

Init ==
  /\ wellNamed \in BOOLEAN
  /\ reg = NoReg /\ ns = "none"
  /\ access = {} /\ loose = {}
  /\ insts = [i \in Installations |-> NoInst]
  /\ queued = FALSE
  /\ pc = "idle" /\ copy = NoReg /\ fresh = FALSE
  /\ todo = {} /\ seen = insts /\ current = {}
  /\ faults = 0 /\ user = 0 /\ regs = 0 /\ failures = 0

-----------------------------------------------------------------------------
(***************************************************************************)
(* API calls.                                                              *)
(***************************************************************************)
Outcomes == {"ok", "fail", "lost"}

\* A call succeeds, fails without effect, or takes effect without an answer.
Outcome(o) ==
  IF o = "ok" THEN UNCHANGED faults
  ELSE faults < MaxFaults /\ faults' = faults + 1

Goto(step) == pc' = step /\ UNCHANGED <<copy, fresh, todo, seen, current, queued>>

Forget ==
  /\ pc' = "idle" /\ copy' = NoReg /\ fresh' = FALSE
  /\ todo' = {} /\ seen' = [i \in Installations |-> NoInst] /\ current' = {}

Finish == Forget /\ UNCHANGED queued

\* The error is stored if possible, and the registration requeued after 30s.
Retry == Forget /\ queued' = TRUE

\* An update of the registration with the worker's copy.
Stores(o, r, next) ==
  /\ Outcome(o)
  /\ IF fresh /\ o # "fail" THEN reg' = r ELSE UNCHANGED reg
  /\ IF fresh /\ o = "ok"
     THEN /\ pc' = next /\ copy' = r
          /\ UNCHANGED <<fresh, todo, seen, current, queued>>
     ELSE Retry
  /\ UNCHANGED <<wellNamed, ns, content, user, regs, failures>>

StoresPhase(o, phase, next) ==
  Stores(o, [copy EXCEPT !.phase = phase], next)

\* A last update, after which the reconcile is over.
StoresLast(o, r) ==
  /\ Outcome(o)
  /\ IF fresh /\ o # "fail" THEN reg' = r ELSE UNCHANGED reg
  /\ IF fresh /\ o = "ok" THEN Finish ELSE Retry
  /\ UNCHANGED <<wellNamed, ns, content, user, regs, failures>>

\* What a failed call leaves alone.
Fails == Outcome("fail") /\ Retry
         /\ UNCHANGED <<wellNamed, reg, ns, content, user, regs, failures>>

-----------------------------------------------------------------------------
(***************************************************************************)
(* Creation of the namespace.                                              *)
(***************************************************************************)

\* Where a reconcile goes on once the finalizer is set.
AfterFinalizer(r) ==
  CASE r.state = "deleting" -> "getNamespace"
    [] r.state = "present" /\ r.phase = "Completed" -> "idle"
    [] r.state = "present" /\ r.phase = "" -> "storeCreating"
    [] OTHER -> "createNamespace"

FirstStep ==
  CASE ~wellNamed -> IF reg.phase = "Failed" THEN "idle" ELSE "refuse"
    [] reg.state = "present" /\ ~reg.finalizer -> "finalizer"
    [] OTHER -> AfterFinalizer(reg)

Reconcile ==
  /\ pc = "idle" /\ queued
  /\ queued' = FALSE
  /\ IF reg.state = "none" \/ FirstStep = "idle" THEN Forget
     ELSE /\ pc' = FirstStep /\ copy' = reg /\ fresh' = TRUE
          /\ UNCHANGED <<todo, seen, current>>
  /\ UNCHANGED <<wellNamed, reg, ns, content, faults, user, regs, failures>>

\* A registration with a wrong name is marked and left alone.
Refuse(o) ==
  pc = "refuse" /\ StoresLast(o, [copy EXCEPT !.phase = "Failed"])

\* Mutant: the reconcile ends here, as if an event would follow.
SetFinalizer_Ends(o) ==
  pc = "finalizer" /\ StoresLast(o, [copy EXCEPT !.finalizer = TRUE])

\* Mutant: the namespace is created though the update failed.
SetFinalizer_GoesOn(o) ==
  /\ pc = "finalizer"
  /\ Outcome(o)
  /\ IF fresh /\ o # "fail" THEN reg' = [copy EXCEPT !.finalizer = TRUE]
     ELSE UNCHANGED reg
  /\ Goto("createNamespace")
  /\ UNCHANGED <<wellNamed, ns, content, user, regs, failures>>

SetFinalizer(o) ==
  /\ pc = "finalizer"
  /\ LET r == [copy EXCEPT !.finalizer = TRUE]
     IN IF AfterFinalizer(r) = "idle" THEN StoresLast(o, r)
        ELSE Stores(o, r, AfterFinalizer(r))

StoreCreating(o) ==
  pc = "storeCreating" /\ StoresPhase(o, "Creating", "createNamespace")

\* A namespace that exists, terminating or not, is no error.
CreateNamespace(o) ==
  /\ pc = "createNamespace"
  /\ Outcome(o)
  /\ ns' = IF ns = "none" /\ o # "fail" THEN "active" ELSE ns
  /\ IF o = "ok" THEN Goto("loadSubjects") ELSE Retry
  /\ UNCHANGED <<wellNamed, reg, content, user, regs, failures>>

LoadSubjects ==
  /\ pc = "loadSubjects"
  /\ \/ /\ Goto(CreateSteps[1])
        /\ UNCHANGED <<wellNamed, reg, ns, content, faults, user, regs, failures>>
     \/ Fails

\* Mutant: a role or binding that cannot be created is passed over.
CreateAccess_Ignores(k, o) ==
  /\ pc = CreateSteps[k]
  /\ Outcome(o)
  /\ access' = IF (ns = "active" \/ Access[k] \in access) /\ o # "fail"
               THEN access \cup {Access[k]} ELSE access
  /\ Goto(IF k = Len(Access) THEN "storeCompleted"
          ELSE CreateSteps[k + 1])
  /\ UNCHANGED <<wellNamed, reg, ns, insts, loose, user, regs, failures>>

\* CreateOrUpdate of a role or binding: nothing can be created in a namespace
\* that is terminating or gone.
CreateAccess(k, o) ==
  LET works == (ns = "active" \/ Access[k] \in access) /\ o # "fail" IN
  /\ pc = CreateSteps[k]
  /\ Outcome(o)
  /\ access' = IF works THEN access \cup {Access[k]} ELSE access
  /\ IF works /\ o = "ok"
     THEN Goto(IF k = Len(Access) THEN "storeCompleted"
               ELSE CreateSteps[k + 1])
     ELSE Retry
  /\ UNCHANGED <<wellNamed, reg, ns, insts, loose, user, regs, failures>>

StoreCompleted(o) ==
  pc = "storeCompleted" /\ StoresLast(o, [copy EXCEPT !.phase = "Completed"])

-----------------------------------------------------------------------------
(***************************************************************************)
(* Deletion of the Installations, the access data and the namespace.       *)
(***************************************************************************)
Continue(next) ==
  Goto(next)
  /\ UNCHANGED <<wellNamed, reg, ns, content, faults, user, regs, failures>>

GetNamespace ==
  /\ pc = "getNamespace"
  /\ \/ Continue(CASE ns = "none" -> "unfinalize"
                   [] ns # "none" /\ copy.phase # "Deleting" -> "storeDeleting"
                   [] OTHER -> "installations")
     \/ Fails

StoreDeleting(o) ==
  pc = "storeDeleting" /\ StoresPhase(o, "Deleting", "installations")

\* The root Installations of the list are deleted as the strategy says.
\* Those the controller leaves alone are dropped at once.
ListInstallations ==
  /\ pc = "installations"
  /\ \/ /\ Present = {} /\ "subinstallation" \notin loose
        /\ Continue("executions")
     \/ /\ Present # {} \/ "subinstallation" \in loose
        /\ IF copy.strategy = "unknown" THEN Retry
           ELSE /\ todo' = {i \in Present :
                              copy.strategy = "default" => insts[i].keep}
                /\ pc' = "trigger" /\ seen' = insts /\ current' = Present
                /\ UNCHANGED <<copy, fresh, queued>>
        /\ UNCHANGED <<wellNamed, reg, ns, content, faults, user, regs, failures>>
     \/ Fails

MustAnnotate(i) == copy.strategy = "allWithoutUninstall" /\ ~seen[i].keep
MustDelete(i) == ~MustAnnotate(i) /\ seen[i].state = "present"

\* Mutant: the job of a deletion that failed is not started again.
MustRetrigger_Never(i) == FALSE

MustRetrigger(i) ==
  /\ ~MustAnnotate(i) /\ seen[i].state = "deleting"
  /\ seen[i].job # "running" /\ ~seen[i].op

Drop(i) ==
  /\ todo' = todo \ {i}
  /\ UNCHANGED <<pc, copy, fresh, seen, current, queued>>

\* Mutant: the Installation is deleted though the annotation failed.
Annotate_GoesOn(i, o) ==
  /\ MustAnnotate(i)
  /\ Outcome(o)
  /\ insts' = IF i \in current /\ o # "fail"
              THEN [insts EXCEPT ![i].keep = TRUE] ELSE insts
  /\ seen' = [seen EXCEPT ![i].keep = TRUE]
  /\ UNCHANGED <<pc, copy, fresh, todo, current, queued>>
  /\ UNCHANGED <<wellNamed, reg, ns, access, loose, user, regs, failures>>

Annotate(i, o) ==
  /\ MustAnnotate(i)
  /\ Outcome(o)
  /\ insts' = IF i \in current /\ o # "fail"
              THEN [insts EXCEPT ![i].keep = TRUE] ELSE insts
  /\ IF i \in current /\ o = "ok"
     THEN /\ seen' = [seen EXCEPT ![i].keep = TRUE]
          /\ UNCHANGED <<pc, copy, fresh, todo, current, queued>>
     ELSE Drop(i)
  /\ UNCHANGED <<wellNamed, reg, ns, access, loose, user, regs, failures>>

\* The deletion is by name, whatever the stored Installation looks like.
DeleteInstallation(i, o) ==
  /\ MustDelete(i)
  /\ Outcome(o)
  /\ insts' = IF insts[i].state = "present" /\ o # "fail"
              THEN [insts EXCEPT ![i].state = "deleting"] ELSE insts
  /\ Drop(i)
  /\ UNCHANGED <<wellNamed, reg, ns, access, loose, user, regs, failures>>

Retrigger(i, o) ==
  /\ MustRetrigger(i)
  /\ Outcome(o)
  /\ insts' = IF i \in current /\ o # "fail"
              THEN [insts EXCEPT ![i].op = TRUE] ELSE insts
  /\ Drop(i)
  /\ UNCHANGED <<wellNamed, reg, ns, access, loose, user, regs, failures>>

\* A deletion that is under way.
LeaveAlone(i) ==
  /\ ~MustAnnotate(i) /\ ~MustDelete(i) /\ ~MustRetrigger(i)
  /\ Drop(i)
  /\ UNCHANGED <<wellNamed, reg, ns, content, faults, user, regs, failures>>

TriggerDeletion ==
  /\ pc = "trigger"
  /\ \/ \E i \in todo, o \in Outcomes :
          Annotate(i, o) \/ DeleteInstallation(i, o) \/ Retrigger(i, o)
     \/ \E i \in todo : LeaveAlone(i)

TriggeredDeletion ==
  /\ pc = "trigger" /\ todo = {}
  /\ Retry
  /\ UNCHANGED <<wellNamed, reg, ns, content, faults, user, regs, failures>>

\* Executions and DeployItems are waited for.
CheckGone(step, kind, next) ==
  /\ pc = step
  /\ \/ kind \notin loose /\ Continue(next)
     \/ /\ kind \in loose /\ Retry
        /\ UNCHANGED <<wellNamed, reg, ns, content, faults, user, regs, failures>>
     \/ Fails

CheckExecutions == CheckGone("executions", "execution", "deployItems")
CheckDeployItems == CheckGone("deployItems", "deployItem", "targetSyncs")

ListTargetSyncs ==
  /\ pc = "targetSyncs"
  /\ \/ Continue(IF "targetSync" \in loose THEN "deleteTargetSyncs"
                 ELSE DeleteSteps[1])
     \/ Fails

\* TargetSyncs are deleted, and looked for again in 30s.
DeleteTargetSyncs(o) ==
  /\ pc = "deleteTargetSyncs"
  /\ Outcome(o)
  /\ loose' = IF o = "fail" THEN loose ELSE loose \ {"targetSync"}
  /\ Retry
  /\ UNCHANGED <<wellNamed, reg, ns, access, insts, user, regs, failures>>

\* Mutant: errors are only logged.
DeleteAccess_Ignores(k, o) ==
  /\ pc = DeleteSteps[k]
  /\ Outcome(o)
  /\ access' = IF o = "fail" THEN access ELSE access \ {Revocation[k]}
  /\ Goto(IF k = Len(Revocation) THEN "deleteNamespace"
          ELSE DeleteSteps[k + 1])
  /\ UNCHANGED <<wellNamed, reg, ns, insts, loose, user, regs, failures>>

DeleteAccess(k, o) ==
  /\ pc = DeleteSteps[k]
  /\ Outcome(o)
  /\ access' = IF o = "fail" THEN access ELSE access \ {Revocation[k]}
  /\ IF o = "ok"
     THEN Goto(IF k = Len(Revocation) THEN "deleteNamespace"
               ELSE DeleteSteps[k + 1])
     ELSE Retry
  /\ UNCHANGED <<wellNamed, reg, ns, insts, loose, user, regs, failures>>

\* The namespace starts to terminate; its end is not waited for.
DeleteNamespace(o) ==
  /\ pc = "deleteNamespace"
  /\ Outcome(o)
  /\ ns' = IF ns = "active" /\ o # "fail" THEN "terminating" ELSE ns
  /\ IF ns # "none" /\ o = "ok" THEN Goto("unfinalize") ELSE Retry
  /\ UNCHANGED <<wellNamed, reg, content, user, regs, failures>>

\* The registration is in deletion, so that it goes with its finalizer.
RemoveFinalizer(o) == pc = "unfinalize" /\ StoresLast(o, NoReg)

-----------------------------------------------------------------------------
(***************************************************************************)
(* The process, the users, the Landscaper and the API server.              *)
(***************************************************************************)
Restart ==
  /\ faults < MaxFaults /\ faults' = faults + 1
  /\ Forget
  /\ queued' = (queued \/ reg.state # "none")
  /\ UNCHANGED <<wellNamed, reg, ns, content, user, regs, failures>>

\* A write of the registration by somebody else, which is an event.
Outdate == fresh' = FALSE /\ queued' = TRUE
           /\ UNCHANGED <<pc, copy, todo, seen, current>>

Register ==
  /\ reg.state = "none" /\ regs < MaxRegs /\ regs' = regs + 1
  /\ \E s \in Strategies :
       reg' = [NoReg EXCEPT !.state = "present", !.strategy = s]
  /\ Outdate
  /\ UNCHANGED <<wellNamed, ns, content, faults, user, failures>>

Deregister ==
  /\ reg.state = "present"
  /\ reg' = IF reg.finalizer THEN [reg EXCEPT !.state = "deleting"] ELSE NoReg
  /\ Outdate
  /\ UNCHANGED <<wellNamed, ns, content, faults, user, regs, failures>>

ChangeStrategy ==
  /\ reg.state # "none" /\ user < MaxUser /\ user' = user + 1
  /\ \E s \in Strategies \ {reg.strategy} : reg' = [reg EXCEPT !.strategy = s]
  /\ Outdate
  /\ UNCHANGED <<wellNamed, ns, content, faults, regs, failures>>

\* A write of an Installation by somebody else.
OutdateInst(i) ==
  /\ current' = current \ {i}
  /\ UNCHANGED <<pc, copy, fresh, todo, seen, queued>>

\* The role of a user allows everything on Landscaper objects, but nothing
\* can be created in a terminating namespace.
CanWrite == {"userRole", "userBinding"} \subseteq access
CanCreate == CanWrite /\ ns = "active"

CreateInstallation(i) ==
  /\ insts[i].state = "none"
  /\ CanCreate /\ user < MaxUser /\ user' = user + 1
  /\ \E k \in BOOLEAN :
       insts' = [insts EXCEPT ![i] = [NoInst EXCEPT !.state = "present", !.keep = k]]
  /\ OutdateInst(i)
  /\ UNCHANGED <<wellNamed, reg, ns, access, loose, faults, regs, failures>>

ChangeInstallation(i) ==
  /\ insts[i].state # "none"
  /\ CanWrite /\ user < MaxUser /\ user' = user + 1
  /\ insts' \in {[insts EXCEPT ![i].keep = ~insts[i].keep],
                 [insts EXCEPT ![i].state = "deleting"],
                 [insts EXCEPT ![i].op = TRUE]} \ {insts}
  /\ OutdateInst(i)
  /\ UNCHANGED <<wellNamed, reg, ns, access, loose, faults, regs, failures>>

ChangeLoose ==
  /\ user < MaxUser /\ user' = user + 1
  /\ \/ CanCreate /\ \E k \in LooseKinds \ loose : loose' = loose \cup {k}
     \/ CanWrite /\ \E k \in loose : loose' = loose \ {k}
  /\ UNCHANGED <<wellNamed, reg, ns, access, insts, queued, worker, faults,
                 regs, failures>>

\* The Landscaper starts a job when it sees the deletion or the annotation.
StartJob(i) ==
  /\ insts[i].state = "deleting"
  /\ insts[i].job = "none" \/ (insts[i].job = "done" /\ insts[i].op)
  /\ insts' = [insts EXCEPT ![i].job = "running", ![i].op = FALSE]
  /\ OutdateInst(i)
  /\ UNCHANGED <<wellNamed, reg, ns, access, loose, faults, user, regs, failures>>

EndJob(i) ==
  /\ insts[i].state = "deleting" /\ insts[i].job = "running"
  /\ insts' = [insts EXCEPT ![i] = NoInst]
  /\ OutdateInst(i)
  /\ UNCHANGED <<wellNamed, reg, ns, access, loose, faults, user, regs, failures>>

FailJob(i) ==
  /\ insts[i].state = "deleting" /\ insts[i].job = "running"
  /\ ~insts[i].keep /\ failures < MaxFailures /\ failures' = failures + 1
  /\ insts' = [insts EXCEPT ![i].job = "done"]
  /\ OutdateInst(i)
  /\ UNCHANGED <<wellNamed, reg, ns, access, loose, faults, user, regs>>

\* The API server deletes what is in a terminating namespace.
Empty ==
  /\ ns = "terminating"
  /\ \/ /\ \E a \in access : access' = access \ {a}
        /\ UNCHANGED <<insts, loose, current>>
     \/ /\ \E k \in loose : loose' = loose \ {k}
        /\ UNCHANGED <<access, insts, current>>
     \/ /\ \E i \in Installations :
             /\ insts[i].state = "present"
             /\ insts' = [insts EXCEPT ![i].state = "deleting"]
             /\ current' = current \ {i}
        /\ UNCHANGED <<access, loose>>
  /\ UNCHANGED <<wellNamed, reg, ns, queued, pc, copy, fresh, todo, seen,
                 faults, user, regs, failures>>

EndNamespace ==
  /\ ns = "terminating" /\ access = {} /\ loose = {} /\ Present = {}
  /\ ns' = "none"
  /\ UNCHANGED <<wellNamed, reg, content, queued, worker, faults, user, regs,
                 failures>>

-----------------------------------------------------------------------------
Create ==
  \/ Reconcile \/ LoadSubjects
  \/ \E o \in Outcomes :
       \/ Refuse(o) \/ SetFinalizer(o) \/ StoreCreating(o)
       \/ CreateNamespace(o) \/ StoreCompleted(o)
       \/ \E k \in DOMAIN Access : CreateAccess(k, o)

HandleDelete ==
  \/ GetNamespace \/ ListInstallations \/ TriggerDeletion \/ TriggeredDeletion
  \/ CheckExecutions \/ CheckDeployItems \/ ListTargetSyncs
  \/ \E o \in Outcomes :
       \/ StoreDeleting(o) \/ DeleteTargetSyncs(o)
       \/ DeleteNamespace(o) \/ RemoveFinalizer(o)
       \/ \E k \in DOMAIN Revocation : DeleteAccess(k, o)

Worker == Create \/ HandleDelete

Users ==
  \/ Register \/ Deregister \/ ChangeStrategy \/ ChangeLoose
  \/ \E i \in Installations : CreateInstallation(i) \/ ChangeInstallation(i)

Landscaper(i) == StartJob(i) \/ EndJob(i) \/ FailJob(i)
APIServer == Empty \/ EndNamespace

Next ==
  \/ Worker \/ Restart \/ Users \/ APIServer
  \/ \E i \in Installations : Landscaper(i)

Spec == Init /\ [][Next]_vars

\* The work queue hands out what is in it, the Landscaper and the API server
\* are controllers of the same kind.
Fairness ==
  /\ WF_vars(Worker) /\ WF_vars(APIServer)
  /\ \A i \in Installations : WF_vars(Landscaper(i))

FairSpec == Spec /\ Fairness

-----------------------------------------------------------------------------
(***************************************************************************)
(* Properties.                                                             *)
(***************************************************************************)

\* Every variable holds a value of its kind.
TypeOK ==
  /\ wellNamed \in BOOLEAN /\ reg \in Registrations
  /\ ns \in {"none", "active", "terminating"}
  /\ access \subseteq AllAccess /\ loose \subseteq LooseKinds
  /\ insts \in [Installations -> InstallationStates]
  /\ queued \in BOOLEAN
  /\ pc \in Steps /\ copy \in Registrations /\ fresh \in BOOLEAN
  /\ todo \subseteq Installations /\ current \subseteq Installations
  /\ seen \in [Installations -> InstallationStates]
  /\ faults \in 0 .. MaxFaults /\ user \in 0 .. MaxUser
  /\ regs \in 0 .. MaxRegs /\ failures \in 0 .. MaxFailures

\* Nothing is left behind: while the namespace can be used, or anybody has a
\* role in it, there is a registration whose finalizer will take it down,
\* whatever call failed, and however quickly the registration came and went.
Accounted == ns = "active" \/ access # {} => reg.finalizer

\* A registration that says Completed has its namespace with all roles and
\* bindings, also when it follows one whose namespace was still terminating:
\* creating that namespace again is taken for a success.
CompletedIsUsable ==
  reg.state = "present" /\ reg.phase = "Completed" =>
    ns = "active" /\ access = AllAccess

\* Users lose their access before the namespace starts to terminate; they
\* cannot touch the finalizers and Installations that are then cleaned up.
AccessEndsFirst == ns = "terminating" => access = {}

\* Except when the strategy is to delete all of them, the controller deletes
\* an Installation that nobody changed since it was listed only with the
\* annotation that keeps the Landscaper from uninstalling it.
KeptWithoutUninstall ==
  [][\A i \in current :
       pc = "trigger" /\ todo' # todo /\ copy.strategy # "all"
         /\ insts[i].state = "present" /\ insts'[i].state = "deleting"
       => insts[i].keep]_vars

\* The documentation says that the namespace is not deleted as long as there
\* are still Installations in it.  Users can create one after the list was
\* read, as long as they have their role.
KeptForInstallations ==
  [][ns = "active" /\ ns' = "terminating" => Present = {}]_vars

\* The documentation says that the finalizer of the registration is removed
\* when the namespace has been deleted.
ReleasedAfterNamespace ==
  [][reg.finalizer /\ ~reg'.finalizer => ns = "none"]_vars

\* What the deletion of a registration waits for users to do.
Blocked ==
  \/ loose \ {"targetSync"} # {}
  \/ Present # {} /\ reg.strategy = "unknown"
  \/ reg.strategy = "default" /\ \E i \in Present : ~insts[i].keep

\* A registration in deletion goes away unless something is there that only
\* users can remove: failed deletions of Installations are started again,
\* and no error ends the retries.
DeletionCompletes == ~<>[](reg.state = "deleting" /\ ~Blocked)

\* A registration is completed in the end, unless the namespace of an earlier
\* one does not go away.  No event helps: the controller's own writes of the
\* finalizer and the status do not queue the registration.
CreationCompletes ==
  ~<>[](/\ reg.state = "present" /\ wellNamed
        /\ reg.phase # "Completed" /\ ns # "terminating")
=============================================================================
