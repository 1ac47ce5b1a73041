---------------------- MODULE NamespaceRegistrationProofs ----------------------
(***************************************************************************)
(* Proofs about the NamespaceRegistration controller, for any set of       *)
(* Installations and strategies and all bounds.                            *)
(*                                                                         *)
(* The finalizer of the registration comes before the namespace and goes   *)
(* after it has started to terminate; roles and bindings are there only    *)
(* while the namespace is active.  What has been created or deleted so far *)
(* follows from the step the worker has reached, as nobody but the worker  *)
(* creates or deletes roles and bindings in an active namespace.           *)
(***************************************************************************)
EXTENDS NamespaceRegistration, TLAPS

-----------------------------------------------------------------------------
(***************************************************************************)
(* The inductive invariant.                                                *)
(***************************************************************************)
Creation ==
  {"storeCreating", "createNamespace", "loadSubjects", "storeCompleted"}
  \cup {CreateSteps[k] : k \in DOMAIN Access}

Removal ==
  {"getNamespace", "storeDeleting", "installations", "trigger", "executions",
   "deployItems", "targetSyncs", "deleteTargetSyncs", "deleteNamespace", "unfinalize"}
  \cup {DeleteSteps[k] : k \in DOMAIN Revocation}

\* What the registration r has to be like, given the namespace: a registration
\* is deleted with its finalizer or at once.
Fits(r) ==
  /\ r.state = "none" => ~r.finalizer
  /\ r.state = "deleting" => r.finalizer
  /\ ns = "active" \/ access # {} => r.finalizer
  /\ r.state = "present" /\ r.phase = "Completed" =>
       ns = "active" /\ access = AllAccess

\* There are roles and bindings in an active namespace only.
AccessInv == ns # "active" => access = {}

ClusterInv == Fits(reg) /\ AccessInv

\* A worker that is past the finalizer relies on it, and one that removes
\* things on the deletion of the registration.
WorkerInv ==
  /\ fresh => copy = reg /\ reg.state # "none"
  /\ pc \in Creation => reg.finalizer
  /\ pc \in Removal => reg.state = "deleting"

\* What the worker has created or deleted when it is at a step.
ProgressInv ==
  /\ \A k \in DOMAIN Access : pc = CreateSteps[k] =>
       \A j \in DOMAIN Access : j < k => Access[j] \in access
  /\ pc = "storeCompleted" => access = AllAccess
  /\ \A k \in DOMAIN Revocation : pc = DeleteSteps[k] =>
       \A j \in DOMAIN Revocation : j < k => Revocation[j] \notin access
  /\ pc = "deleteNamespace" => access = {}
  /\ pc = "unfinalize" => ns # "active"

\* The Installations that are to be deleted are looked at as they were listed,
\* unless the API server refuses the write.
TriggerInv ==
  pc = "trigger" =>
    /\ copy.strategy # "unknown"
    /\ copy.strategy = "default" => \A i \in todo : seen[i].keep
    /\ \A i \in todo \cap current : seen[i] = insts[i]

IndInv ==
  TypeOK /\ ClusterInv /\ WorkerInv /\ ProgressInv /\ TriggerInv

-----------------------------------------------------------------------------
(***************************************************************************)
(* The names of steps.                                                     *)
(***************************************************************************)
LEMMA AccessNames ==
  /\ DOMAIN Access = {1, 2, 3, 4} /\ DOMAIN Revocation = {1, 2, 3, 4}
  /\ Len(Access) = 4 /\ Len(Revocation) = 4
  /\ Access[1] = "userRole" /\ Access[2] = "userBinding"
  /\ Access[3] = "viewerRole" /\ Access[4] = "viewerBinding"
  /\ Revocation[1] = "userBinding" /\ Revocation[2] = "userRole"
  /\ Revocation[3] = "viewerBinding" /\ Revocation[4] = "viewerRole"
  /\ AllAccess = {"userRole", "userBinding", "viewerRole", "viewerBinding"}
BY DEF Access, Revocation, AllAccess

LEMMA StepNames ==
  /\ CreateSteps[1] = "createUserRole" /\ CreateSteps[2] = "createUserBinding"
  /\ CreateSteps[3] = "createViewerRole" /\ CreateSteps[4] = "createViewerBinding"
  /\ DeleteSteps[1] = "deleteUserBinding" /\ DeleteSteps[2] = "deleteUserRole"
  /\ DeleteSteps[3] = "deleteViewerBinding" /\ DeleteSteps[4] = "deleteViewerRole"
BY DEF CreateSteps, DeleteSteps

LEMMA StepSets ==
  /\ Creation = {"storeCreating", "createNamespace", "loadSubjects", "storeCompleted",
                 "createUserRole", "createUserBinding",
                 "createViewerRole", "createViewerBinding"}
  /\ Removal = {"getNamespace", "storeDeleting", "installations", "trigger", "executions",
                "deployItems", "targetSyncs", "deleteTargetSyncs", "deleteNamespace",
                "unfinalize", "deleteUserBinding", "deleteUserRole",
                "deleteViewerBinding", "deleteViewerRole"}
  /\ Steps = {"idle", "refuse", "finalizer"} \cup Creation \cup Removal
BY AccessNames, StepNames DEF Creation, Removal, Steps

\* The progress invariant, step by step.
Progress ==
  /\ pc = "createUserBinding" => {"userRole"} \subseteq access
  /\ pc = "createViewerRole" => {"userRole", "userBinding"} \subseteq access
  /\ pc = "createViewerBinding" =>
       {"userRole", "userBinding", "viewerRole"} \subseteq access
  /\ pc = "storeCompleted" => access = AllAccess
  /\ pc = "deleteUserRole" => {"userBinding"} \cap access = {}
  /\ pc = "deleteViewerBinding" => {"userBinding", "userRole"} \cap access = {}
  /\ pc = "deleteViewerRole" =>
       {"userBinding", "userRole", "viewerBinding"} \cap access = {}
  /\ pc = "deleteNamespace" => access = {}
  /\ pc = "unfinalize" => ns # "active"

LEMMA ProgressSteps == (ProgressInv <=> Progress) /\ (ProgressInv' <=> Progress')
<1>1. ProgressInv <=> Progress
  BY AccessNames, StepNames DEF ProgressInv, Progress
<1>2. ProgressInv' <=> Progress'
  BY AccessNames, StepNames DEF ProgressInv, Progress
<1> QED
  BY <1>1, <1>2

-----------------------------------------------------------------------------
(***************************************************************************)
(* Types.                                                                  *)
(***************************************************************************)
LEMMA RecordTypes ==
  /\ NoReg \in Registrations /\ NoInst \in InstallationStates
  /\ \A s \in AllStrategies :
       [NoReg EXCEPT !.state = "present", !.strategy = s] \in Registrations
  /\ \A k \in BOOLEAN :
       [NoInst EXCEPT !.state = "present", !.keep = k] \in InstallationStates
BY DEF NoReg, NoInst, Registrations, InstallationStates, Phases, AllStrategies

LEMMA UpdateTypes ==
  ASSUME NEW r \in Registrations
  PROVE  /\ \A p \in Phases : [r EXCEPT !.phase = p] \in Registrations
         /\ [r EXCEPT !.finalizer = TRUE] \in Registrations
         /\ [r EXCEPT !.state = "deleting"] \in Registrations
         /\ \A s \in AllStrategies : [r EXCEPT !.strategy = s] \in Registrations
BY DEF Registrations

LEMMA InstallationTypes ==
  ASSUME NEW f \in [Installations -> InstallationStates], NEW i \in Installations
  PROVE  /\ [f EXCEPT ![i] = NoInst] \in [Installations -> InstallationStates]
         /\ \A k \in BOOLEAN :
              [f EXCEPT ![i].keep = k] \in [Installations -> InstallationStates]
         /\ [f EXCEPT ![i].state = "deleting"] \in [Installations -> InstallationStates]
         /\ [f EXCEPT ![i].op = TRUE] \in [Installations -> InstallationStates]
         /\ [f EXCEPT ![i].job = "done"] \in [Installations -> InstallationStates]
         /\ [f EXCEPT ![i].job = "running", ![i].op = FALSE]
              \in [Installations -> InstallationStates]
<1>1. NoInst \in InstallationStates
  BY RecordTypes
<1>2. f[i] \in InstallationStates
  OBVIOUS
<1>3. /\ \A k \in BOOLEAN : [f[i] EXCEPT !.keep = k] \in InstallationStates
      /\ [f[i] EXCEPT !.state = "deleting"] \in InstallationStates
      /\ [f[i] EXCEPT !.op = TRUE] \in InstallationStates
      /\ [f[i] EXCEPT !.job = "done"] \in InstallationStates
      /\ [f[i] EXCEPT !.job = "running", !.op = FALSE] \in InstallationStates
  BY <1>2 DEF InstallationStates
<1> QED
  BY <1>1, <1>3

LEMMA OutcomeType ==
  ASSUME TypeOK, NEW o \in Outcomes, Outcome(o) PROVE faults' \in 0 .. MaxFaults
BY BoundsAssumption DEF TypeOK, Outcome

\* The variables that one worker step leaves to its own conditions.
WorkerType ==
  /\ pc \in Steps /\ copy \in Registrations /\ fresh \in BOOLEAN
  /\ todo \subseteq Installations /\ current \subseteq Installations
  /\ seen \in [Installations -> InstallationStates] /\ queued \in BOOLEAN

LEMMA ForgetType ==
  ASSUME TypeOK, Forget, queued' \in BOOLEAN PROVE WorkerType'
BY RecordTypes, StepSets DEF Forget, WorkerType

LEMMA RetryType == ASSUME TypeOK, Retry PROVE WorkerType'
BY ForgetType DEF Retry

LEMMA FinishType == ASSUME TypeOK, Finish PROVE WorkerType'
BY ForgetType DEF Finish, TypeOK

LEMMA GotoType == ASSUME TypeOK, NEW s \in Steps, Goto(s) PROVE WorkerType'
BY DEF Goto, WorkerType, TypeOK

LEMMA AfterFinalizerStep ==
  ASSUME NEW r PROVE AfterFinalizer(r) \in Steps
BY StepSets DEF AfterFinalizer

LEMMA NextAccessStep ==
  ASSUME NEW k \in {1, 2, 3, 4}
  PROVE  /\ (IF k = Len(Access) THEN "storeCompleted" ELSE CreateSteps[k + 1]) \in Steps
         /\ (IF k = Len(Revocation) THEN "deleteNamespace" ELSE DeleteSteps[k + 1]) \in Steps
         /\ CreateSteps[1] \in Steps /\ DeleteSteps[1] \in Steps
BY StepNames, StepSets, AccessNames

LEMMA StoresType ==
  ASSUME TypeOK, NEW o \in Outcomes, NEW r \in Registrations, NEW s \in Steps,
         Stores(o, r, s) \/ StoresLast(o, r)
  PROVE  TypeOK'
<1>1. faults' \in 0 .. MaxFaults
  BY OutcomeType DEF Stores, StoresLast
<1>2. reg' \in Registrations
  BY DEF Stores, StoresLast, TypeOK
<1>3. WorkerType'
  <2>1. CASE Retry
    BY <2>1, RetryType
  <2>2. CASE Finish
    BY <2>2, FinishType
  <2>3. CASE /\ pc' = s /\ copy' = r
             /\ UNCHANGED <<fresh, todo, seen, current, queued>>
    BY <2>3 DEF WorkerType, TypeOK
  <2> QED
    BY <2>1, <2>2, <2>3 DEF Stores, StoresLast
<1>4. UNCHANGED <<wellNamed, ns, access, insts, loose, user, regs, failures>>
  BY DEF Stores, StoresLast, content
<1> QED
  BY <1>1, <1>2, <1>3, <1>4 DEF TypeOK, WorkerType

\* A worker step that changes neither registration nor namespace.
LEMMA WorkerTypeOK ==
  ASSUME TypeOK, WorkerType', faults' \in 0 .. MaxFaults,
         UNCHANGED <<wellNamed, reg, ns, content, user, regs, failures>>
  PROVE  TypeOK'
BY DEF TypeOK, WorkerType, content

LEMMA FailsType == ASSUME TypeOK, Fails PROVE TypeOK'
<1>1. faults' \in 0 .. MaxFaults
  BY OutcomeType DEF Fails, Outcomes
<1> QED
  BY <1>1, RetryType, WorkerTypeOK DEF Fails

LEMMA ContinueType ==
  ASSUME TypeOK, NEW s \in Steps, Continue(s) PROVE TypeOK'
BY GotoType, WorkerTypeOK DEF Continue, TypeOK

LEMMA ReconcileType == ASSUME TypeOK, Reconcile PROVE TypeOK'
<1>1. CASE reg.state = "none" \/ FirstStep = "idle"
  BY <1>1, ForgetType, WorkerTypeOK DEF Reconcile, TypeOK
<1>2. CASE ~(reg.state = "none" \/ FirstStep = "idle")
  <2>1. FirstStep \in Steps
    BY AfterFinalizerStep, StepSets DEF FirstStep
  <2>2. WorkerType' /\ UNCHANGED faults
    BY <1>2, <2>1 DEF Reconcile, WorkerType, TypeOK
  <2> QED
    BY <2>2, WorkerTypeOK DEF Reconcile, TypeOK
<1> QED
  BY <1>1, <1>2

LEMMA CreateType == ASSUME TypeOK, Create PROVE TypeOK'
<1>1. CASE Reconcile
  BY <1>1, ReconcileType
<1>2. CASE LoadSubjects
  <2>1. CASE Fails
    BY <2>1, FailsType
  <2>2. CASE Goto(CreateSteps[1]) /\ UNCHANGED <<wellNamed, reg, ns, content, faults,
                                                 user, regs, failures>>
    BY <2>2, NextAccessStep, GotoType, WorkerTypeOK DEF TypeOK
  <2> QED
    BY <1>2, <2>1, <2>2 DEF LoadSubjects
<1>3. ASSUME NEW o \in Outcomes, Refuse(o) PROVE TypeOK'
  <2>1. "Failed" \in Phases /\ "idle" \in Steps /\ copy \in Registrations
    BY StepSets DEF Phases, TypeOK
  <2> QED
    BY <1>3, <2>1, UpdateTypes, StoresType DEF Refuse
<1>4. ASSUME NEW o \in Outcomes, SetFinalizer(o) PROVE TypeOK'
  <2> DEFINE r == [copy EXCEPT !.finalizer = TRUE]
  <2>1. r \in Registrations /\ AfterFinalizer(r) \in Steps /\ "idle" \in Steps
    BY UpdateTypes, AfterFinalizerStep, StepSets DEF TypeOK
  <2>2. StoresLast(o, r) \/ Stores(o, r, AfterFinalizer(r))
    BY <1>4 DEF SetFinalizer
  <2> HIDE DEF r
  <2> QED
    BY <2>1, <2>2, StoresType
<1>5. ASSUME NEW o \in Outcomes, StoreCreating(o) PROVE TypeOK'
  <2>1. "Creating" \in Phases /\ "createNamespace" \in Steps /\ copy \in Registrations
    BY StepSets DEF Phases, TypeOK
  <2> QED
    BY <1>5, <2>1, UpdateTypes, StoresType DEF StoreCreating, StoresPhase
<1>6. ASSUME NEW o \in Outcomes, CreateNamespace(o) PROVE TypeOK'
  <2>1. faults' \in 0 .. MaxFaults
    BY <1>6, OutcomeType DEF CreateNamespace
  <2>2. WorkerType'
    BY <1>6, RetryType, GotoType, StepSets DEF CreateNamespace
  <2>3. UNCHANGED <<wellNamed, reg, access, insts, loose, user, regs, failures>>
        /\ ns' \in {"none", "active", "terminating"}
    BY <1>6 DEF CreateNamespace, content, TypeOK
  <2> QED
    BY <2>1, <2>2, <2>3 DEF TypeOK, WorkerType
<1>7. ASSUME NEW o \in Outcomes, StoreCompleted(o) PROVE TypeOK'
  <2>1. "Completed" \in Phases /\ "idle" \in Steps /\ copy \in Registrations
    BY StepSets DEF Phases, TypeOK
  <2> QED
    BY <1>7, <2>1, UpdateTypes, StoresType DEF StoreCompleted
<1>8. ASSUME NEW o \in Outcomes, NEW k \in DOMAIN Access, CreateAccess(k, o)
      PROVE  TypeOK'
  <2>1. faults' \in 0 .. MaxFaults
    BY <1>8, OutcomeType DEF CreateAccess
  <2>2. WorkerType'
    BY <1>8, RetryType, GotoType, NextAccessStep, AccessNames DEF CreateAccess
  <2>3. access' \subseteq AllAccess
    BY <1>8 DEF CreateAccess, TypeOK, AllAccess
  <2>4. UNCHANGED <<wellNamed, reg, ns, insts, loose, user, regs, failures>>
    BY <1>8 DEF CreateAccess
  <2> QED
    BY <2>1, <2>2, <2>3, <2>4 DEF TypeOK, WorkerType
<1> QED
  BY <1>1, <1>2, <1>3, <1>4, <1>5, <1>6, <1>7, <1>8 DEF Create

LEMMA ListInstallationsType == ASSUME TypeOK, ListInstallations PROVE TypeOK'
<1>1. CASE Fails
  BY <1>1, FailsType
<1>2. CASE Continue("executions")
  BY <1>2, ContinueType, StepSets
<1>3. CASE Retry /\ UNCHANGED <<wellNamed, reg, ns, content, faults, user, regs, failures>>
  BY <1>3, RetryType, WorkerTypeOK DEF TypeOK
<1>4. CASE /\ todo' = {i \in Present : copy.strategy = "default" => insts[i].keep}
           /\ pc' = "trigger" /\ seen' = insts /\ current' = Present
           /\ UNCHANGED <<copy, fresh, queued>>
           /\ UNCHANGED <<wellNamed, reg, ns, content, faults, user, regs, failures>>
  <2>1. WorkerType'
    BY <1>4, StepSets DEF WorkerType, TypeOK, Present
  <2> QED
    BY <1>4, <2>1, WorkerTypeOK DEF TypeOK
<1> QED
  BY <1>1, <1>2, <1>3, <1>4 DEF ListInstallations

\* Writes of a stored Installation.
LEMMA WrittenTypes ==
  ASSUME TypeOK, NEW i \in Installations
  PROVE  /\ insts \in [Installations -> InstallationStates]
         /\ [insts EXCEPT ![i] = NoInst] \in [Installations -> InstallationStates]
         /\ [insts EXCEPT ![i].keep = TRUE] \in [Installations -> InstallationStates]
         /\ [insts EXCEPT ![i].keep = ~insts[i].keep]
              \in [Installations -> InstallationStates]
         /\ [insts EXCEPT ![i].state = "deleting"] \in [Installations -> InstallationStates]
         /\ [insts EXCEPT ![i].op = TRUE] \in [Installations -> InstallationStates]
         /\ [insts EXCEPT ![i].job = "done"] \in [Installations -> InstallationStates]
         /\ [insts EXCEPT ![i].job = "running", ![i].op = FALSE]
              \in [Installations -> InstallationStates]
<1>1. insts \in [Installations -> InstallationStates]
  BY DEF TypeOK
<1>2. insts[i].keep \in BOOLEAN
  BY <1>1 DEF InstallationStates
<1>3. (~insts[i].keep) \in BOOLEAN
  BY <1>2, Zenon
<1> DEFINE k == ~insts[i].keep
<1>4. [insts EXCEPT ![i].keep = k] \in [Installations -> InstallationStates]
  <2>1. k \in BOOLEAN
    BY <1>3
  <2> HIDE DEF k
  <2> QED
    BY <1>1, <2>1, InstallationTypes
<1> QED
  BY <1>1, <1>4, InstallationTypes

LEMMA TriggerDeletionType == ASSUME TypeOK, TriggerDeletion PROVE TypeOK'
<1>1. ASSUME NEW i \in todo, Drop(i) PROVE WorkerType'
  BY <1>1 DEF Drop, WorkerType, TypeOK
<1>2. ASSUME NEW i \in todo, NEW o \in Outcomes,
             Annotate(i, o) \/ DeleteInstallation(i, o) \/ Retrigger(i, o)
      PROVE  TypeOK'
  <2>1. faults' \in 0 .. MaxFaults
    BY <1>2, OutcomeType DEF Annotate, DeleteInstallation, Retrigger
  <2>2. i \in Installations
    BY DEF TypeOK
  <2>3. insts' \in [Installations -> InstallationStates]
    BY <1>2, <2>2, WrittenTypes, Zenon DEF Annotate, DeleteInstallation, Retrigger
  <2>4. WorkerType'
    <3>1. CASE Drop(i)
      BY <3>1, <1>1
    <3>2. CASE /\ seen' = [seen EXCEPT ![i].keep = TRUE]
               /\ UNCHANGED <<pc, copy, fresh, todo, current, queued>>
      BY <3>2, <2>2, InstallationTypes DEF WorkerType, TypeOK
    <3> QED
      BY <1>2, <3>1, <3>2 DEF Annotate, DeleteInstallation, Retrigger
  <2>5. UNCHANGED <<wellNamed, reg, ns, access, loose, user, regs, failures>>
    BY <1>2 DEF Annotate, DeleteInstallation, Retrigger
  <2> QED
    BY <2>1, <2>3, <2>4, <2>5 DEF TypeOK, WorkerType
<1>3. ASSUME NEW i \in todo, LeaveAlone(i) PROVE TypeOK'
  BY <1>1, <1>3, WorkerTypeOK DEF LeaveAlone, TypeOK
<1> QED
  BY <1>2, <1>3 DEF TriggerDeletion

LEMMA HandleDeleteType == ASSUME TypeOK, HandleDelete PROVE TypeOK'
<1>1. CASE GetNamespace
  <2>1. PICK s \in Steps : Fails \/ Continue(s)
    BY <1>1, StepSets DEF GetNamespace
  <2> QED
    BY <2>1, FailsType, ContinueType
<1>2. CASE ListInstallations
  BY <1>2, ListInstallationsType
<1>3. CASE TriggerDeletion
  BY <1>3, TriggerDeletionType
<1>4. CASE TriggeredDeletion
  BY <1>4, RetryType, WorkerTypeOK DEF TriggeredDeletion, TypeOK
<1>5. CASE CheckExecutions \/ CheckDeployItems
  <2>1. PICK s \in Steps : \/ Fails \/ Continue(s)
                           \/ Retry /\ UNCHANGED <<wellNamed, reg, ns, content, faults,
                                                   user, regs, failures>>
    BY <1>5, StepSets DEF CheckExecutions, CheckDeployItems, CheckGone
  <2> QED
    BY <2>1, FailsType, ContinueType, RetryType, WorkerTypeOK DEF TypeOK
<1>6. CASE ListTargetSyncs
  <2>1. PICK s \in Steps : Fails \/ Continue(s)
    BY <1>6, StepSets, NextAccessStep DEF ListTargetSyncs
  <2> QED
    BY <2>1, FailsType, ContinueType
<1>7. ASSUME NEW o \in Outcomes, StoreDeleting(o) PROVE TypeOK'
  <2>1. "Deleting" \in Phases /\ "installations" \in Steps /\ copy \in Registrations
    BY StepSets DEF Phases, TypeOK
  <2> QED
    BY <1>7, <2>1, UpdateTypes, StoresType DEF StoreDeleting, StoresPhase
<1>8. ASSUME NEW o \in Outcomes, DeleteTargetSyncs(o) PROVE TypeOK'
  <2>1. faults' \in 0 .. MaxFaults /\ WorkerType'
    BY <1>8, OutcomeType, RetryType DEF DeleteTargetSyncs
  <2> QED
    BY <1>8, <2>1 DEF DeleteTargetSyncs, TypeOK, WorkerType
<1>9. ASSUME NEW o \in Outcomes, DeleteNamespace(o) PROVE TypeOK'
  <2>1. faults' \in 0 .. MaxFaults /\ WorkerType'
    BY <1>9, OutcomeType, RetryType, GotoType, StepSets DEF DeleteNamespace
  <2> QED
    BY <1>9, <2>1 DEF DeleteNamespace, TypeOK, WorkerType, content
<1>10. ASSUME NEW o \in Outcomes, RemoveFinalizer(o) PROVE TypeOK'
  BY <1>10, RecordTypes, StepSets, StoresType DEF RemoveFinalizer
<1>11. ASSUME NEW o \in Outcomes, NEW k \in DOMAIN Revocation, DeleteAccess(k, o)
       PROVE  TypeOK'
  <2>1. faults' \in 0 .. MaxFaults
    BY <1>11, OutcomeType DEF DeleteAccess
  <2>2. WorkerType'
    BY <1>11, RetryType, GotoType, NextAccessStep, AccessNames DEF DeleteAccess
  <2>3. access' \subseteq AllAccess
    BY <1>11 DEF DeleteAccess, TypeOK
  <2> QED
    BY <1>11, <2>1, <2>2, <2>3 DEF DeleteAccess, TypeOK, WorkerType
<1> QED
  BY <1>1, <1>2, <1>3, <1>4, <1>5, <1>6, <1>7, <1>8, <1>9, <1>10, <1>11 DEF HandleDelete

\* What somebody else does leaves the worker where it is.
LEMMA RegistrationStepType ==
  ASSUME TypeOK, Register \/ Deregister \/ ChangeStrategy PROVE TypeOK'
<1>1. reg' \in Registrations
  BY RecordTypes, UpdateTypes, StrategiesAssumption
  DEF Register, Deregister, ChangeStrategy, TypeOK
<1>2. WorkerType'
  BY DEF Register, Deregister, ChangeStrategy, Outdate, TypeOK, WorkerType
<1>3. user' \in 0 .. MaxUser /\ regs' \in 0 .. MaxRegs
  <2>1. /\ user' = user \/ (user' = user + 1 /\ user < MaxUser)
        /\ regs' = regs \/ (regs' = regs + 1 /\ regs < MaxRegs)
    BY DEF Register, Deregister, ChangeStrategy
  <2> QED
    BY <2>1, BoundsAssumption DEF TypeOK
<1>4. UNCHANGED <<wellNamed, ns, access, insts, loose, faults, failures>>
  BY DEF Register, Deregister, ChangeStrategy, content
<1> QED
  BY <1>1, <1>2, <1>3, <1>4 DEF TypeOK, WorkerType

LEMMA InstallationStepType ==
  ASSUME TypeOK, NEW i \in Installations,
         CreateInstallation(i) \/ ChangeInstallation(i) \/ Landscaper(i)
  PROVE  TypeOK'
<1>1. insts' \in [Installations -> InstallationStates]
  <2>1. CASE CreateInstallation(i)
    <3>1. \A r \in InstallationStates :
            [insts EXCEPT ![i] = r] \in [Installations -> InstallationStates]
      BY DEF TypeOK
    <3> QED
      BY <2>1, <3>1, RecordTypes DEF CreateInstallation
  <2>2. CASE ChangeInstallation(i)
    <3>1. \/ insts' = [insts EXCEPT ![i].keep = ~insts[i].keep]
          \/ insts' = [insts EXCEPT ![i].state = "deleting"]
          \/ insts' = [insts EXCEPT ![i].op = TRUE]
      BY <2>2, Zenon DEF ChangeInstallation
    <3>2. CASE insts' = [insts EXCEPT ![i].keep = ~insts[i].keep]
      BY <3>2, WrittenTypes, Zenon
    <3>3. CASE insts' = [insts EXCEPT ![i].state = "deleting"]
      BY <3>3, WrittenTypes, Zenon
    <3>4. CASE insts' = [insts EXCEPT ![i].op = TRUE]
      BY <3>4, WrittenTypes, Zenon
    <3> QED
      BY <3>1, <3>2, <3>3, <3>4, Zenon
  <2>3. CASE Landscaper(i)
    BY <2>3, WrittenTypes, Zenon DEF Landscaper, StartJob, EndJob, FailJob
  <2> QED
    BY <2>1, <2>2, <2>3
<1>2. WorkerType'
  BY DEF CreateInstallation, ChangeInstallation, Landscaper, StartJob, EndJob, FailJob,
     OutdateInst, TypeOK, WorkerType
<1>3. user' \in 0 .. MaxUser /\ failures' \in 0 .. MaxFailures
  <2>1. /\ user' = user \/ (user' = user + 1 /\ user < MaxUser)
        /\ failures' = failures \/ (failures' = failures + 1 /\ failures < MaxFailures)
    BY DEF CreateInstallation, ChangeInstallation, Landscaper, StartJob, EndJob, FailJob
  <2> QED
    BY <2>1, BoundsAssumption DEF TypeOK
<1>4. UNCHANGED <<wellNamed, reg, ns, access, loose, faults, regs>>
  BY DEF CreateInstallation, ChangeInstallation, Landscaper, StartJob, EndJob, FailJob
<1> QED
  BY <1>1, <1>2, <1>3, <1>4 DEF TypeOK, WorkerType

LEMMA OtherStepType ==
  ASSUME TypeOK, ChangeLoose \/ Restart \/ APIServer PROVE TypeOK'
<1>1. CASE ChangeLoose
  <2>1. loose' \subseteq LooseKinds /\ user' \in 0 .. MaxUser
    BY <1>1, BoundsAssumption DEF ChangeLoose, TypeOK
  <2> QED
    BY <1>1, <2>1 DEF ChangeLoose, TypeOK, worker
<1>2. CASE Restart
  <2>1. queued' \in BOOLEAN
    BY <1>2, Zenon DEF Restart
  <2>2. faults' \in 0 .. MaxFaults
    BY <1>2, BoundsAssumption DEF Restart, TypeOK
  <2>3. WorkerType'
    BY <1>2, <2>1, ForgetType DEF Restart
  <2> QED
    BY <1>2, <2>2, <2>3, WorkerTypeOK DEF Restart
<1>3. CASE Empty
  <2>1. access' \subseteq AllAccess /\ loose' \subseteq LooseKinds
        /\ current' \subseteq Installations
    BY <1>3 DEF Empty, TypeOK
  <2>2. insts' \in [Installations -> InstallationStates]
    <3>1. \/ insts' = insts
          \/ \E i \in Installations : insts' = [insts EXCEPT ![i].state = "deleting"]
      BY <1>3, Zenon DEF Empty
    <3>2. insts \in [Installations -> InstallationStates]
      BY DEF TypeOK
    <3>3. ASSUME NEW i \in Installations, insts' = [insts EXCEPT ![i].state = "deleting"]
          PROVE  insts' \in [Installations -> InstallationStates]
      BY <3>3, WrittenTypes, Zenon
    <3> QED
      BY <3>1, <3>2, <3>3, Zenon
  <2> QED
    BY <1>3, <2>1, <2>2 DEF Empty, TypeOK
<1>4. CASE EndNamespace
  BY <1>4 DEF EndNamespace, TypeOK, content, worker
<1> QED
  BY <1>1, <1>2, <1>3, <1>4 DEF APIServer

LEMMA StepType == ASSUME TypeOK, [Next]_vars PROVE TypeOK'
<1>1. CASE UNCHANGED vars
  BY <1>1 DEF vars, worker, content, TypeOK
<1>2. CASE Next
  BY <1>2, CreateType, HandleDeleteType, RegistrationStepType, InstallationStepType,
     OtherStepType DEF Next, Worker, Users
<1> QED
  BY <1>1, <1>2

-----------------------------------------------------------------------------
(***************************************************************************)
(* The worker.                                                             *)
(***************************************************************************)

\* A worker that lets go has nothing left to keep.
LEMMA ForgetInv ==
  ASSUME TypeOK', Forget, ClusterInv' PROVE IndInv'
<1>1. pc' = "idle" /\ fresh' = FALSE
  BY DEF Forget
<1>2. WorkerInv' /\ TriggerInv'
  BY <1>1, StepSets DEF WorkerInv, TriggerInv
<1>3. ProgressInv'
  BY <1>1, ProgressSteps DEF Progress
<1> QED
  BY <1>2, <1>3 DEF IndInv

LEMMA ClusterFrame ==
  ASSUME ClusterInv, UNCHANGED <<reg, ns, access>> PROVE ClusterInv'
BY DEF ClusterInv, Fits, AccessInv

LEMMA RetryInv ==
  ASSUME IndInv, TypeOK', Retry \/ Finish, UNCHANGED <<reg, ns, access>> PROVE IndInv'
BY ForgetInv, ClusterFrame DEF IndInv, Retry, Finish

LEMMA FailsInv == ASSUME IndInv, TypeOK', Fails PROVE IndInv'
BY RetryInv DEF Fails, content

\* A step that goes on, with what is known then.
LEMMA GotoInv ==
  ASSUME IndInv, TypeOK', NEW s \in Steps \ {"trigger"}, Goto(s), UNCHANGED reg,
         s \in Creation => pc \in Creation,
         s \in Removal => pc \in Removal,
         ClusterInv', ProgressInv'
  PROVE  IndInv'
<1>1. pc' = s /\ copy' = copy /\ fresh' = fresh /\ reg' = reg
  BY DEF Goto
<1>2. WorkerInv' /\ TriggerInv'
  BY <1>1 DEF WorkerInv, TriggerInv, IndInv
<1> QED
  BY <1>2 DEF IndInv

\* The same for a step that only reads.
LEMMA ContinueInv ==
  ASSUME IndInv, TypeOK', NEW s \in Steps \ {"trigger"}, Continue(s),
         s \in Creation => pc \in Creation,
         s \in Removal => pc \in Removal,
         s = "unfinalize" => ns # "active",
         s \notin {CreateSteps[2], CreateSteps[3], CreateSteps[4], "storeCompleted",
                   DeleteSteps[2], DeleteSteps[3], DeleteSteps[4], "deleteNamespace"}
  PROVE  IndInv'
<1>1. pc' = s /\ UNCHANGED <<reg, ns, access>> /\ Goto(s)
  BY DEF Continue, Goto, content
<1>2. Progress'
  BY <1>1, StepNames DEF Progress
<1>3. ClusterInv'
  BY <1>1, ClusterFrame DEF IndInv
<1> QED
  BY <1>1, <1>2, <1>3, GotoInv, ProgressSteps

\* An update, after which the worker goes on with what it has stored.
LEMMA StoresInv ==
  ASSUME IndInv, TypeOK', NEW o \in Outcomes, NEW r \in Registrations,
         NEW s \in {"storeCreating", "createNamespace", "getNamespace", "installations"},
         Stores(o, r, s),
         fresh => /\ Fits(r) /\ r.state # "none"
                  /\ s \in Creation => r.finalizer
                  /\ s \in Removal => r.state = "deleting"
  PROVE  IndInv'
<1>1. UNCHANGED <<ns, access>>
  BY DEF Stores, content
<1>2. reg' = reg \/ (fresh /\ reg' = r)
  BY DEF Stores
<1>3. ClusterInv'
  <2>1. CASE reg' = reg
    BY <1>1, <2>1, ClusterFrame DEF IndInv
  <2>2. CASE fresh /\ reg' = r
    BY <1>1, <2>2 DEF IndInv, ClusterInv, Fits, AccessInv
  <2> QED
    BY <1>2, <2>1, <2>2
<1>4. CASE Retry
  BY <1>3, <1>4, ForgetInv DEF Retry
<1>5. CASE fresh /\ o = "ok"
  <2>1. /\ reg' = r /\ copy' = r /\ pc' = s /\ fresh' = fresh
    BY <1>5 DEF Stores
  <2>2. WorkerInv'
    BY <1>5, <2>1 DEF WorkerInv
  <2>3. Progress' /\ TriggerInv'
    BY <2>1 DEF Progress, TriggerInv
  <2> QED
    BY <1>3, <2>2, <2>3, ProgressSteps DEF IndInv
<1> QED
  BY <1>4, <1>5 DEF Stores

\* A last update.
LEMMA StoresLastInv ==
  ASSUME IndInv, TypeOK', NEW o \in Outcomes, NEW r \in Registrations,
         StoresLast(o, r), fresh => Fits(r)
  PROVE  IndInv'
<1>1. UNCHANGED <<ns, access>> /\ Forget
  BY DEF StoresLast, content, Retry, Finish
<1>2. reg' = reg \/ (fresh /\ reg' = r)
  BY DEF StoresLast
<1>3. ClusterInv'
  <2>1. CASE reg' = reg
    BY <1>1, <2>1, ClusterFrame DEF IndInv
  <2>2. CASE fresh /\ reg' = r
    BY <1>1, <2>2 DEF IndInv, ClusterInv, Fits, AccessInv
  <2> QED
    BY <1>2, <2>1, <2>2
<1> QED
  BY <1>1, <1>3, ForgetInv

\* Phase and finalizer of a registration, as the worker writes them.
LEMMA UpdatedFits ==
  ASSUME TypeOK, Fits(reg), reg.state # "none"
  PROVE  /\ \A p \in Phases \ {"Completed"} : Fits([reg EXCEPT !.phase = p])
         /\ ns = "active" /\ access = AllAccess =>
              Fits([reg EXCEPT !.phase = "Completed"])
         /\ Fits([reg EXCEPT !.finalizer = TRUE])
BY DEF TypeOK, Fits, Registrations

-----------------------------------------------------------------------------
(***************************************************************************)
(* Creation.                                                               *)
(***************************************************************************)
LEMMA ReconcileInv == ASSUME IndInv, TypeOK', Reconcile PROVE IndInv'
<1>1. UNCHANGED <<reg, ns, access>>
  BY DEF Reconcile, content
<1>2. ClusterInv'
  BY <1>1, ClusterFrame DEF IndInv
<1>3. CASE reg.state = "none" \/ FirstStep = "idle"
  BY <1>2, <1>3, ForgetInv DEF Reconcile
<1>4. CASE ~(reg.state = "none" \/ FirstStep = "idle")
  <2>1. pc' = FirstStep /\ copy' = reg /\ fresh' = TRUE
    BY <1>4 DEF Reconcile
  <2>2. reg.state \in {"none", "present", "deleting"}
    BY DEF IndInv, TypeOK, Registrations
  <2>3. \/ FirstStep \in {"refuse", "finalizer"}
        \/ FirstStep = "getNamespace" /\ reg.state = "deleting"
        \/ FirstStep \in {"storeCreating", "createNamespace"}
             /\ reg.state = "present" /\ reg.finalizer
    <3>1. CASE ~wellNamed
      BY <1>4, <3>1 DEF FirstStep
    <3>2. CASE wellNamed /\ reg.state = "present" /\ ~reg.finalizer
      BY <3>2 DEF FirstStep
    <3>3. CASE wellNamed /\ ~(reg.state = "present" /\ ~reg.finalizer)
      <4>1. FirstStep = AfterFinalizer(reg)
        BY <3>3 DEF FirstStep
      <4>2. reg.state = "present" \/ reg.state = "deleting"
        BY <1>4, <2>2
      <4>3. \/ AfterFinalizer(reg) = "getNamespace" /\ reg.state = "deleting"
            \/ AfterFinalizer(reg) = "idle"
            \/ /\ AfterFinalizer(reg) \in {"storeCreating", "createNamespace"}
               /\ reg.state = "present"
        BY <4>2 DEF AfterFinalizer
      <4> QED
        BY <1>4, <3>3, <4>1, <4>3
    <3> QED
      BY <3>1, <3>2, <3>3
  <2>4. WorkerInv'
    BY <1>1, <1>4, <2>1, <2>3, StepSets DEF WorkerInv
  <2>5. Progress' /\ TriggerInv'
    BY <2>1, <2>3 DEF Progress, TriggerInv
  <2> QED
    BY <1>2, <2>4, <2>5, ProgressSteps DEF IndInv
<1> QED
  BY <1>3, <1>4

LEMMA RefuseInv ==
  ASSUME IndInv, TypeOK', NEW o \in Outcomes, Refuse(o) PROVE IndInv'
<1>1. copy \in Registrations /\ "Failed" \in Phases \ {"Completed"}
  BY DEF IndInv, TypeOK, Phases
<1>2. fresh => Fits([copy EXCEPT !.phase = "Failed"])
  BY <1>1, UpdatedFits DEF IndInv, ClusterInv, WorkerInv
<1> QED
  BY <1>1, <1>2, UpdateTypes, StoresLastInv DEF Refuse

LEMMA SetFinalizerInv ==
  ASSUME IndInv, TypeOK', NEW o \in Outcomes, SetFinalizer(o) PROVE IndInv'
<1> DEFINE r == [copy EXCEPT !.finalizer = TRUE]
<1>1. r \in Registrations /\ r.finalizer
  BY UpdateTypes DEF IndInv, TypeOK, Registrations
<1>2. fresh => Fits(r) /\ r.state # "none"
  BY UpdatedFits DEF IndInv, ClusterInv, WorkerInv, TypeOK, Registrations
<1>3. IF AfterFinalizer(r) = "idle" THEN StoresLast(o, r)
      ELSE Stores(o, r, AfterFinalizer(r))
  BY DEF SetFinalizer
<1>4. \/ AfterFinalizer(r) = "idle"
      \/ AfterFinalizer(r) = "getNamespace" /\ r.state = "deleting"
      \/ AfterFinalizer(r) \in {"storeCreating", "createNamespace"}
  BY DEF AfterFinalizer
<1> HIDE DEF r
<1>5. CASE AfterFinalizer(r) = "idle"
  BY <1>1, <1>2, <1>3, <1>5, StoresLastInv
<1>6. CASE AfterFinalizer(r) # "idle"
  BY <1>1, <1>2, <1>3, <1>4, <1>6, StepSets, StoresInv
<1> QED
  BY <1>5, <1>6

LEMMA StoreCreatingInv ==
  ASSUME IndInv, TypeOK', NEW o \in Outcomes, StoreCreating(o) PROVE IndInv'
<1> DEFINE r == [copy EXCEPT !.phase = "Creating"]
<1>1. copy \in Registrations /\ "Creating" \in Phases \ {"Completed"}
  BY DEF IndInv, TypeOK, Phases
<1>2. r \in Registrations /\ r.finalizer = copy.finalizer /\ r.state = copy.state
  BY <1>1, UpdateTypes DEF Registrations
<1>3. pc = "storeCreating" /\ Stores(o, r, "createNamespace")
  BY DEF StoreCreating, StoresPhase
<1>4. fresh => Fits(r)
  BY <1>1, UpdatedFits DEF IndInv, ClusterInv, WorkerInv
<1> HIDE DEF r
<1> QED
  BY <1>2, <1>3, <1>4, StepSets, StoresInv DEF IndInv, WorkerInv

LEMMA CreateNamespaceInv ==
  ASSUME IndInv, TypeOK', NEW o \in Outcomes, CreateNamespace(o) PROVE IndInv'
<1>1. /\ pc = "createNamespace" /\ UNCHANGED <<reg, access>>
      /\ ns' = ns \/ (ns = "none" /\ ns' = "active")
      /\ Goto("loadSubjects") \/ Retry
  BY DEF CreateNamespace, content
<1>2. reg.finalizer
  BY <1>1, StepSets DEF IndInv, WorkerInv
<1>3. ClusterInv'
  BY <1>1, <1>2 DEF IndInv, ClusterInv, Fits, AccessInv
<1>4. CASE Retry
  BY <1>3, <1>4, ForgetInv DEF Retry
<1>5. CASE Goto("loadSubjects")
  <2>1. Progress'
    BY <1>5 DEF Goto, Progress
  <2> QED
    BY <1>1, <1>3, <1>5, <2>1, GotoInv, ProgressSteps, StepSets
<1> QED
  BY <1>1, <1>4, <1>5

LEMMA LoadSubjectsInv == ASSUME IndInv, TypeOK', LoadSubjects PROVE IndInv'
<1>1. CASE Fails
  BY <1>1, FailsInv
<1>2. CASE Continue(CreateSteps[1])
  BY <1>2, ContinueInv, StepSets, StepNames DEF LoadSubjects
<1> QED
  BY <1>1, <1>2 DEF LoadSubjects, Continue

LEMMA CreateAccessInv ==
  ASSUME IndInv, TypeOK', NEW k \in DOMAIN Access, NEW o \in Outcomes, CreateAccess(k, o)
  PROVE  IndInv'
<1> DEFINE works == (ns = "active" \/ Access[k] \in access) /\ o # "fail"
           s == IF k = Len(Access) THEN "storeCompleted" ELSE CreateSteps[k + 1]
<1>1. /\ pc = CreateSteps[k] /\ UNCHANGED <<reg, ns>>
      /\ access' = IF works THEN access \cup {Access[k]} ELSE access
      /\ (works /\ Goto(s)) \/ Retry
  BY DEF CreateAccess
<1>2. pc \in Creation /\ reg.finalizer
  BY <1>1 DEF IndInv, WorkerInv, Creation
<1>3. works => ns = "active"
  BY DEF IndInv, ClusterInv, AccessInv
<1>4. access \subseteq AllAccess /\ Access[k] \in AllAccess
  BY DEF IndInv, TypeOK, AllAccess
<1>5. ClusterInv'
  BY <1>1, <1>2, <1>3, <1>4 DEF IndInv, ClusterInv, Fits, AccessInv
<1>6. CASE Retry
  BY <1>5, <1>6, ForgetInv DEF Retry
<1>7. CASE works /\ Goto(s)
  <2>1. s \in Creation \ {"trigger"} /\ s \notin Removal /\ s \in Steps
    BY AccessNames, StepNames, StepSets
  <2>2. access' = access \cup {Access[k]} /\ pc' = s
    BY <1>1, <1>7 DEF Goto
  <2>3. Progress
    BY ProgressSteps DEF IndInv
  <2>4. Progress'
    <3>1. CASE k = 1
      BY <1>1, <2>2, <2>3, <3>1, AccessNames, StepNames DEF Progress
    <3>2. CASE k = 2
      BY <1>1, <2>2, <2>3, <3>2, AccessNames, StepNames DEF Progress
    <3>3. CASE k = 3
      BY <1>1, <2>2, <2>3, <3>3, AccessNames, StepNames DEF Progress
    <3>4. CASE k = 4
      BY <1>1, <1>4, <2>2, <2>3, <3>4, AccessNames, StepNames DEF Progress
    <3> QED
      BY <3>1, <3>2, <3>3, <3>4, AccessNames
  <2> HIDE DEF s
  <2> QED
    BY <1>1, <1>2, <1>5, <1>7, <2>1, <2>4, GotoInv, ProgressSteps
<1> QED
  BY <1>1, <1>6, <1>7

LEMMA StoreCompletedInv ==
  ASSUME IndInv, TypeOK', NEW o \in Outcomes, StoreCompleted(o) PROVE IndInv'
<1>1. copy \in Registrations /\ "Completed" \in Phases
  BY DEF IndInv, TypeOK, Phases
<1>2. access = AllAccess
  BY ProgressSteps DEF IndInv, Progress, StoreCompleted
<1>3. ns = "active"
  BY <1>2, AccessNames DEF IndInv, ClusterInv, AccessInv
<1>4. fresh => Fits([copy EXCEPT !.phase = "Completed"])
  BY <1>2, <1>3, UpdatedFits DEF IndInv, ClusterInv, WorkerInv
<1> QED
  BY <1>1, <1>4, UpdateTypes, StoresLastInv DEF StoreCompleted

-----------------------------------------------------------------------------
(***************************************************************************)
(* Deletion.                                                               *)
(***************************************************************************)
LEMMA GetNamespaceInv == ASSUME IndInv, TypeOK', GetNamespace PROVE IndInv'
<1>1. CASE Fails
  BY <1>1, FailsInv
<1>2. CASE ~Fails
  <2>1. PICK s \in {"unfinalize", "storeDeleting", "installations"} :
          Continue(s) /\ (s = "unfinalize" => ns = "none")
    BY <1>2 DEF GetNamespace
  <2>2. pc \in Removal /\ s \notin Creation /\ s \in Steps \ {"trigger"}
    BY StepSets DEF GetNamespace
  <2> QED
    BY <2>1, <2>2, ContinueInv, StepNames
<1> QED
  BY <1>1, <1>2

LEMMA StoreDeletingInv ==
  ASSUME IndInv, TypeOK', NEW o \in Outcomes, StoreDeleting(o) PROVE IndInv'
<1> DEFINE r == [copy EXCEPT !.phase = "Deleting"]
<1>1. copy \in Registrations /\ "Deleting" \in Phases \ {"Completed"}
  BY DEF IndInv, TypeOK, Phases
<1>2. r \in Registrations /\ r.finalizer = copy.finalizer /\ r.state = copy.state
  BY <1>1, UpdateTypes DEF Registrations
<1>3. pc = "storeDeleting" /\ Stores(o, r, "installations")
  BY DEF StoreDeleting, StoresPhase
<1>4. fresh => Fits(r)
  BY <1>1, UpdatedFits DEF IndInv, ClusterInv, WorkerInv
<1> HIDE DEF r
<1> QED
  BY <1>2, <1>3, <1>4, StepSets, StoresInv DEF IndInv, WorkerInv

LEMMA ListInstallationsInv == ASSUME IndInv, TypeOK', ListInstallations PROVE IndInv'
<1>1. CASE Fails
  BY <1>1, FailsInv
<1>2. CASE Continue("executions")
  BY <1>2, ContinueInv, StepSets, StepNames DEF ListInstallations
<1>3. CASE Retry /\ UNCHANGED <<wellNamed, reg, ns, content, faults, user, regs, failures>>
  BY <1>3, RetryInv DEF content
<1>4. CASE /\ copy.strategy # "unknown"
           /\ todo' = {i \in Present : copy.strategy = "default" => insts[i].keep}
           /\ pc' = "trigger" /\ seen' = insts /\ current' = Present
           /\ UNCHANGED <<copy, fresh, queued>>
           /\ UNCHANGED <<wellNamed, reg, ns, content, faults, user, regs, failures>>
  <2>1. UNCHANGED <<reg, ns, access, insts, copy, fresh>> /\ pc' = "trigger"
    BY <1>4 DEF content
  <2>2. ClusterInv' /\ Progress'
    BY <2>1, ClusterFrame DEF IndInv, Progress
  <2>3. WorkerInv'
    BY <2>1, StepSets DEF IndInv, WorkerInv, ListInstallations
  <2>4. TriggerInv'
    BY <1>4, <2>1 DEF TriggerInv
  <2> QED
    BY <2>2, <2>3, <2>4, ProgressSteps DEF IndInv
<1> QED
  BY <1>1, <1>2, <1>3, <1>4 DEF ListInstallations

\* What is left to look at agrees with what is stored, or is dropped.
LEMMA TriggerFrame ==
  ASSUME IndInv, TypeOK', pc = "trigger", pc' = pc, UNCHANGED <<reg, ns, access, copy, fresh>>,
         TriggerInv'
  PROVE  IndInv'
<1>1. ClusterInv' /\ WorkerInv'
  BY ClusterFrame DEF IndInv, WorkerInv
<1>2. Progress'
  BY DEF Progress
<1> QED
  BY <1>1, <1>2, ProgressSteps DEF IndInv

LEMMA DropInv ==
  ASSUME IndInv, TypeOK', pc = "trigger", NEW i \in Installations, Drop(i),
         \A j \in Installations \ {i} : insts'[j] = insts[j],
         UNCHANGED <<reg, ns, access>>
  PROVE  IndInv'
<1>1. UNCHANGED <<pc, copy, fresh, seen, current>> /\ todo' = todo \ {i}
  BY DEF Drop
<1>2. TriggerInv'
  BY <1>1 DEF TriggerInv, IndInv, TypeOK
<1> QED
  BY <1>1, <1>2, TriggerFrame

LEMMA TriggerDeletionInv == ASSUME IndInv, TypeOK', TriggerDeletion PROVE IndInv'
<1>1. ASSUME NEW i \in todo, NEW o \in Outcomes,
             Annotate(i, o) \/ DeleteInstallation(i, o) \/ Retrigger(i, o)
      PROVE  IndInv'
  <2>1. pc = "trigger" /\ i \in Installations /\ UNCHANGED <<reg, ns, access>>
    BY <1>1 DEF TriggerDeletion, Annotate, DeleteInstallation, Retrigger, IndInv, TypeOK
  <2>2. insts \in [Installations -> InstallationStates]
        /\ seen \in [Installations -> InstallationStates]
    BY DEF IndInv, TypeOK
  <2>3. \A j \in Installations \ {i} : insts'[j] = insts[j]
    BY <1>1, <2>2 DEF Annotate, DeleteInstallation, Retrigger
  <2>4. CASE Drop(i)
    BY <2>1, <2>3, <2>4, DropInv
  <2>5. CASE Annotate(i, o) /\ ~Drop(i)
    <3>1. /\ i \in current /\ UNCHANGED <<pc, copy, fresh, todo, current>>
          /\ insts' = [insts EXCEPT ![i].keep = TRUE]
          /\ seen' = [seen EXCEPT ![i].keep = TRUE]
      BY <2>5 DEF Annotate
    <3>2. /\ insts'[i] = [insts[i] EXCEPT !.keep = TRUE]
          /\ seen'[i] = [seen[i] EXCEPT !.keep = TRUE]
          /\ \A j \in Installations \ {i} : seen'[j] = seen[j]
      BY <2>1, <2>2, <3>1
    <3>3. seen'[i].keep
      BY <2>1, <2>2, <3>2 DEF InstallationStates
    <3>4. TriggerInv
      BY DEF IndInv
    <3>5. \A j \in todo \cap current : seen'[j] = insts'[j]
      BY <2>1, <2>3, <3>2, <3>4 DEF TriggerInv, IndInv, TypeOK
    <3>6. copy.strategy = "default" => \A j \in todo : seen'[j].keep
      BY <2>1, <3>2, <3>3, <3>4 DEF TriggerInv, IndInv, TypeOK
    <3>7. TriggerInv'
      BY <2>1, <3>1, <3>4, <3>5, <3>6 DEF TriggerInv
    <3> QED
      BY <2>1, <3>1, <3>7, TriggerFrame
  <2> QED
    BY <1>1, <2>4, <2>5 DEF DeleteInstallation, Retrigger
<1>2. ASSUME NEW i \in todo, LeaveAlone(i) PROVE IndInv'
  <2>1. i \in Installations /\ UNCHANGED <<reg, ns, access, insts>> /\ Drop(i)
    BY <1>2 DEF LeaveAlone, content, IndInv, TypeOK
  <2> QED
    BY <2>1, DropInv DEF TriggerDeletion
<1> QED
  BY <1>1, <1>2 DEF TriggerDeletion

LEMMA CheckGoneInv ==
  ASSUME IndInv, TypeOK', NEW step, NEW kind, NEW next \in {"deployItems", "targetSyncs"},
         step \in {"executions", "deployItems"}, CheckGone(step, kind, next)
  PROVE  IndInv'
<1>1. CASE Fails
  BY <1>1, FailsInv
<1>2. CASE Continue(next)
  BY <1>2, ContinueInv, StepSets, StepNames DEF CheckGone
<1>3. CASE Retry /\ UNCHANGED <<wellNamed, reg, ns, content, faults, user, regs, failures>>
  BY <1>3, RetryInv DEF content
<1> QED
  BY <1>1, <1>2, <1>3 DEF CheckGone

LEMMA ListTargetSyncsInv == ASSUME IndInv, TypeOK', ListTargetSyncs PROVE IndInv'
<1>1. CASE Fails
  BY <1>1, FailsInv
<1>2. CASE ~Fails
  <2>1. PICK s \in {"deleteTargetSyncs", "deleteUserBinding"} : Continue(s)
    BY <1>2, StepNames DEF ListTargetSyncs
  <2> QED
    BY <2>1, ContinueInv, StepSets, StepNames DEF ListTargetSyncs
<1> QED
  BY <1>1, <1>2

LEMMA DeleteAccessInv ==
  ASSUME IndInv, TypeOK', NEW k \in DOMAIN Revocation, NEW o \in Outcomes,
         DeleteAccess(k, o)
  PROVE  IndInv'
<1> DEFINE s == IF k = Len(Revocation) THEN "deleteNamespace" ELSE DeleteSteps[k + 1]
<1>1. /\ pc = DeleteSteps[k] /\ UNCHANGED <<reg, ns>>
      /\ access' = IF o = "fail" THEN access ELSE access \ {Revocation[k]}
      /\ (o = "ok" /\ Goto(s)) \/ Retry
  BY DEF DeleteAccess
<1>2. pc \in Removal /\ reg.state = "deleting"
  BY <1>1 DEF IndInv, WorkerInv, Removal
<1>3. ClusterInv'
  BY <1>1, <1>2 DEF IndInv, ClusterInv, Fits, AccessInv
<1>4. CASE Retry
  BY <1>3, <1>4, ForgetInv DEF Retry
<1>5. CASE o = "ok" /\ Goto(s)
  <2>1. s \in Removal /\ s \notin Creation /\ s \in Steps \ {"trigger"}
    BY AccessNames, StepNames, StepSets
  <2>2. access' = access \ {Revocation[k]} /\ pc' = s
    BY <1>1, <1>5 DEF Goto
  <2>3. Progress
    BY ProgressSteps DEF IndInv
  <2>4. Progress'
    <3>1. CASE k = 1
      BY <1>1, <2>2, <2>3, <3>1, AccessNames, StepNames DEF Progress
    <3>2. CASE k = 2
      BY <1>1, <2>2, <2>3, <3>2, AccessNames, StepNames DEF Progress
    <3>3. CASE k = 3
      BY <1>1, <2>2, <2>3, <3>3, AccessNames, StepNames DEF Progress
    <3>4. CASE k = 4
      <4>1. access \subseteq AllAccess
        BY DEF IndInv, TypeOK
      <4>2. access' = {}
        BY <1>1, <2>2, <2>3, <3>4, <4>1, AccessNames, StepNames DEF Progress
      <4> QED
        BY <2>2, <3>4, <4>2, AccessNames DEF Progress
    <3> QED
      BY <3>1, <3>2, <3>3, <3>4, AccessNames
  <2> HIDE DEF s
  <2> QED
    BY <1>1, <1>2, <1>3, <1>5, <2>1, <2>4, GotoInv, ProgressSteps
<1> QED
  BY <1>1, <1>4, <1>5

LEMMA DeleteNamespaceInv ==
  ASSUME IndInv, TypeOK', NEW o \in Outcomes, DeleteNamespace(o) PROVE IndInv'
<1>1. /\ pc = "deleteNamespace" /\ UNCHANGED <<reg, access>>
      /\ ns' = ns \/ (ns = "active" /\ ns' = "terminating")
      /\ Retry \/ (Goto("unfinalize") /\ ns' # "active")
  <2>1. ns \in {"none", "active", "terminating"}
    BY DEF IndInv, TypeOK
  <2> QED
    BY <2>1 DEF DeleteNamespace, content
<1>2. access = {} /\ reg.state = "deleting"
  <2>1. Progress /\ pc \in Removal
    BY <1>1, ProgressSteps, StepSets DEF IndInv
  <2> QED
    BY <1>1, <2>1 DEF Progress, IndInv, WorkerInv
<1>3. ClusterInv'
  BY <1>1, <1>2 DEF IndInv, ClusterInv, Fits, AccessInv
<1>4. CASE Retry
  BY <1>3, <1>4, ForgetInv DEF Retry
<1>5. CASE Goto("unfinalize") /\ ns' # "active"
  <2>1. Progress'
    BY <1>5 DEF Goto, Progress
  <2> QED
    BY <1>1, <1>3, <1>5, <2>1, GotoInv, ProgressSteps, StepSets
<1> QED
  BY <1>1, <1>4, <1>5

LEMMA RemoveFinalizerInv ==
  ASSUME IndInv, TypeOK', NEW o \in Outcomes, RemoveFinalizer(o) PROVE IndInv'
<1>1. ns # "active"
  BY ProgressSteps DEF RemoveFinalizer, IndInv, Progress
<1>2. Fits(NoReg)
  BY <1>1 DEF IndInv, ClusterInv, AccessInv, Fits, NoReg
<1> QED
  BY <1>2, RecordTypes, StoresLastInv DEF RemoveFinalizer

-----------------------------------------------------------------------------
(***************************************************************************)
(* Steps that are not the worker's.                                        *)
(***************************************************************************)

\* They leave roles and bindings alone, and keep the finalizer and the
\* deletion of a registration.
LEMMA OthersInv ==
  ASSUME IndInv, TypeOK', UNCHANGED <<pc, copy, access>>,
         ns' = ns \/ ns' = "none",
         fresh' => fresh /\ reg' = reg,
         reg.finalizer => reg'.finalizer,
         reg.state = "deleting" => reg'.state = "deleting",
         ClusterInv', TriggerInv'
  PROVE  IndInv'
<1>1. WorkerInv'
  BY DEF IndInv, WorkerInv
<1>2. Progress'
  <2>1. Progress
    BY ProgressSteps DEF IndInv
  <2> QED
    BY <2>1 DEF Progress
<1> QED
  BY <1>1, <1>2, ProgressSteps DEF IndInv

LEMMA RegistrationStepInv ==
  ASSUME IndInv, TypeOK', Register \/ Deregister \/ ChangeStrategy PROVE IndInv'
<1>1. /\ UNCHANGED <<pc, copy, todo, seen, current, ns, access, insts>>
      /\ fresh' = FALSE
  BY DEF Register, Deregister, ChangeStrategy, Outdate, content
<1>2. reg \in Registrations /\ ClusterInv
  BY DEF IndInv, TypeOK
<1>3. /\ reg.finalizer => reg'.finalizer
      /\ reg.state = "deleting" => reg'.state = "deleting"
      /\ Fits(reg')
  <2>1. CASE Register
    <3>1. /\ reg.state = "none" /\ reg'.state = "present" /\ ~reg'.finalizer
          /\ reg'.phase = ""
      BY <2>1 DEF Register, NoReg
    <3> QED
      BY <1>2, <3>1 DEF ClusterInv, Fits
  <2>2. CASE Deregister
    <3>1. CASE reg.finalizer
      BY <1>2, <2>2, <3>1 DEF Deregister, ClusterInv, Fits, Registrations
    <3>2. CASE ~reg.finalizer
      BY <1>2, <2>2, <3>2 DEF Deregister, ClusterInv, Fits, NoReg
    <3> QED
      BY <3>1, <3>2
  <2>3. CASE ChangeStrategy
    <3>1. UNCHANGED <<reg.state, reg.finalizer, reg.phase>>
      BY <1>2, <2>3 DEF ChangeStrategy, Registrations
    <3> QED
      BY <1>2, <3>1 DEF ClusterInv, Fits
  <2> QED
    BY <2>1, <2>2, <2>3
<1>4. ClusterInv'
  BY <1>1, <1>2, <1>3 DEF ClusterInv, Fits, AccessInv
<1>5. TriggerInv'
  BY <1>1 DEF IndInv, TriggerInv
<1> QED
  BY <1>1, <1>3, <1>4, <1>5, OthersInv

\* A write of an Installation outdates the worker's copy of it.
LEMMA OutdatedInv ==
  ASSUME IndInv, TypeOK', NEW i \in Installations,
         \A j \in Installations \ {i} : insts'[j] = insts[j],
         current' = current \ {i},
         UNCHANGED <<reg, ns, access, pc, copy, fresh, todo, seen>>
  PROVE  IndInv'
<1>1. TriggerInv'
  BY DEF IndInv, TriggerInv, TypeOK
<1>2. ClusterInv'
  BY ClusterFrame DEF IndInv
<1> QED
  BY <1>1, <1>2, OthersInv

LEMMA InstallationStepInv ==
  ASSUME IndInv, TypeOK', NEW i \in Installations,
         CreateInstallation(i) \/ ChangeInstallation(i) \/ Landscaper(i)
  PROVE  IndInv'
<1>1. insts \in [Installations -> InstallationStates]
  BY DEF IndInv, TypeOK
<1>2. \A j \in Installations \ {i} : insts'[j] = insts[j]
  BY <1>1 DEF CreateInstallation, ChangeInstallation, Landscaper, StartJob, EndJob, FailJob
<1>3. current' = current \ {i} /\ UNCHANGED <<reg, ns, access, pc, copy, fresh, todo, seen>>
  BY DEF CreateInstallation, ChangeInstallation, Landscaper, StartJob, EndJob, FailJob,
     OutdateInst
<1> QED
  BY <1>2, <1>3, OutdatedInv

\* When a namespace terminates there are no roles and bindings left to remove.
LEMMA EmptyInv == ASSUME IndInv, TypeOK', Empty PROVE IndInv'
<1>1. access = {}
  BY DEF IndInv, ClusterInv, AccessInv, Empty
<1>2. UNCHANGED <<reg, ns, access, pc, copy, fresh, todo, seen>>
  BY <1>1 DEF Empty
<1>3. CASE UNCHANGED <<insts, current>>
  <2>1. TriggerInv' /\ ClusterInv'
    BY <1>2, <1>3, ClusterFrame DEF IndInv, TriggerInv
  <2> QED
    BY <1>2, <2>1, OthersInv
<1>4. ASSUME NEW i \in Installations, insts' = [insts EXCEPT ![i].state = "deleting"],
             current' = current \ {i}
      PROVE  IndInv'
  <2>1. \A j \in Installations \ {i} : insts'[j] = insts[j]
    BY <1>4 DEF IndInv, TypeOK
  <2> QED
    BY <1>2, <1>4, <2>1, OutdatedInv
<1> QED
  BY <1>3, <1>4 DEF Empty

LEMMA EndNamespaceInv == ASSUME IndInv, TypeOK', EndNamespace PROVE IndInv'
<1>1. /\ ns = "terminating" /\ ns' = "none" /\ access = {}
      /\ UNCHANGED <<reg, access, insts, pc, copy, fresh, todo, seen, current>>
  BY DEF EndNamespace, content, worker
<1>2. ClusterInv' /\ TriggerInv'
  BY <1>1 DEF IndInv, ClusterInv, Fits, AccessInv, TriggerInv
<1> QED
  BY <1>1, <1>2, OthersInv

LEMMA ChangeLooseInv == ASSUME IndInv, TypeOK', ChangeLoose PROVE IndInv'
<1>1. UNCHANGED <<reg, ns, access, insts, pc, copy, fresh, todo, seen, current>>
  BY DEF ChangeLoose, worker
<1>2. ClusterInv' /\ TriggerInv'
  BY <1>1, ClusterFrame DEF IndInv, TriggerInv
<1> QED
  BY <1>1, <1>2, OthersInv

LEMMA RestartInv == ASSUME IndInv, TypeOK', Restart PROVE IndInv'
<1>1. Forget /\ UNCHANGED <<reg, ns, access>>
  BY DEF Restart, content
<1> QED
  BY <1>1, ForgetInv, ClusterFrame DEF IndInv

-----------------------------------------------------------------------------
(***************************************************************************)
(* The theorems.                                                           *)
(***************************************************************************)
LEMMA Initially == Init => IndInv
<1> SUFFICES ASSUME Init PROVE IndInv
  OBVIOUS
<1>1. NoReg \in Registrations /\ NoInst \in InstallationStates
  BY RecordTypes
<1>2. TypeOK
  <2>1. /\ faults \in 0 .. MaxFaults /\ user \in 0 .. MaxUser
        /\ regs \in 0 .. MaxRegs /\ failures \in 0 .. MaxFailures
    BY BoundsAssumption DEF Init
  <2>2. insts \in [Installations -> InstallationStates] /\ seen = insts
    BY <1>1 DEF Init
  <2>3. pc \in Steps
    BY StepSets DEF Init
  <2> QED
    BY <1>1, <2>1, <2>2, <2>3 DEF Init, TypeOK
<1>3. ClusterInv /\ WorkerInv /\ TriggerInv
  BY StepSets DEF Init, ClusterInv, Fits, AccessInv, WorkerInv, TriggerInv, NoReg
<1>4. ProgressInv
  BY ProgressSteps DEF Init, Progress
<1> QED
  BY <1>2, <1>3, <1>4 DEF IndInv

LEMMA Inductive == IndInv /\ [Next]_vars => IndInv'
<1> SUFFICES ASSUME IndInv, [Next]_vars PROVE IndInv'
  OBVIOUS
<1>1. TypeOK'
  BY StepType DEF IndInv
<1>2. CASE UNCHANGED vars
  <2>1. UNCHANGED <<reg, ns, access, insts, pc, copy, fresh, todo, seen, current>>
    BY <1>2 DEF vars, content, worker
  <2>2. ClusterInv' /\ TriggerInv'
    BY <2>1, ClusterFrame DEF IndInv, TriggerInv
  <2> QED
    BY <1>1, <2>1, <2>2, OthersInv
<1>3. CASE Create
  BY <1>1, <1>3, ReconcileInv, LoadSubjectsInv, RefuseInv, SetFinalizerInv, StoreCreatingInv,
     CreateNamespaceInv, StoreCompletedInv, CreateAccessInv DEF Create
<1>4. CASE HandleDelete
  <2>1. CASE CheckExecutions \/ CheckDeployItems
    BY <1>1, <2>1, CheckGoneInv DEF CheckExecutions, CheckDeployItems
  <2>2. CASE TriggeredDeletion
    BY <1>1, <2>2, RetryInv DEF TriggeredDeletion, content
  <2>3. ASSUME NEW o \in Outcomes, DeleteTargetSyncs(o) PROVE IndInv'
    BY <1>1, <2>3, RetryInv DEF DeleteTargetSyncs
  <2> QED
    BY <1>1, <1>4, <2>1, <2>2, <2>3, GetNamespaceInv, ListInstallationsInv, TriggerDeletionInv,
       ListTargetSyncsInv, StoreDeletingInv, DeleteNamespaceInv, RemoveFinalizerInv,
       DeleteAccessInv DEF HandleDelete
<1>5. CASE Users
  BY <1>1, <1>5, RegistrationStepInv, ChangeLooseInv, InstallationStepInv DEF Users
<1>6. CASE Restart \/ APIServer \/ \E i \in Installations : Landscaper(i)
  BY <1>1, <1>6, RestartInv, EmptyInv, EndNamespaceInv, InstallationStepInv DEF APIServer
<1> QED
  BY <1>2, <1>3, <1>4, <1>5, <1>6 DEF Next, Worker

LEMMA Invariant == Spec => []IndInv
BY Initially, Inductive, PTL DEF Spec

\* Every variable holds a value of its kind.
THEOREM TypeCorrect == Spec => []TypeOK
BY Invariant, PTL DEF IndInv

\* Whatever calls failed or were lost, and however quickly the registration
\* came and went: a namespace that can be used, or in which anybody has a role,
\* has a registration with the finalizer that will take it down.
THEOREM NothingLeftBehind == Spec => []Accounted
<1>1. IndInv => Accounted
  BY DEF IndInv, ClusterInv, Fits, Accounted
<1> QED
  BY <1>1, Invariant, PTL

\* A registration that says Completed has its namespace with all roles and
\* bindings.
THEOREM CompletedMeansUsable == Spec => []CompletedIsUsable
<1>1. IndInv => CompletedIsUsable
  BY DEF IndInv, ClusterInv, Fits, CompletedIsUsable
<1> QED
  BY <1>1, Invariant, PTL

\* Users have lost their access when the namespace starts to terminate.
THEOREM NoAccessWhileTerminating == Spec => []AccessEndsFirst
<1>1. IndInv => AccessEndsFirst
  BY DEF IndInv, ClusterInv, AccessInv, AccessEndsFirst
<1> QED
  BY <1>1, Invariant, PTL

\* Unless the strategy says so, an Installation that nobody changed since it
\* was listed is deleted with the annotation against its uninstallation only.
THEOREM NothingUninstalled == Spec => KeptWithoutUninstall
<1> DEFINE Keeps ==
      \A i \in current :
        pc = "trigger" /\ todo' # todo /\ copy.strategy # "all"
          /\ insts[i].state = "present" /\ insts'[i].state = "deleting"
        => insts[i].keep
<1>1. IndInv /\ [Next]_vars => Keeps
  <2> SUFFICES ASSUME IndInv, [Next]_vars, NEW i \in current, pc = "trigger", todo' # todo,
                      copy.strategy # "all", insts[i].state = "present",
                      insts'[i].state = "deleting"
               PROVE  insts[i].keep
    OBVIOUS
  <2>1. /\ i \in Installations /\ copy.strategy \in AllStrategies
        /\ insts \in [Installations -> InstallationStates]
    BY DEF IndInv, TypeOK, Registrations
  <2>2. PICK j \in todo : \E o \in Outcomes :
          Annotate(j, o) \/ DeleteInstallation(j, o) \/ Retrigger(j, o)
    <3>1. insts' # insts
      OBVIOUS
    <3>2. CASE Create
      BY <3>1, <3>2, StepNames, AccessNames
      DEF Create, Reconcile, LoadSubjects, Refuse, SetFinalizer, StoreCreating,
          CreateNamespace, StoreCompleted, CreateAccess, StoresPhase, Stores, StoresLast,
          content, Fails
    <3>3. CASE HandleDelete
      <4>1. CASE TriggerDeletion
        BY <3>1, <4>1 DEF TriggerDeletion, LeaveAlone, content
      <4>2. CASE TriggeredDeletion
        BY <3>1, <4>2 DEF TriggeredDeletion, content
      <4> QED
        BY <3>3, <4>1, <4>2, StepNames, AccessNames
        DEF HandleDelete, GetNamespace, ListInstallations, CheckExecutions, CheckDeployItems,
            CheckGone, ListTargetSyncs, StoreDeleting, StoresPhase, DeleteTargetSyncs,
            DeleteNamespace, RemoveFinalizer, DeleteAccess
    <3>4. CASE Users \/ APIServer \/ \E n \in Installations : Landscaper(n)
      BY <3>4 DEF Users, Register, Deregister, ChangeStrategy, ChangeLoose, Outdate,
         CreateInstallation, ChangeInstallation, OutdateInst, worker, APIServer, Empty,
         EndNamespace, Landscaper, StartJob, EndJob, FailJob
    <3>5. CASE Restart \/ UNCHANGED vars
      BY <3>1, <3>5 DEF Restart, vars, content
    <3> QED
      BY <3>2, <3>3, <3>4, <3>5 DEF Next, Worker
  <2>3. j \in Installations
    BY DEF IndInv, TypeOK
  <2>4. i = j /\ MustDelete(i)
    BY <2>1, <2>2, <2>3 DEF Annotate, DeleteInstallation, Retrigger, InstallationStates
  <2>5. seen[i] = insts[i] /\ copy.strategy # "unknown"
        /\ (copy.strategy = "default" => seen[i].keep)
    BY <2>2, <2>4 DEF IndInv, TriggerInv
  <2> QED
    BY <2>1, <2>4, <2>5 DEF MustDelete, MustAnnotate, AllStrategies
<1>2. IndInv /\ [Next]_vars => [Keeps]_vars
  BY <1>1
<1> QED
  BY <1>2, Invariant, PTL DEF Spec, KeptWithoutUninstall
=============================================================================
