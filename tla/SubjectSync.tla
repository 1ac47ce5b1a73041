---------------------------- MODULE SubjectSync ----------------------------
(***************************************************************************)
(* Who may do what on a resource cluster.  The SubjectSync controller      *)
(* (pkg/controllers/subjectsync) copies the SubjectList into the role      *)
(* bindings; the NamespaceRegistration controller creates and deletes      *)
(* those of the customer namespaces, with subjects it has read before; the *)
(* start of the sidecar server creates the list and the binding of the     *)
(* namespace ls-user.                                                      *)
(*                                                                         *)
(* Each controller has one worker and makes one API call per action.  Of   *)
(* the NamespaceRegistration controller (module NamespaceRegistration)     *)
(* only the calls on bindings are here.                                    *)
(***************************************************************************)
EXTENDS Integers, Sequences

CONSTANTS
  Namespaces,  \* customer namespaces
  Foreign,     \* namespaces without the prefix, with a binding of that name
  Entries,     \* entries of a SubjectList
  MaxWrites,   \* bound: writes of the SubjectList
  MaxRegs,     \* bound: registrations of customer namespaces
  MaxFaults,   \* bound: failed calls and restarts of the process
  MaxMeddle    \* bound: deletions of the list or of a binding by operators

EntryKinds == {"User", "Group", "ServiceAccount"}

ASSUME EntriesAssumption ==
  Entries \subseteq [kind: STRING, name: STRING, namespace: STRING]
ASSUME PlacesAssumption ==
  /\ Namespaces \cap Foreign = {}
  /\ (Namespaces \cup Foreign) \cap {"cluster", "ls-user"} = {}
ASSUME BoundsAssumption ==
  /\ MaxWrites \in Nat /\ MaxRegs \in Nat
  /\ MaxFaults \in Nat /\ MaxMeddle \in Nat

VARIABLES
  list,      \* the SubjectList
  bound,     \* the role bindings that exist
  subjects,  \* their subjects
  boot,      \* the next call of the process's start, or "up"
  squeued,   \* the list is in the work queue of the SubjectSync controller
  spc,       \* its worker's next call
  scopy,     \* the subjects it read
  sfresh,    \* its copy of the list has the stored resource version
  todo,      \* the bindings it has listed and not yet updated
  current,   \* those of which its copy has the stored resource version
  reg,       \* the registrations, by namespace
  rpc,       \* the NamespaceRegistration worker's next call
  rns,       \* the namespace it works on
  rcopy,     \* the subjects it read
  admins,    \* history: whoever has been listed as administrator
  raced,     \* history: namespaces being bound at the list's last write
  writes, regs, faults, meddle  \* what the bounds count

sync == <<squeued, spc, scopy, sfresh, todo, current>>
registrar == <<rpc, rns, rcopy>>
bindings == <<bound, subjects>>
counters == <<writes, regs, faults, meddle>>
vars == <<list, bindings, boot, sync, reg, registrar, admins, raced, counters>>

-----------------------------------------------------------------------------
(***************************************************************************)
(* Subjects, bindings and roles.                                           *)
(***************************************************************************)

\* Users and groups have no namespace, service accounts are in ls-user
\* unless the entry says otherwise.
Subject(e) ==
  IF e.kind = "ServiceAccount"
  THEN [e EXCEPT !.namespace = IF @ = "" THEN "ls-user" ELSE @]
  ELSE [e EXCEPT !.namespace = ""]

\* Entries of an unknown kind are skipped.
Convert(es) == {Subject(e) : e \in {f \in es : f.kind \in EntryKinds}}

Subjects == [kind: EntryKinds, name: {e.name : e \in Entries},
             namespace: {"", "ls-user"} \cup {e.namespace : e \in Entries}]
NoSubjects == [users |-> {}, viewers |-> {}]

Roles == {"user", "viewer"}

\* A binding is named by the role it grants and the place where.
Bindings ==
  (Roles \X ({"cluster"} \cup Namespaces \cup Foreign))
  \cup {<<"user", "ls-user">>}
InCustomerNamespace == Roles \X Namespaces

\* Mutant: the two lists are swapped.
SubjectsFor_Swapped(copy, b) ==
  IF b[1] = "user" THEN copy.viewers ELSE copy.users

SubjectsFor(copy, b) == IF b[1] = "viewer" THEN copy.viewers ELSE copy.users

Wanted(b) == SubjectsFor([users |-> Convert(list.users),
                          viewers |-> Convert(list.viewers)], b)

\* What the role of a binding allows, by kind of resource; "landscaper" are
\* the Landscaper's kinds other than Installation, Execution and DeployItem.
Work == {"installations", "executions", "deployitems"}

Reads(b) ==
  CASE b = <<"user", "cluster">> ->
         {"namespaces", "subjectlists", "landscaper", "crds"} \cup Work
    [] b = <<"viewer", "cluster">> -> {"namespaces", "crds"} \cup Work
    [] b = <<"user", "ls-user">> ->
         {"subjectlists", "namespaceregistrations", "serviceaccounts"}
    [] b[1] = "user" /\ b[2] \in Namespaces \cup Foreign ->
         {"landscaper", "secrets", "configmaps"} \cup Work
    [] OTHER -> {"configmaps"} \cup Work

Writes(b) ==
  CASE b[2] = "cluster" \/ b[1] = "viewer" -> {}
    [] b[2] = "ls-user" ->
         {"subjectlists", "namespaceregistrations", "serviceaccounts"}
    [] OTHER -> {"landscaper", "secrets", "configmaps"} \cup Work

-----------------------------------------------------------------------------
Lists == [state: {"none", "present", "deleting"}, finalizer: BOOLEAN,
          users: SUBSET Entries, viewers: SUBSET Entries]
NoList == [state |-> "none", finalizer |-> FALSE, users |-> {}, viewers |-> {}]

BootSteps == {"namespace", "role", "binding", "list", "up"}

\* The steps that deal with the user role and the viewer role.
RoleStep == [user |-> "user role", viewer |-> "viewer role"]
BindingStep == [user |-> "user binding", viewer |-> "viewer binding"]
BindStep == [user |-> "bind user", viewer |-> "bind viewer"]
UnbindStep == [user |-> "unbind user", viewer |-> "unbind viewer"]

SyncSteps == {"idle", "finalizer", "list", "update"}
             \cup {RoleStep[r] : r \in Roles} \cup {BindingStep[r] : r \in Roles}
RegistrarSteps == {"idle", "load", "complete", "delete"}
                  \cup {BindStep[r] : r \in Roles} \cup {UnbindStep[r] : r \in Roles}

Init ==
  /\ list = NoList
  /\ bound = Roles \X Foreign
  /\ subjects = [b \in Bindings |-> {}]
  /\ boot = "namespace"
  /\ squeued = FALSE /\ spc = "idle" /\ scopy = NoSubjects /\ sfresh = FALSE
  /\ todo = {} /\ current = {}
  /\ reg = [n \in Namespaces |-> "none"]
  /\ rpc = "idle" /\ rns = "none" /\ rcopy = NoSubjects
  /\ admins = {} /\ raced = {}
  /\ writes = 0 /\ regs = 0 /\ faults = 0 /\ meddle = 0

Outcomes == {"ok", "fail", "lost"}

\* A call succeeds, fails without effect, or takes effect without an answer.
Outcome(o) ==
  /\ IF o = "ok" THEN UNCHANGED faults
     ELSE faults < MaxFaults /\ faults' = faults + 1
  /\ UNCHANGED <<writes, regs, meddle>>

\* A write of the binding b, which outdates a copy of it.
Bind(b, s) ==
  /\ bound' = bound \cup {b}
  /\ subjects' = [subjects EXCEPT ![b] = s]

Unbind(b) ==
  /\ bound' = bound \ {b}
  /\ subjects' = [subjects EXCEPT ![b] = {}]

-----------------------------------------------------------------------------
(***************************************************************************)
(* The start of the process, which ends it when a call fails.              *)
(***************************************************************************)
Boot(step, next, o) ==
  /\ boot = step
  /\ Outcome(o)
  /\ boot' = IF o = "ok" THEN next ELSE "namespace"
  /\ UNCHANGED <<reg, registrar, admins, raced>>

CreateLsUserNamespace(o) ==
  Boot("namespace", "role", o) /\ UNCHANGED <<list, bindings, sync>>

CreateLsUserRole(o) ==
  Boot("role", "binding", o) /\ UNCHANGED <<list, bindings, sync>>

\* The binding is created without subjects, and left as it is if it exists.
CreateLsUserBinding(o) ==
  /\ Boot("binding", "list", o)
  /\ IF o # "fail" /\ <<"user", "ls-user">> \notin bound
     THEN Bind(<<"user", "ls-user">>, {}) ELSE UNCHANGED bindings
  /\ UNCHANGED <<list, sync>>

\* An empty list is created unless there is one; when the controllers start
\* they queue what exists.
CreateSubjectList(o) ==
  /\ Boot("list", "up", o)
  /\ list' = IF o # "fail" /\ list.state = "none"
             THEN [NoList EXCEPT !.state = "present"] ELSE list
  /\ squeued' = (o = "ok")
  /\ UNCHANGED <<bindings, spc, scopy, sfresh, todo, current>>

-----------------------------------------------------------------------------
(***************************************************************************)
(* The SubjectSync controller.                                             *)
(***************************************************************************)
Others == <<boot, reg, registrar, admins, raced>>

Goto(step) ==
  spc' = step /\ UNCHANGED <<squeued, scopy, sfresh, todo, current>>

EndWith(again) ==
  /\ spc' = "idle" /\ scopy' = NoSubjects /\ sfresh' = FALSE
  /\ todo' = {} /\ current' = {} /\ squeued' = again

Retry == EndWith(TRUE)

\* A list in deletion is not looked at.
Reconcile ==
  /\ boot = "up" /\ spc = "idle" /\ squeued
  /\ IF list.state # "present" THEN EndWith(FALSE)
     ELSE /\ spc' = IF list.finalizer THEN RoleStep["user"] ELSE "finalizer"
          /\ scopy' = [users |-> Convert(list.users),
                       viewers |-> Convert(list.viewers)]
          /\ sfresh' = TRUE /\ squeued' = FALSE
          /\ UNCHANGED <<todo, current>>
  /\ UNCHANGED <<list, bindings, Others, counters>>

\* Requeued whether it works or not.
SetFinalizer(o) ==
  /\ spc = "finalizer"
  /\ Outcome(o)
  /\ list' = IF sfresh /\ o # "fail" THEN [list EXCEPT !.finalizer = TRUE]
             ELSE list
  /\ Retry
  /\ UNCHANGED <<bindings, Others>>

EnsureClusterRole(r, o) ==
  /\ spc = RoleStep[r]
  /\ Outcome(o)
  /\ IF o = "ok" THEN Goto(BindingStep[r]) ELSE Retry
  /\ UNCHANGED <<list, bindings, Others>>

AfterClusterBinding(r) == IF r = "user" THEN RoleStep["viewer"] ELSE "list"

\* Mutant: the error is not returned.
EnsureClusterBinding_NoRetry(r, o) ==
  /\ spc = BindingStep[r]
  /\ Outcome(o)
  /\ LET b == <<r, "cluster">>
     IN IF o = "fail" THEN UNCHANGED bindings ELSE Bind(b, SubjectsFor(scopy, b))
  /\ IF o = "ok" THEN Goto(AfterClusterBinding(r)) ELSE EndWith(squeued)
  /\ UNCHANGED <<list, Others>>

EnsureClusterBinding(r, o) ==
  /\ spc = BindingStep[r]
  /\ Outcome(o)
  /\ LET b == <<r, "cluster">>
     IN IF o = "fail" THEN UNCHANGED bindings ELSE Bind(b, SubjectsFor(scopy, b))
  /\ IF o = "ok" THEN Goto(AfterClusterBinding(r)) ELSE Retry
  /\ UNCHANGED <<list, Others>>

\* Bindings with the right name but outside of customer namespaces are left.
Listed(b) == b = <<"user", "ls-user">> \/ b \in InCustomerNamespace

ListRoleBindings ==
  /\ spc = "list"
  /\ \/ /\ spc' = "update"
        /\ todo' = {b \in bound : Listed(b)} /\ current' = todo'
        /\ UNCHANGED <<squeued, scopy, sfresh, counters>>
     \/ Retry /\ Outcome("fail")
  /\ UNCHANGED <<list, bindings, Others>>

\* A binding that changed or went since it was listed fails the whole run.
UpdateRoleBinding(b, o) ==
  /\ spc = "update" /\ b \in todo
  /\ Outcome(o)
  /\ IF b \in current /\ o # "fail" THEN Bind(b, SubjectsFor(scopy, b))
     ELSE UNCHANGED bindings
  /\ IF b \in current /\ o = "ok"
     THEN todo' = todo \ {b} /\ UNCHANGED <<squeued, spc, scopy, sfresh, current>>
     ELSE Retry
  /\ UNCHANGED <<list, Others>>

EndReconcile ==
  /\ spc = "update" /\ todo = {}
  /\ EndWith(squeued)
  /\ UNCHANGED <<list, bindings, Others, counters>>

-----------------------------------------------------------------------------
(***************************************************************************)
(* The NamespaceRegistration controller.                                   *)
(***************************************************************************)
RGoto(step) == rpc' = step /\ UNCHANGED <<rns, rcopy>>
REnd == rpc' = "idle" /\ rns' = "none" /\ rcopy' = NoSubjects

RUnchanged == UNCHANGED <<list, boot, squeued, spc, scopy, sfresh, todo, admins>>

ReconcileRegistration(n) ==
  /\ boot = "up" /\ rpc = "idle" /\ reg[n] \in {"creating", "deleting"}
  /\ rns' = n
  /\ rpc' = IF reg[n] = "creating" THEN "load" ELSE UnbindStep["user"]
  /\ UNCHANGED <<rcopy, reg, bindings, current, raced, counters>>
  /\ RUnchanged

\* The subjects of both bindings are read once.
LoadSubjects ==
  /\ rpc = "load"
  /\ \/ /\ list.state # "none"
        /\ rcopy' = [users |-> Convert(list.users),
                     viewers |-> Convert(list.viewers)]
        /\ rpc' = BindStep["user"] /\ raced' = raced \ {rns}
        /\ UNCHANGED <<rns, counters>>
     \/ list.state = "none" /\ REnd /\ UNCHANGED <<raced, counters>>
     \/ REnd /\ Outcome("fail") /\ UNCHANGED raced
  /\ UNCHANGED <<reg, bindings, current>>
  /\ RUnchanged

CreateRoleBinding(r, next, o) ==
  /\ rpc = BindStep[r]
  /\ Outcome(o)
  /\ LET b == <<r, rns>>
     IN IF o = "fail" THEN UNCHANGED <<bindings, current>>
        ELSE Bind(b, SubjectsFor(rcopy, b)) /\ current' = current \ {b}
  /\ IF o = "ok" THEN RGoto(next) ELSE REnd
  /\ UNCHANGED <<reg, raced>>
  /\ RUnchanged

\* A conflict if the registration was deleted in the meantime.
StoreCompleted(o) ==
  /\ rpc = "complete"
  /\ Outcome(o)
  /\ reg' = IF reg[rns] = "creating" /\ o # "fail"
            THEN [reg EXCEPT ![rns] = "completed"] ELSE reg
  /\ REnd
  /\ UNCHANGED <<bindings, current, raced>>
  /\ RUnchanged

DeleteRoleBinding(r, next, o) ==
  /\ rpc = UnbindStep[r]
  /\ Outcome(o)
  /\ LET b == <<r, rns>>
     IN IF o = "fail" THEN UNCHANGED <<bindings, current>>
        ELSE Unbind(b) /\ current' = current \ {b}
  /\ IF o = "ok" THEN RGoto(next) ELSE REnd
  /\ UNCHANGED <<reg, raced>>
  /\ RUnchanged

\* The namespace and the registration go.
DeleteNamespace ==
  /\ rpc = "delete"
  /\ reg' = [reg EXCEPT ![rns] = "none"]
  /\ REnd
  /\ UNCHANGED <<bindings, current, raced, counters>>
  /\ RUnchanged

-----------------------------------------------------------------------------
(***************************************************************************)
(* Users, operators and restarts.                                          *)
(***************************************************************************)

\* One entry is added or removed, and every write is an event.
WriteList ==
  /\ list.state # "none" /\ writes < MaxWrites /\ writes' = writes + 1
  /\ \E e \in Entries :
       \/ list' = [list EXCEPT !.users =
                     IF e \in @ THEN @ \ {e} ELSE @ \cup {e}]
       \/ list' = [list EXCEPT !.viewers =
                     IF e \in @ THEN @ \ {e} ELSE @ \cup {e}]
  /\ admins' = admins \cup Convert(list'.users)
  /\ raced' = IF rpc \in {BindStep[r] : r \in Roles} THEN {rns} ELSE {}
  /\ sfresh' = FALSE /\ squeued' = TRUE
  /\ UNCHANGED <<bindings, boot, spc, scopy, todo, current, reg, registrar,
                 regs, faults, meddle>>

\* Nobody but an operator may; the finalizer then keeps it for good.
DeleteList ==
  /\ list.state = "present" /\ meddle < MaxMeddle /\ meddle' = meddle + 1
  /\ list' = IF list.finalizer THEN [list EXCEPT !.state = "deleting"] ELSE NoList
  /\ sfresh' = FALSE /\ squeued' = TRUE
  /\ UNCHANGED <<bindings, boot, spc, scopy, todo, current, reg, registrar,
                 admins, raced, writes, regs, faults>>

DeleteBinding ==
  /\ meddle < MaxMeddle /\ meddle' = meddle + 1
  /\ \E b \in bound \cap {<<"user", "cluster">>, <<"user", "ls-user">>} :
       Unbind(b) /\ current' = current \ {b}
  /\ UNCHANGED <<list, boot, squeued, spc, scopy, sfresh, todo, reg, registrar,
                 admins, raced, writes, regs, faults>>

Register(n) ==
  /\ reg[n] = "none" /\ regs < MaxRegs /\ regs' = regs + 1
  /\ reg' = [reg EXCEPT ![n] = "creating"]
  /\ UNCHANGED <<list, bindings, boot, sync, registrar, admins, raced, writes,
                 faults, meddle>>

Deregister(n) ==
  /\ reg[n] \in {"creating", "completed"}
  /\ reg' = [reg EXCEPT ![n] = "deleting"]
  /\ UNCHANGED <<list, bindings, boot, sync, registrar, admins, raced, counters>>

Restart ==
  /\ faults < MaxFaults /\ faults' = faults + 1
  /\ boot' = "namespace" /\ EndWith(FALSE) /\ REnd /\ raced' = {}
  /\ UNCHANGED <<list, bindings, reg, admins, writes, regs, meddle>>

-----------------------------------------------------------------------------
Start ==
  \E o \in Outcomes :
    \/ CreateLsUserNamespace(o) \/ CreateLsUserRole(o)
    \/ CreateLsUserBinding(o) \/ CreateSubjectList(o)

Sync ==
  \/ Reconcile \/ ListRoleBindings \/ EndReconcile
  \/ \E o \in Outcomes :
       \/ SetFinalizer(o)
       \/ \E r \in Roles :
            EnsureClusterRole(r, o) \/ EnsureClusterBinding(r, o)
       \/ \E b \in Bindings : UpdateRoleBinding(b, o)

Registrar ==
  \/ \E n \in Namespaces : ReconcileRegistration(n)
  \/ LoadSubjects \/ DeleteNamespace
  \/ \E o \in Outcomes :
       \/ CreateRoleBinding("user", BindStep["viewer"], o)
       \/ CreateRoleBinding("viewer", "complete", o)
       \/ StoreCompleted(o)
       \/ DeleteRoleBinding("user", UnbindStep["viewer"], o)
       \/ DeleteRoleBinding("viewer", "delete", o)

Users ==
  \/ WriteList \/ DeleteList \/ DeleteBinding
  \/ \E n \in Namespaces : Register(n) \/ Deregister(n)

Next == Start \/ Sync \/ Registrar \/ Users \/ Restart

Spec == Init /\ [][Next]_vars

\* A process that ended is started again, each worker goes on while there is
\* something in its queue.
Fairness == WF_vars(Start) /\ WF_vars(Sync) /\ WF_vars(Registrar)

FairSpec == Spec /\ Fairness

-----------------------------------------------------------------------------
(***************************************************************************)
(* Properties.                                                             *)
(***************************************************************************)

\* Every variable holds a value of its kind.
TypeOK ==
  /\ list \in Lists
  /\ bound \subseteq Bindings /\ subjects \in [Bindings -> SUBSET Subjects]
  /\ boot \in BootSteps
  /\ squeued \in BOOLEAN /\ spc \in SyncSteps /\ sfresh \in BOOLEAN
  /\ scopy \in [users: SUBSET Subjects, viewers: SUBSET Subjects]
  /\ todo \subseteq Bindings /\ current \subseteq Bindings
  /\ reg \in [Namespaces -> {"none", "creating", "completed", "deleting"}]
  /\ rpc \in RegistrarSteps
  /\ rns \in Namespaces \cup {"none"}
  /\ rcopy \in [users: SUBSET Subjects, viewers: SUBSET Subjects]
  /\ admins \subseteq Subjects /\ raced \subseteq Namespaces
  /\ writes \in 0 .. MaxWrites /\ regs \in 0 .. MaxRegs
  /\ faults \in 0 .. MaxFaults /\ meddle \in 0 .. MaxMeddle

MayWrite(s) == UNION {Writes(b) : b \in {c \in bound : s \in subjects[c]}}
MayRead(s) == UNION {Reads(b) : b \in {c \in bound : s \in subjects[c]}}

\* Who was never listed as administrator can change nothing and sees neither
\* secrets nor the Landscaper's Targets and Contexts, whatever lists the two
\* controllers have mixed up, and nobody gets anything outside of the
\* namespaces the sidecar server is in charge of.
OnlyAdmins ==
  /\ \A s \in Subjects \ admins :
       MayWrite(s) = {} /\ MayRead(s) \cap {"secrets", "landscaper"} = {}
  /\ \A b \in Bindings : b[2] \in Foreign => subjects[b] = {}

Quiet == boot = "up" /\ ~squeued /\ spc = "idle" /\ rpc = "idle"
InSync(b) == subjects[b] = Wanted(b)
Managed == {b \in bound : b[2] \notin Foreign}

\* The documentation says that the SubjectList controller keeps the subjects
\* of the bindings in sync with the list.  The NamespaceRegistration
\* controller can bind subjects it read before the last change, and no event
\* follows.
BindingsInSync ==
  Quiet /\ list.state = "present" => \A b \in Managed : InSync(b)

\* Bindings that differ from the list do not stay so, whatever calls fail and
\* however registrations come and go, but for a namespace whose bindings were
\* being created when the list was last written; in particular no binding that
\* appeared or went during a run is forgotten, and every removed subject loses
\* its access.
BindingsFollow ==
  ~<>[](/\ list.state = "present"
        /\ \E b \in Managed : b[2] \notin raced /\ ~InSync(b))
=============================================================================
