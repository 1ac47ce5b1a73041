-------------------------- MODULE SubjectSyncProofs --------------------------
(***************************************************************************)
(* Proofs about the subjects of role bindings, for any customer namespaces *)
(* and list entries and all bounds.                                        *)
(*                                                                         *)
(* Three copies of the list of administrators are about: the list, what    *)
(* the SubjectSync controller has read, and what the NamespaceRegistration *)
(* controller has read.  Any of them may be outdated, but none ever holds  *)
(* somebody who was not listed, and only they are written to the bindings  *)
(* of the user role.                                                       *)
(***************************************************************************)
EXTENDS SubjectSync, TLAPS

-----------------------------------------------------------------------------
(***************************************************************************)
(* The inductive invariant.                                                *)
(***************************************************************************)

\* Every copy of the users of the list holds administrators only.
CopiesInv ==
  /\ Convert(list.users) \subseteq admins
  /\ scopy.users \subseteq admins
  /\ rcopy.users \subseteq admins

\* So does every binding of the user role; a binding of the same name in
\* somebody else's namespace is not touched.
BindingsInv ==
  /\ \A b \in Bindings : b[1] = "user" => subjects[b] \subseteq admins
  /\ \A b \in Bindings : b[2] \in Foreign => subjects[b] = {}

\* The workers are about bindings the process is in charge of.
PlacesInv ==
  /\ \A b \in todo : Listed(b)
  /\ rpc # "idle" => rns \in Namespaces

IndInv == TypeOK /\ CopiesInv /\ BindingsInv /\ PlacesInv

-----------------------------------------------------------------------------
(***************************************************************************)
(* Subjects and bindings.                                                  *)
(***************************************************************************)
SubjectCopies == [users: SUBSET Subjects, viewers: SUBSET Subjects]

LEMMA SubjectType ==
  ASSUME NEW e \in Entries, e.kind \in EntryKinds PROVE Subject(e) \in Subjects
<1>1. e \in [kind: STRING, name: STRING, namespace: STRING]
  BY EntriesAssumption
<1>2. [e EXCEPT !.namespace = ""] \in Subjects
  BY <1>1 DEF Subjects
<1>3. [e EXCEPT !.namespace = IF @ = "" THEN "ls-user" ELSE @] \in Subjects
  BY <1>1 DEF Subjects
<1> QED
  BY <1>2, <1>3 DEF Subject

LEMMA ConvertType ==
  ASSUME NEW es \in SUBSET Entries PROVE Convert(es) \subseteq Subjects
BY SubjectType DEF Convert

LEMMA CopyTypes ==
  ASSUME list \in Lists
  PROVE  /\ [users |-> Convert(list.users), viewers |-> Convert(list.viewers)]
              \in SubjectCopies
         /\ NoSubjects \in SubjectCopies
BY ConvertType DEF Lists, SubjectCopies, NoSubjects

LEMMA StepNames ==
  /\ RoleStep["user"] = "user role" /\ RoleStep["viewer"] = "viewer role"
  /\ BindingStep["user"] = "user binding" /\ BindingStep["viewer"] = "viewer binding"
  /\ BindStep["user"] = "bind user" /\ BindStep["viewer"] = "bind viewer"
  /\ UnbindStep["user"] = "unbind user" /\ UnbindStep["viewer"] = "unbind viewer"
BY DEF RoleStep, BindingStep, BindStep, UnbindStep

LEMMA StepSets ==
  /\ SyncSteps = {"idle", "finalizer", "list", "update", "user role", "viewer role",
                  "user binding", "viewer binding"}
  /\ RegistrarSteps = {"idle", "load", "complete", "delete", "bind user", "bind viewer",
                       "unbind user", "unbind viewer"}
BY StepNames DEF SyncSteps, RegistrarSteps, Roles

\* The bindings that are written.
LEMMA BindingNames ==
  /\ \A r \in Roles : <<r, "cluster">> \in Bindings /\ "cluster" \notin Foreign
  /\ \A r \in Roles, n \in Namespaces : <<r, n>> \in Bindings /\ n \notin Foreign
  /\ <<"user", "ls-user">> \in Bindings /\ "ls-user" \notin Foreign
BY PlacesAssumption DEF Bindings, Roles

LEMMA ListedPlace == ASSUME NEW b, Listed(b) PROVE b \in Bindings /\ b[2] \notin Foreign
<1>1. CASE b = <<"user", "ls-user">>
  BY <1>1, BindingNames
<1>2. CASE b \in InCustomerNamespace
  <2>1. PICK r \in Roles, n \in Namespaces : b = <<r, n>>
    BY <1>2 DEF InCustomerNamespace
  <2> QED
    BY <2>1, BindingNames
<1> QED
  BY <1>1, <1>2 DEF Listed

\* What a binding gets of a copy with administrators only.
LEMMA SubjectsForType ==
  ASSUME NEW c \in SubjectCopies, NEW b
  PROVE  SubjectsFor(c, b) \subseteq Subjects
BY DEF SubjectCopies, SubjectsFor

LEMMA SubjectsForUsers ==
  ASSUME NEW c, NEW b, c.users \subseteq admins, b[1] = "user"
  PROVE  SubjectsFor(c, b) \subseteq admins
BY DEF SubjectsFor

-----------------------------------------------------------------------------
(***************************************************************************)
(* A step is about the bindings, the copies, and the rest.                 *)
(***************************************************************************)
BindingsType == bound \subseteq Bindings /\ subjects \in [Bindings -> SUBSET Subjects]

\* The bindings stay as they are, or one of them is written or deleted.
LEMMA WrittenBindings ==
  ASSUME IndInv, NEW b \in Bindings, b[2] \notin Foreign, NEW s \in SUBSET Subjects,
         Bind(b, s), b[1] = "user" => s \subseteq admins, admins \subseteq admins'
  PROVE  BindingsType' /\ BindingsInv'
<1>1. subjects \in [Bindings -> SUBSET Subjects] /\ bound \subseteq Bindings
  BY DEF IndInv, TypeOK
<1>2. /\ subjects'[b] = s /\ \A c \in Bindings \ {b} : subjects'[c] = subjects[c]
      /\ BindingsType'
  BY <1>1 DEF Bind, BindingsType
<1> QED
  BY <1>2 DEF IndInv, BindingsInv

LEMMA DeletedBinding ==
  ASSUME IndInv, NEW b \in Bindings, Unbind(b), admins \subseteq admins'
  PROVE  BindingsType' /\ BindingsInv'
<1>1. subjects \in [Bindings -> SUBSET Subjects] /\ bound \subseteq Bindings
  BY DEF IndInv, TypeOK
<1>2. /\ subjects'[b] = {} /\ \A c \in Bindings \ {b} : subjects'[c] = subjects[c]
      /\ BindingsType'
  BY <1>1 DEF Unbind, BindingsType
<1> QED
  BY <1>2 DEF IndInv, BindingsInv

LEMMA KeptBindings ==
  ASSUME IndInv, UNCHANGED bindings, admins \subseteq admins'
  PROVE  BindingsType' /\ BindingsInv'
BY DEF IndInv, TypeOK, BindingsType, BindingsInv, bindings

\* Types and copies of the SubjectSync worker.
SyncType ==
  /\ squeued \in BOOLEAN /\ spc \in SyncSteps /\ sfresh \in BOOLEAN
  /\ scopy \in SubjectCopies /\ todo \subseteq Bindings /\ current \subseteq Bindings

SyncInv == scopy.users \subseteq admins /\ \A b \in todo : Listed(b)

\* Types and copies of the NamespaceRegistration worker.
RegistrarType ==
  /\ rpc \in RegistrarSteps /\ rns \in Namespaces \cup {"none"}
  /\ rcopy \in SubjectCopies

RegistrarInv == rcopy.users \subseteq admins /\ (rpc # "idle" => rns \in Namespaces)

\* The list and the counters.
RestType ==
  /\ list \in Lists /\ boot \in BootSteps
  /\ reg \in [Namespaces -> {"none", "creating", "completed", "deleting"}]
  /\ admins \subseteq Subjects /\ raced \subseteq Namespaces
  /\ writes \in 0 .. MaxWrites /\ regs \in 0 .. MaxRegs
  /\ faults \in 0 .. MaxFaults /\ meddle \in 0 .. MaxMeddle

ListInv == Convert(list.users) \subseteq admins

LEMMA Parts ==
  /\ IndInv <=> /\ BindingsType /\ BindingsInv /\ SyncType /\ SyncInv
                /\ RegistrarType /\ RegistrarInv /\ RestType /\ ListInv
  /\ IndInv' <=> /\ BindingsType' /\ BindingsInv' /\ SyncType' /\ SyncInv'
                 /\ RegistrarType' /\ RegistrarInv' /\ RestType' /\ ListInv'
<1>1. IndInv <=> /\ BindingsType /\ BindingsInv /\ SyncType /\ SyncInv
                 /\ RegistrarType /\ RegistrarInv /\ RestType /\ ListInv
  BY DEF IndInv, TypeOK, CopiesInv, PlacesInv, BindingsType, SyncType, SyncInv,
     RegistrarType, RegistrarInv, RestType, ListInv, SubjectCopies
<1>2. IndInv' <=> /\ BindingsType' /\ BindingsInv' /\ SyncType' /\ SyncInv'
                  /\ RegistrarType' /\ RegistrarInv' /\ RestType' /\ ListInv'
  BY DEF IndInv, TypeOK, CopiesInv, PlacesInv, BindingsType, SyncType, SyncInv,
     RegistrarType, RegistrarInv, RestType, ListInv, SubjectCopies
<1> QED
  BY <1>1, <1>2

LEMMA SyncFrame ==
  ASSUME IndInv, UNCHANGED <<spc, scopy, todo>>, squeued' \in BOOLEAN, sfresh' \in BOOLEAN,
         current' \subseteq current, admins \subseteq admins'
  PROVE  SyncType' /\ SyncInv'
<1>1. SyncType /\ SyncInv
  BY Parts
<1> QED
  BY <1>1 DEF SyncType, SyncInv, Listed

LEMMA EndWithType ==
  ASSUME NEW q \in BOOLEAN, EndWith(q) PROVE SyncType' /\ SyncInv'
<1>1. NoSubjects \in SubjectCopies /\ NoSubjects.users = {}
  BY DEF SubjectCopies, NoSubjects
<1> QED
  BY <1>1, StepSets DEF EndWith, SyncType, SyncInv

LEMMA RetryType == ASSUME Retry PROVE SyncType' /\ SyncInv'
BY EndWithType DEF Retry

LEMMA GotoType ==
  ASSUME IndInv, NEW s \in SyncSteps, Goto(s), admins' = admins
  PROVE  SyncType' /\ SyncInv'
<1>1. SyncType /\ SyncInv
  BY Parts
<1> QED
  BY <1>1 DEF Goto, SyncType, SyncInv, Listed

LEMMA RegistrarFrame ==
  ASSUME IndInv, UNCHANGED registrar, admins \subseteq admins'
  PROVE  RegistrarType' /\ RegistrarInv'
<1>1. RegistrarType /\ RegistrarInv
  BY Parts
<1> QED
  BY <1>1 DEF registrar, RegistrarType, RegistrarInv

LEMMA REndType == ASSUME REnd PROVE RegistrarType' /\ RegistrarInv'
<1>1. NoSubjects \in SubjectCopies /\ NoSubjects.users = {}
  BY DEF SubjectCopies, NoSubjects
<1> QED
  BY <1>1, StepSets DEF REnd, RegistrarType, RegistrarInv

LEMMA RGotoType ==
  ASSUME IndInv, NEW s \in RegistrarSteps, RGoto(s), rpc # "idle", admins' = admins
  PROVE  RegistrarType' /\ RegistrarInv'
<1>1. RegistrarType /\ RegistrarInv
  BY Parts
<1> QED
  BY <1>1 DEF RGoto, RegistrarType, RegistrarInv

LEMMA ListFrame ==
  ASSUME IndInv, UNCHANGED list, admins \subseteq admins' PROVE ListInv'
BY DEF IndInv, CopiesInv, ListInv

LEMMA OutcomeType ==
  ASSUME IndInv, NEW o \in Outcomes, Outcome(o)
  PROVE  /\ UNCHANGED <<writes, regs, meddle>> /\ faults' \in 0 .. MaxFaults
         /\ writes' \in 0 .. MaxWrites /\ regs' \in 0 .. MaxRegs /\ meddle' \in 0 .. MaxMeddle
<1>1. faults \in 0 .. MaxFaults /\ MaxFaults \in Nat
  BY BoundsAssumption DEF IndInv, TypeOK
<1>2. faults' \in 0 .. MaxFaults
  BY <1>1 DEF Outcome
<1> QED
  BY <1>2 DEF Outcome, IndInv, TypeOK

LEMMA FailOutcomeType ==
  ASSUME IndInv, Outcome("fail")
  PROVE  /\ UNCHANGED <<writes, regs, meddle>> /\ faults' \in 0 .. MaxFaults
         /\ writes' \in 0 .. MaxWrites /\ regs' \in 0 .. MaxRegs /\ meddle' \in 0 .. MaxMeddle
BY OutcomeType DEF Outcomes

LEMMA CountersType ==
  ASSUME IndInv, UNCHANGED counters
  PROVE  /\ writes' \in 0 .. MaxWrites /\ regs' \in 0 .. MaxRegs
         /\ faults' \in 0 .. MaxFaults /\ meddle' \in 0 .. MaxMeddle
BY DEF counters, IndInv, TypeOK

-----------------------------------------------------------------------------
(***************************************************************************)
(* The start of the process.                                               *)
(***************************************************************************)
LEMMA StartInv == ASSUME IndInv, Start PROVE IndInv'
<1>1. PICK o \in Outcomes : \/ CreateLsUserNamespace(o) \/ CreateLsUserRole(o)
                            \/ CreateLsUserBinding(o) \/ CreateSubjectList(o)
  BY DEF Start
<1>2. /\ Outcome(o) /\ UNCHANGED <<reg, rpc, rns, rcopy, admins, raced>>
      /\ boot' \in BootSteps
  BY <1>1 DEF CreateLsUserNamespace, CreateLsUserRole, CreateLsUserBinding,
     CreateSubjectList, Boot, registrar, BootSteps
<1>3. RegistrarType' /\ RegistrarInv'
  BY <1>2, RegistrarFrame DEF registrar
<1>4. list' \in Lists /\ ListInv'
  <2>1. CASE list' = list
    BY <1>2, <2>1, ListFrame DEF IndInv, TypeOK
  <2>2. CASE list' = [NoList EXCEPT !.state = "present"]
    BY <2>2 DEF NoList, Lists, ListInv, Convert
  <2> QED
    BY <1>1, <2>1, <2>2 DEF CreateLsUserNamespace, CreateLsUserRole, CreateLsUserBinding,
       CreateSubjectList
<1>5. RestType'
  BY <1>1, <1>2, <1>4, OutcomeType DEF IndInv, TypeOK, RestType
<1>6. BindingsType' /\ BindingsInv'
  <2>1. CASE UNCHANGED bindings
    BY <1>2, <2>1, KeptBindings
  <2>2. CASE Bind(<<"user", "ls-user">>, {})
    BY <1>2, <2>2, WrittenBindings, BindingNames
  <2> QED
    BY <1>1, <2>1, <2>2 DEF CreateLsUserNamespace, CreateLsUserRole, CreateLsUserBinding,
       CreateSubjectList
<1>7. SyncType' /\ SyncInv'
  <2>1. UNCHANGED <<spc, scopy, sfresh, todo, current>>
    BY <1>1 DEF CreateLsUserNamespace, CreateLsUserRole, CreateLsUserBinding,
       CreateSubjectList, sync
  <2>2. squeued' = squeued \/ squeued' = (o = "ok")
    BY <1>1 DEF CreateLsUserNamespace, CreateLsUserRole, CreateLsUserBinding,
       CreateSubjectList, sync
  <2>3. squeued' \in BOOLEAN /\ sfresh' \in BOOLEAN
    BY <2>1, <2>2 DEF IndInv, TypeOK
  <2> QED
    BY <1>2, <2>1, <2>3, SyncFrame
<1> QED
  BY <1>3, <1>4, <1>5, <1>6, <1>7, Parts

-----------------------------------------------------------------------------
(***************************************************************************)
(* The SubjectSync controller.                                             *)
(***************************************************************************)
LEMMA SyncStep ==
  ASSUME IndInv, UNCHANGED Others, list' \in Lists, list'.users = list.users,
         writes' \in 0 .. MaxWrites /\ regs' \in 0 .. MaxRegs
           /\ faults' \in 0 .. MaxFaults /\ meddle' \in 0 .. MaxMeddle,
         SyncType' /\ SyncInv', BindingsType' /\ BindingsInv'
  PROVE  IndInv'
<1>1. UNCHANGED <<boot, reg, registrar, admins, raced>>
  BY DEF Others
<1>2. RegistrarType' /\ RegistrarInv'
  BY <1>1, RegistrarFrame
<1>3. ListInv'
  BY <1>1 DEF IndInv, CopiesInv, ListInv
<1>4. RestType'
  BY <1>1 DEF IndInv, TypeOK, RestType
<1> QED
  BY <1>2, <1>3, <1>4, Parts

LEMMA SyncInvariant == ASSUME IndInv, Sync PROVE IndInv'
<1> DEFINE Counted == /\ writes' \in 0 .. MaxWrites /\ regs' \in 0 .. MaxRegs
                      /\ faults' \in 0 .. MaxFaults /\ meddle' \in 0 .. MaxMeddle
<1>1. list \in Lists /\ scopy \in SubjectCopies /\ squeued \in BOOLEAN
  BY DEF IndInv, TypeOK, SubjectCopies
<1>2. CASE Reconcile
  <2>1. UNCHANGED <<list, bindings, Others, counters>> /\ admins' = admins
    BY <1>2 DEF Reconcile, Others
  <2>2. SyncType' /\ SyncInv'
    <3>1. CASE EndWith(FALSE)
      BY <3>1, EndWithType
    <3>2. CASE ~EndWith(FALSE)
      <4>1. /\ spc' \in {RoleStep["user"], "finalizer"}
            /\ scopy' = [users |-> Convert(list.users), viewers |-> Convert(list.viewers)]
            /\ sfresh' = TRUE /\ squeued' = FALSE /\ UNCHANGED <<todo, current>>
        BY <1>2, <3>2 DEF Reconcile
      <4>2. spc' \in SyncSteps
        BY <4>1, StepNames, StepSets
      <4>3. scopy' \in SubjectCopies /\ scopy'.users = Convert(list.users)
        BY <1>1, <4>1, CopyTypes
      <4> QED
        BY <2>1, <4>1, <4>2, <4>3 DEF IndInv, TypeOK, CopiesInv, PlacesInv, SyncType, SyncInv,
           Listed
    <3> QED
      BY <3>1, <3>2
  <2>3. Counted /\ BindingsType' /\ BindingsInv'
    BY <2>1, CountersType, KeptBindings
  <2> QED
    BY <1>1, <2>1, <2>2, <2>3, SyncStep
<1>3. ASSUME NEW o \in Outcomes, SetFinalizer(o) PROVE IndInv'
  <2>1. UNCHANGED <<bindings, Others>> /\ admins' = admins /\ Retry /\ Outcome(o)
    BY <1>3 DEF SetFinalizer, Others
  <2>2. list' \in Lists /\ list'.users = list.users
    BY <1>1, <1>3 DEF SetFinalizer, Lists
  <2>3. Counted /\ BindingsType' /\ BindingsInv' /\ SyncType' /\ SyncInv'
    BY <2>1, OutcomeType, KeptBindings, RetryType
  <2> QED
    BY <2>1, <2>2, <2>3, SyncStep
<1>4. ASSUME NEW o \in Outcomes, NEW r \in Roles, EnsureClusterRole(r, o) PROVE IndInv'
  <2>1. UNCHANGED <<list, bindings, Others>> /\ admins' = admins /\ Outcome(o)
    BY <1>4 DEF EnsureClusterRole, Others
  <2>2. BindingStep[r] \in SyncSteps
    BY DEF SyncSteps
  <2>3. SyncType' /\ SyncInv'
    BY <1>4, <2>1, <2>2, GotoType, RetryType DEF EnsureClusterRole
  <2>4. Counted /\ BindingsType' /\ BindingsInv'
    BY <2>1, OutcomeType, KeptBindings
  <2> QED
    BY <1>1, <2>1, <2>3, <2>4, SyncStep
<1>5. ASSUME NEW o \in Outcomes, NEW r \in Roles, EnsureClusterBinding(r, o) PROVE IndInv'
  <2>1. UNCHANGED <<list, Others>> /\ admins' = admins /\ Outcome(o)
    BY <1>5 DEF EnsureClusterBinding, Others
  <2>2. AfterClusterBinding(r) \in SyncSteps
    BY StepNames, StepSets DEF AfterClusterBinding
  <2>3. SyncType' /\ SyncInv'
    BY <1>5, <2>1, <2>2, GotoType, RetryType DEF EnsureClusterBinding
  <2>4. BindingsType' /\ BindingsInv'
    <3> DEFINE b == <<r, "cluster">>
    <3>1. b \in Bindings /\ b[2] \notin Foreign
      BY BindingNames
    <3>2. SubjectsFor(scopy, b) \subseteq Subjects
      BY <1>1, SubjectsForType
    <3>3. b[1] = "user" => SubjectsFor(scopy, b) \subseteq admins
      BY SubjectsForUsers DEF IndInv, CopiesInv
    <3>4. UNCHANGED bindings \/ Bind(b, SubjectsFor(scopy, b))
      BY <1>5 DEF EnsureClusterBinding
    <3> HIDE DEF b
    <3> QED
      BY <2>1, <3>1, <3>2, <3>3, <3>4, KeptBindings, WrittenBindings
  <2>5. Counted
    BY <2>1, OutcomeType
  <2> QED
    BY <1>1, <2>1, <2>3, <2>4, <2>5, SyncStep
<1>6. CASE ListRoleBindings
  <2>1. UNCHANGED <<list, bindings, Others>> /\ admins' = admins
    BY <1>6 DEF ListRoleBindings, Others
  <2>2. CASE Retry /\ Outcome("fail")
    <3>1. Counted /\ BindingsType' /\ BindingsInv' /\ SyncType' /\ SyncInv'
      BY <2>1, <2>2, FailOutcomeType, KeptBindings, RetryType
    <3> QED
      BY <1>1, <2>1, <3>1, SyncStep
  <2>3. CASE /\ spc' = "update"
             /\ todo' = {b \in bound : Listed(b)} /\ current' = todo'
             /\ UNCHANGED <<squeued, scopy, sfresh, counters>>
    <3>1. SyncType' /\ SyncInv'
      BY <2>1, <2>3, ListedPlace, StepSets DEF IndInv, TypeOK, CopiesInv, SubjectCopies,
         SyncType, SyncInv, Listed
    <3>2. Counted /\ BindingsType' /\ BindingsInv'
      BY <2>1, <2>3, CountersType, KeptBindings
    <3> QED
      BY <1>1, <2>1, <3>1, <3>2, SyncStep
  <2> QED
    BY <1>6, <2>2, <2>3 DEF ListRoleBindings
<1>7. ASSUME NEW o \in Outcomes, NEW b \in Bindings, UpdateRoleBinding(b, o) PROVE IndInv'
  <2>1. UNCHANGED <<list, Others>> /\ admins' = admins /\ Outcome(o) /\ b \in todo
    BY <1>7 DEF UpdateRoleBinding, Others
  <2>2. b[2] \notin Foreign
    BY <2>1, ListedPlace DEF IndInv, PlacesInv
  <2>3. BindingsType' /\ BindingsInv'
    <3>1. SubjectsFor(scopy, b) \subseteq Subjects
      BY <1>1, SubjectsForType
    <3>2. b[1] = "user" => SubjectsFor(scopy, b) \subseteq admins
      BY SubjectsForUsers DEF IndInv, CopiesInv
    <3>3. UNCHANGED bindings \/ Bind(b, SubjectsFor(scopy, b))
      BY <1>7 DEF UpdateRoleBinding
    <3> QED
      BY <2>1, <2>2, <3>1, <3>2, <3>3, KeptBindings, WrittenBindings
  <2>4. SyncType' /\ SyncInv'
    <3>1. CASE Retry
      BY <3>1, RetryType
    <3>2. CASE todo' = todo \ {b} /\ UNCHANGED <<squeued, spc, scopy, sfresh, current>>
      BY <2>1, <3>2 DEF IndInv, TypeOK, CopiesInv, PlacesInv, SubjectCopies, SyncType,
         SyncInv, Listed
    <3> QED
      BY <1>7, <3>1, <3>2 DEF UpdateRoleBinding
  <2>5. Counted
    BY <2>1, OutcomeType
  <2> QED
    BY <1>1, <2>1, <2>3, <2>4, <2>5, SyncStep
<1>8. CASE EndReconcile
  <2>1. UNCHANGED <<list, bindings, Others, counters>> /\ admins' = admins /\ EndWith(squeued)
    BY <1>8 DEF EndReconcile, Others
  <2>2. Counted /\ BindingsType' /\ BindingsInv' /\ SyncType' /\ SyncInv'
    BY <1>1, <2>1, CountersType, KeptBindings, EndWithType
  <2> QED
    BY <1>1, <2>1, <2>2, SyncStep
<1> QED
  BY <1>2, <1>3, <1>4, <1>5, <1>6, <1>7, <1>8 DEF Sync

-----------------------------------------------------------------------------
(***************************************************************************)
(* The NamespaceRegistration controller.                                   *)
(***************************************************************************)
LEMMA RegistrarStep ==
  ASSUME IndInv, RUnchanged, current' \subseteq current,
         reg' \in [Namespaces -> {"none", "creating", "completed", "deleting"}],
         raced' \subseteq raced,
         writes' \in 0 .. MaxWrites /\ regs' \in 0 .. MaxRegs
           /\ faults' \in 0 .. MaxFaults /\ meddle' \in 0 .. MaxMeddle,
         RegistrarType' /\ RegistrarInv', BindingsType' /\ BindingsInv'
  PROVE  IndInv'
<1>1. UNCHANGED <<list, boot, squeued, spc, scopy, sfresh, todo, admins>>
  BY DEF RUnchanged
<1>2. SyncType' /\ SyncInv'
  <2>1. squeued' \in BOOLEAN /\ sfresh' \in BOOLEAN
    BY <1>1 DEF IndInv, TypeOK
  <2> QED
    BY <1>1, <2>1, SyncFrame
<1>3. ListInv'
  BY <1>1, ListFrame
<1>4. RestType'
  BY <1>1 DEF IndInv, TypeOK, RestType
<1> QED
  BY <1>2, <1>3, <1>4, Parts

LEMMA RoleBindingInv ==
  ASSUME IndInv, NEW o \in Outcomes, NEW r \in Roles, NEW s \in RegistrarSteps,
         CreateRoleBinding(r, s, o) \/ DeleteRoleBinding(r, s, o)
  PROVE  IndInv'
<1> DEFINE b == <<r, rns>>
<1>1. /\ Outcome(o) /\ RUnchanged /\ UNCHANGED <<reg, raced>> /\ admins' = admins
      /\ current' \in {current, current \ {b}}
      /\ RGoto(s) \/ REnd
  BY DEF CreateRoleBinding, DeleteRoleBinding, RUnchanged
<1>2. rpc # "idle"
  BY StepNames DEF CreateRoleBinding, DeleteRoleBinding, Roles
<1>3. b \in Bindings /\ b[2] \notin Foreign
  BY <1>2, BindingNames DEF IndInv, PlacesInv
<1>4. BindingsType' /\ BindingsInv'
  <2>1. rcopy \in SubjectCopies
    BY DEF IndInv, TypeOK, SubjectCopies
  <2>2. SubjectsFor(rcopy, b) \subseteq Subjects
    BY <2>1, SubjectsForType
  <2>3. b[1] = "user" => SubjectsFor(rcopy, b) \subseteq admins
    BY SubjectsForUsers DEF IndInv, CopiesInv
  <2>4. \/ UNCHANGED bindings
        \/ Bind(b, SubjectsFor(rcopy, b))
        \/ Unbind(b)
    BY DEF CreateRoleBinding, DeleteRoleBinding
  <2> HIDE DEF b
  <2> QED
    BY <1>1, <1>3, <2>2, <2>3, <2>4, KeptBindings, WrittenBindings, DeletedBinding
<1>5. RegistrarType' /\ RegistrarInv'
  BY <1>1, <1>2, RGotoType, REndType
<1>6. reg' \in [Namespaces -> {"none", "creating", "completed", "deleting"}]
  BY <1>1 DEF IndInv, TypeOK
<1> QED
  BY <1>1, <1>4, <1>5, <1>6, OutcomeType, RegistrarStep

LEMMA RegistrarInvariant == ASSUME IndInv, Registrar PROVE IndInv'
<1> DEFINE Regs == [Namespaces -> {"none", "creating", "completed", "deleting"}]
           Counted == /\ writes' \in 0 .. MaxWrites /\ regs' \in 0 .. MaxRegs
                      /\ faults' \in 0 .. MaxFaults /\ meddle' \in 0 .. MaxMeddle
<1>1. list \in Lists /\ reg \in Regs
  BY DEF IndInv, TypeOK
<1>2. ASSUME NEW n \in Namespaces, ReconcileRegistration(n) PROVE IndInv'
  <2>1. /\ UNCHANGED <<rcopy, reg, bindings, current, raced, counters>> /\ RUnchanged
        /\ admins' = admins /\ rns' = n /\ rpc' \in {"load", UnbindStep["user"]}
    BY <1>2 DEF ReconcileRegistration, RUnchanged
  <2>2. RegistrarType' /\ RegistrarInv'
    BY <2>1, StepNames, StepSets DEF IndInv, TypeOK, CopiesInv, SubjectCopies,
       RegistrarType, RegistrarInv
  <2>3. Counted /\ BindingsType' /\ BindingsInv'
    BY <2>1, CountersType, KeptBindings
  <2> QED
    BY <1>1, <2>1, <2>2, <2>3, RegistrarStep
<1>3. CASE LoadSubjects
  <2>1. UNCHANGED <<reg, bindings, current>> /\ RUnchanged /\ admins' = admins
    BY <1>3 DEF LoadSubjects, RUnchanged
  <2>2. Counted /\ raced' \subseteq raced
    BY <1>3, CountersType, FailOutcomeType DEF LoadSubjects
  <2>3. RegistrarType' /\ RegistrarInv'
    <3>1. CASE REnd
      BY <3>1, REndType
    <3>2. CASE ~REnd
      <4>1. /\ rcopy' = [users |-> Convert(list.users), viewers |-> Convert(list.viewers)]
            /\ rpc' = BindStep["user"] /\ rns' = rns
        BY <1>3, <3>2 DEF LoadSubjects
      <4>2. rcopy' \in SubjectCopies /\ rcopy'.users = Convert(list.users)
        BY <1>1, <4>1, CopyTypes
      <4>3. rpc' \in RegistrarSteps /\ rpc = "load"
        BY <1>3, <4>1, StepNames, StepSets DEF LoadSubjects
      <4> QED
        BY <2>1, <4>1, <4>2, <4>3 DEF IndInv, TypeOK, CopiesInv, PlacesInv, RegistrarType,
           RegistrarInv
    <3> QED
      BY <3>1, <3>2
  <2>4. BindingsType' /\ BindingsInv'
    BY <2>1, KeptBindings
  <2> QED
    BY <1>1, <2>1, <2>2, <2>3, <2>4, RegistrarStep
<1>4. CASE DeleteNamespace
  <2>1. UNCHANGED <<bindings, current, raced, counters>> /\ RUnchanged /\ admins' = admins
    BY <1>4 DEF DeleteNamespace, RUnchanged
  <2>2. reg' \in Regs
    BY <1>1, <1>4 DEF DeleteNamespace
  <2>3. Counted /\ BindingsType' /\ BindingsInv' /\ RegistrarType' /\ RegistrarInv'
    BY <1>4, <2>1, CountersType, KeptBindings, REndType DEF DeleteNamespace
  <2> QED
    BY <2>1, <2>2, <2>3, RegistrarStep
<1>5. ASSUME NEW o \in Outcomes, StoreCompleted(o) PROVE IndInv'
  <2>1. /\ UNCHANGED <<bindings, current, raced>> /\ RUnchanged /\ admins' = admins
        /\ Outcome(o)
    BY <1>5 DEF StoreCompleted, RUnchanged
  <2>2. reg' \in Regs
    BY <1>1, <1>5 DEF StoreCompleted
  <2>3. Counted /\ BindingsType' /\ BindingsInv' /\ RegistrarType' /\ RegistrarInv'
    BY <1>5, <2>1, OutcomeType, KeptBindings, REndType DEF StoreCompleted
  <2> QED
    BY <2>1, <2>2, <2>3, RegistrarStep
<1>6. ASSUME NEW o \in Outcomes,
             \/ CreateRoleBinding("user", BindStep["viewer"], o)
             \/ CreateRoleBinding("viewer", "complete", o)
             \/ DeleteRoleBinding("user", UnbindStep["viewer"], o)
             \/ DeleteRoleBinding("viewer", "delete", o)
      PROVE  IndInv'
  BY <1>6, RoleBindingInv, StepNames, StepSets DEF Roles
<1> QED
  BY <1>2, <1>3, <1>4, <1>5, <1>6 DEF Registrar

-----------------------------------------------------------------------------
(***************************************************************************)
(* Users, operators and restarts.                                          *)
(***************************************************************************)

\* A change of the list is in the history before anybody copies it.
LEMMA WriteListInv == ASSUME IndInv, WriteList PROVE IndInv'
<1>1. /\ UNCHANGED <<bindings, boot, spc, scopy, todo, current, reg, registrar, regs, faults,
                     meddle>>
      /\ admins' = admins \cup Convert(list'.users)
      /\ sfresh' = FALSE /\ squeued' = TRUE
      /\ raced' = (IF rpc \in {BindStep[r] : r \in Roles} THEN {rns} ELSE {})
      /\ writes < MaxWrites /\ writes' = writes + 1
  BY DEF WriteList
<1>2. list' \in Lists
  <2>1. list \in Lists
    BY DEF IndInv, TypeOK
  <2>2. PICK e \in Entries :
          \/ list' = [list EXCEPT !.users = IF e \in @ THEN @ \ {e} ELSE @ \cup {e}]
          \/ list' = [list EXCEPT !.viewers = IF e \in @ THEN @ \ {e} ELSE @ \cup {e}]
    BY DEF WriteList
  <2> QED
    BY <2>1, <2>2 DEF Lists
<1>3. admins \subseteq admins' /\ admins' \subseteq Subjects
  <2>1. list'.users \subseteq Entries
    BY <1>2 DEF Lists
  <2>2. Convert(list'.users) \subseteq Subjects
    BY <2>1, ConvertType
  <2> QED
    BY <1>1, <2>2 DEF IndInv, TypeOK
<1>4. BindingsType' /\ BindingsInv' /\ RegistrarType' /\ RegistrarInv'
  BY <1>1, <1>3, KeptBindings, RegistrarFrame
<1>5. SyncType' /\ SyncInv'
  BY <1>1, <1>3, SyncFrame
<1>6. ListInv'
  BY <1>1 DEF ListInv, Convert
<1>7. raced' \subseteq Namespaces
  BY <1>1, StepNames DEF Roles, IndInv, PlacesInv
<1>8. writes' \in 0 .. MaxWrites
  BY <1>1, BoundsAssumption DEF IndInv, TypeOK
<1>9. RestType'
  BY <1>1, <1>2, <1>3, <1>7, <1>8 DEF IndInv, TypeOK, RestType
<1> QED
  BY <1>4, <1>5, <1>6, <1>9, Parts

LEMMA DeleteListInv == ASSUME IndInv, DeleteList PROVE IndInv'
<1>1. /\ UNCHANGED <<bindings, boot, spc, scopy, todo, current, reg, registrar, admins, raced,
                     writes, regs, faults>>
      /\ sfresh' = FALSE /\ squeued' = TRUE
      /\ meddle < MaxMeddle /\ meddle' = meddle + 1
  BY DEF DeleteList
<1>2. list' \in Lists /\ list'.users \subseteq list.users
  BY DEF DeleteList, IndInv, TypeOK, Lists, NoList
<1>3. ListInv'
  BY <1>1, <1>2 DEF IndInv, CopiesInv, ListInv, Convert
<1>4. BindingsType' /\ BindingsInv' /\ RegistrarType' /\ RegistrarInv' /\ SyncType' /\ SyncInv'
  BY <1>1, KeptBindings, RegistrarFrame, SyncFrame
<1>5. meddle' \in 0 .. MaxMeddle
  BY <1>1, BoundsAssumption DEF IndInv, TypeOK
<1>6. RestType'
  BY <1>1, <1>2, <1>5 DEF IndInv, TypeOK, RestType
<1> QED
  BY <1>3, <1>4, <1>6, Parts

LEMMA DeleteBindingInv == ASSUME IndInv, DeleteBinding PROVE IndInv'
<1>1. /\ UNCHANGED <<list, boot, squeued, spc, scopy, sfresh, todo, reg, registrar, admins,
                     raced, writes, regs, faults>>
      /\ meddle < MaxMeddle /\ meddle' = meddle + 1
  BY DEF DeleteBinding
<1>2. PICK b \in bound : Unbind(b) /\ current' = current \ {b}
  BY DEF DeleteBinding
<1>3. BindingsType' /\ BindingsInv'
  BY <1>1, <1>2, DeletedBinding DEF IndInv, TypeOK
<1>4. squeued' \in BOOLEAN /\ sfresh' \in BOOLEAN /\ meddle' \in 0 .. MaxMeddle
  BY <1>1, BoundsAssumption DEF IndInv, TypeOK
<1>5. RegistrarType' /\ RegistrarInv' /\ SyncType' /\ SyncInv' /\ ListInv'
  BY <1>1, <1>2, <1>4, RegistrarFrame, SyncFrame, ListFrame
<1>6. RestType'
  BY <1>1, <1>4 DEF IndInv, TypeOK, RestType
<1> QED
  BY <1>3, <1>5, <1>6, Parts

LEMMA RegisterInv ==
  ASSUME IndInv, NEW n \in Namespaces, Register(n) \/ Deregister(n) PROVE IndInv'
<1>1. /\ UNCHANGED <<list, bindings, boot, squeued, spc, scopy, sfresh, todo, current,
                     registrar, admins, raced, writes, faults, meddle>>
      /\ regs' = regs \/ (regs < MaxRegs /\ regs' = regs + 1)
  BY DEF Register, Deregister, sync, counters
<1>2. reg' \in [Namespaces -> {"none", "creating", "completed", "deleting"}]
  BY DEF Register, Deregister, IndInv, TypeOK
<1>3. squeued' \in BOOLEAN /\ sfresh' \in BOOLEAN /\ regs' \in 0 .. MaxRegs
  BY <1>1, BoundsAssumption DEF IndInv, TypeOK
<1>4. /\ BindingsType' /\ BindingsInv' /\ RegistrarType' /\ RegistrarInv'
      /\ SyncType' /\ SyncInv' /\ ListInv'
  BY <1>1, <1>3, KeptBindings, RegistrarFrame, SyncFrame, ListFrame
<1>5. RestType'
  BY <1>1, <1>2, <1>3 DEF IndInv, TypeOK, RestType
<1> QED
  BY <1>4, <1>5, Parts

LEMMA RestartInv == ASSUME IndInv, Restart PROVE IndInv'
<1>1. /\ UNCHANGED <<list, bindings, reg, admins, writes, regs, meddle>>
      /\ boot' = "namespace" /\ EndWith(FALSE) /\ REnd /\ raced' = {}
      /\ faults < MaxFaults /\ faults' = faults + 1
  BY DEF Restart
<1>2. /\ BindingsType' /\ BindingsInv' /\ RegistrarType' /\ RegistrarInv'
      /\ SyncType' /\ SyncInv' /\ ListInv'
  BY <1>1, KeptBindings, REndType, EndWithType, ListFrame
<1>3. faults' \in 0 .. MaxFaults
  BY <1>1, BoundsAssumption DEF IndInv, TypeOK
<1>4. RestType'
  BY <1>1, <1>3 DEF IndInv, TypeOK, RestType, BootSteps
<1> QED
  BY <1>2, <1>4, Parts

-----------------------------------------------------------------------------
(***************************************************************************)
(* The theorems.                                                           *)
(***************************************************************************)
LEMMA Initially == Init => IndInv
<1> SUFFICES ASSUME Init PROVE IndInv
  OBVIOUS
<1>1. BindingsType /\ BindingsInv
  BY DEF Init, BindingsType, BindingsInv, Bindings, Roles
<1>2. NoSubjects \in SubjectCopies /\ NoSubjects.users = {}
  BY DEF SubjectCopies, NoSubjects
<1>3. SyncType /\ SyncInv /\ RegistrarType /\ RegistrarInv
  BY <1>2, StepSets DEF Init, SyncType, SyncInv, RegistrarType, RegistrarInv
<1>4. ListInv
  BY DEF Init, ListInv, NoList, Convert
<1>5. RestType
  BY BoundsAssumption DEF Init, RestType, NoList, Lists, BootSteps
<1> QED
  BY <1>1, <1>3, <1>4, <1>5, Parts

LEMMA Inductive == IndInv /\ [Next]_vars => IndInv'
<1> SUFFICES ASSUME IndInv, [Next]_vars PROVE IndInv'
  OBVIOUS
<1>1. CASE UNCHANGED vars
  <2>1. UNCHANGED <<list, bindings, boot, squeued, spc, scopy, sfresh, todo, current, reg,
                    registrar, admins, raced, counters>>
    BY <1>1 DEF vars, sync
  <2>2. squeued' \in BOOLEAN /\ sfresh' \in BOOLEAN
    BY <2>1 DEF IndInv, TypeOK
  <2>3. /\ BindingsType' /\ BindingsInv' /\ RegistrarType' /\ RegistrarInv'
        /\ SyncType' /\ SyncInv' /\ ListInv'
    BY <2>1, <2>2, KeptBindings, RegistrarFrame, SyncFrame, ListFrame
  <2>4. RestType'
    BY <2>1, CountersType DEF IndInv, TypeOK, RestType
  <2> QED
    BY <2>3, <2>4, Parts
<1> QED
  BY <1>1, StartInv, SyncInvariant, RegistrarInvariant, WriteListInv, DeleteListInv,
     DeleteBindingInv, RegisterInv, RestartInv DEF Next, Users

LEMMA Invariant == Spec => []IndInv
BY Initially, Inductive, PTL DEF Spec

\* Every variable holds a value of its kind.
THEOREM TypeCorrect == Spec => []TypeOK
BY Invariant, PTL DEF IndInv

\* Whatever the controllers read and when, only somebody who has been listed as
\* administrator can write anything or read secrets, Targets and Contexts, and
\* bindings in other namespaces are not touched.
THEOREM AccessForAdminsOnly == Spec => []OnlyAdmins
<1>1. IndInv => OnlyAdmins
  <2> SUFFICES ASSUME IndInv PROVE OnlyAdmins
    OBVIOUS
  <2>1. ASSUME NEW s \in Subjects \ admins, NEW b \in bound, s \in subjects[b]
        PROVE  Writes(b) = {} /\ Reads(b) \cap {"secrets", "landscaper"} = {}
    <3>1. b \in Bindings /\ b[1] # "user"
      BY <2>1 DEF IndInv, TypeOK, BindingsInv
    <3>2. b[1] = "viewer"
      BY <3>1 DEF Bindings, Roles
    <3>3. Writes(b) = {}
      <4>1. b[2] # "ls-user"
        BY <3>1, <3>2, PlacesAssumption DEF Bindings
      <4> QED
        BY <3>2, <4>1 DEF Writes
    <3>4. Reads(b) \subseteq {"namespaces", "crds", "configmaps"} \cup Work
      BY <3>2 DEF Reads
    <3> QED
      BY <3>3, <3>4 DEF Work
  <2>2. ASSUME NEW s \in Subjects \ admins
        PROVE  MayWrite(s) = {} /\ MayRead(s) \cap {"secrets", "landscaper"} = {}
    BY <2>1 DEF MayWrite, MayRead
  <2> QED
    BY <2>2 DEF OnlyAdmins, IndInv, BindingsInv
<1> QED
  BY <1>1, Invariant, PTL
=============================================================================
