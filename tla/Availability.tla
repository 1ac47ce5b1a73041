---------------------------- MODULE Availability ----------------------------
(***************************************************************************)
(* Availability monitoring: three controllers on one AvailabilityCollection.*)
(* AVMonitorRegistration lists the Instances to watch in its spec,         *)
(* HealthWatcher collects their health into its status, AVUploader sends   *)
(* the failed ones to the AV service.                                      *)
(*                                                                         *)
(* Each controller has one worker.  An action is one API call, or several  *)
(* reads with nothing in between that the others could tell apart.  Time   *)
(* is counted in the unit that timestamps are stored in, which is seconds: *)
(* several things can happen in one.                                       *)
(*                                                                         *)
(* Left out: reasons and texts; the ServiceTargetConfig, its secret and the *)
(* Installation's import of the target namespace, which can only fail.     *)
(***************************************************************************)
EXTENDS Integers, FiniteSets

CONSTANTS
  Instances,  \* names of Instances
  Self,       \* the Landscaper on the core cluster
  NoOne,      \* no Instance
  Interval,   \* time between two runs of the HealthWatcher
  Timeout,    \* time a Landscaper may have failed before it counts as failed
  MaxTime,    \* bound: time
  MaxChanges, \* bound: steps of Instances and Installations, repeated health
              \* reports, and changes of the health, which count as two
  MaxReports, \* bound: the same, up to which Landscapers report and change
  MaxFaults   \* bound: failed calls and restarts of the process

Watched == Instances \cup {Self}

ASSUME NamesAssumption ==
  Self \notin Instances /\ NoOne \notin Instances /\ NoOne # Self
ASSUME TimesAssumption ==
  /\ Interval \in Nat \ {0} /\ Timeout \in Nat \ {0} /\ MaxTime \in Nat \ {0}
ASSUME BoundsAssumption ==
  MaxChanges \in Nat /\ MaxReports \in 0 .. MaxChanges /\ MaxFaults \in Nat

VARIABLES
  clock,
  inst,      \* the Instances and their Installations
  check,     \* the health checks on the target clusters
  coll,      \* the AvailabilityCollection
  rqueued,   \* some Instance is in the queue of AVMonitorRegistration
  rpc,       \* its worker's next step
  rtodo,     \* the Instances it has listed and not yet looked at
  rrefs,     \* those it has found to be watched
  hqueued,   \* the collection is in the queue of HealthWatcher
  hpc, hcur, \* its worker's next step and the Instance it is at
  htodo,     \* the Instances it has not yet come to
  hold,      \* the status it has read
  hnew,      \* the status it is collecting
  hfresh,    \* its copy of the collection has the stored resource version
  hstart,    \* when the run started
  uqueued,   \* the collection is in the queue of AVUploader
  upc, ucopy, ufresh,  \* its worker
  service,   \* history: what the AV service has received
  noticed,   \* history: when a run first stored that a Landscaper fails
  skipped,   \* history: Instances a failed call kept from being registered
  again,     \* history: the last two runs have the same timestamp
  changes, faults  \* what the bounds count

registration == <<rqueued, rpc, rtodo, rrefs>>
watcher == <<hqueued, hpc, hcur, htodo, hold, hnew, hfresh, hstart>>
uploader == <<uqueued, upc, ucopy, ufresh>>
history == <<service, noticed, skipped, again>>
counters == <<changes, faults>>
world == <<clock, inst, check>>
vars == <<world, coll, registration, watcher, uploader, history, counters>>

-----------------------------------------------------------------------------
(***************************************************************************)
(* Data.                                                                   *)
(***************************************************************************)
Never == 0
Times == Never .. MaxTime

\* installation is what the Instance's status refers to.
InstanceStates ==
  [state: {"none", "present", "deleting"},
   installation: {"noRef", "absent", "progressing", "final"}]

NoInstance == [state |-> "none", installation |-> "noRef"]
Established == [state |-> "present", installation |-> "final"]

\* found is the result of listing the health checks in the namespace.
Checks == [found: {"one", "many", "noKind"}, status: {"Ok", "Failed"},
           updated: Times]

\* The status of an Instance in the collection; "none" if it has no entry.
Entries == [status: {"none", "Ok", "Failed"}, since: Times]
NoEntry == [status |-> "none", since |-> Never]
NoEntries == [w \in Watched |-> NoEntry]

Failures(entries) == {w \in Watched : entries[w].status = "Failed"}

\* observed: status.observedGeneration is the generation of the spec.
Collections ==
  [exists: BOOLEAN, refs: SUBSET Instances, observed: BOOLEAN,
   lastRun: Times, lastReported: Times, entries: [Watched -> Entries]]

NoUpload == [time |-> Never, failed |-> {}]

SomeInstance == \E i \in Instances : inst[i].state # "none"

\* The process starts for the first time, with or without Instances there.
Init ==
  /\ clock = 1
  /\ inst \in [Instances -> {NoInstance, Established}]
  /\ check = [w \in Watched |->
                [found |-> "one", status |-> "Ok", updated |-> 1]]
  /\ coll = [exists |-> FALSE, refs |-> {}, observed |-> FALSE,
             lastRun |-> Never, lastReported |-> Never, entries |-> NoEntries]
  /\ rqueued = SomeInstance /\ rpc = "idle" /\ rtodo = {} /\ rrefs = {}
  /\ hqueued = FALSE /\ hpc = "idle" /\ hcur = NoOne /\ htodo = {}
  /\ hold = NoEntries /\ hnew = NoEntries /\ hfresh = FALSE /\ hstart = Never
  /\ uqueued = FALSE /\ upc = "idle" /\ ucopy = NoUpload /\ ufresh = FALSE
  /\ service = [sent |-> {}, last |-> NoUpload]
  /\ noticed = [w \in Watched |-> Never]
  /\ skipped = {} /\ again = FALSE
  /\ changes = 0 /\ faults = 0

Outcomes == {"ok", "fail", "lost"}

\* A call succeeds, fails without effect, or takes effect without an answer.
Outcome(o) ==
  /\ IF o = "ok" THEN UNCHANGED faults
     ELSE faults < MaxFaults /\ faults' = faults + 1
  /\ UNCHANGED changes

-----------------------------------------------------------------------------
(***************************************************************************)
(* AVMonitorRegistration.                                                  *)
(***************************************************************************)
ROthers == UNCHANGED <<world, watcher, uploader, service, noticed, again>>

RIdle == rpc' = "idle" /\ rtodo' = {} /\ rrefs' = {}

ListInstances ==
  /\ rpc = "idle" /\ rqueued
  /\ rqueued' = FALSE
  /\ rtodo' = {i \in Instances : inst[i].state = "present"
                                 /\ inst[i].installation # "noRef"}
  /\ rpc' = "installations"
  /\ UNCHANGED <<rrefs, coll, skipped, counters>>
  /\ ROthers

\* An Installation that cannot be loaded, for whatever reason, keeps its
\* Instance from being watched.
CheckInstallation(i) ==
  /\ rpc = "installations" /\ i \in rtodo
  /\ rtodo' = rtodo \ {i}
  /\ \/ /\ rrefs' = IF inst[i].installation = "final" THEN rrefs \cup {i}
                    ELSE rrefs
        /\ skipped' = skipped \ {i} /\ UNCHANGED counters
     \/ Outcome("fail") /\ skipped' = skipped \cup {i} /\ UNCHANGED rrefs
  /\ UNCHANGED <<rqueued, rpc, coll>>
  /\ ROthers

\* Mutant: the error is not returned.
StoreRefs_NoRetry(o) ==
  /\ rpc = "installations" /\ rtodo = {}
  /\ Outcome(o)
  /\ coll' = IF o = "fail" \/ (coll.exists /\ coll.refs = rrefs) THEN coll
             ELSE [coll EXCEPT !.exists = TRUE, !.refs = rrefs, !.observed = FALSE]
  /\ IF coll' = coll THEN UNCHANGED <<hqueued, hfresh, uqueued, ufresh>>
     ELSE hqueued' = TRUE /\ hfresh' = FALSE /\ uqueued' = TRUE /\ ufresh' = FALSE
  /\ RIdle /\ UNCHANGED rqueued
  /\ UNCHANGED <<world, hpc, hcur, htodo, hold, hnew, hstart, upc, ucopy, history>>

\* The spec is created or updated if it differs, which is an event for the
\* other two controllers and outdates their copies.
StoreRefs(o) ==
  /\ rpc = "installations" /\ rtodo = {}
  /\ Outcome(o)
  /\ coll' = IF o = "fail" \/ (coll.exists /\ coll.refs = rrefs) THEN coll
             ELSE [coll EXCEPT !.exists = TRUE, !.refs = rrefs, !.observed = FALSE]
  /\ IF coll' = coll THEN UNCHANGED <<hqueued, hfresh, uqueued, ufresh>>
     ELSE hqueued' = TRUE /\ hfresh' = FALSE /\ uqueued' = TRUE /\ ufresh' = FALSE
  /\ RIdle /\ rqueued' = (rqueued \/ o # "ok")
  /\ UNCHANGED <<world, hpc, hcur, htodo, hold, hnew, hstart, upc, ucopy, history>>

-----------------------------------------------------------------------------
(***************************************************************************)
(* HealthWatcher.                                                          *)
(***************************************************************************)
HOthers == UNCHANGED <<world, registration, skipped>>

Due == ~coll.observed \/ clock - coll.lastRun >= Interval

HIdle ==
  /\ hpc' = "idle" /\ hcur' = NoOne /\ htodo' = {}
  /\ hold' = NoEntries /\ hnew' = NoEntries /\ hfresh' = FALSE /\ hstart' = Never

\* If no run is due the collection is requeued at once, until one is.
StartRun ==
  /\ hpc = "idle" /\ hqueued /\ coll.exists /\ Due
  /\ hqueued' = FALSE
  /\ hpc' = "instances" /\ htodo' = coll.refs /\ hold' = coll.entries
  /\ hfresh' = TRUE /\ hstart' = clock
  /\ UNCHANGED <<hcur, hnew, coll, uploader, service, noticed, again, counters>>
  /\ HOthers

\* Mutant: the last status is not looked up.
OldSince_Forgotten(w) == Never

\* The time since when w fails is taken over from the last status.
OldSince(w) == hold[w].since

\* SetStatusAndFailedSince, when the health of w is found failing or not.
Entry(w, status, failing) ==
  [status |-> status,
   since |-> IF ~failing THEN Never
             ELSE IF OldSince(w) = Never THEN clock ELSE OldSince(w)]

Record(w, status, failing) ==
  hnew' = [hnew EXCEPT ![w] = Entry(w, status, failing)]

HUnchanged == /\ UNCHANGED <<coll, uploader, service, noticed, again>>
              /\ UNCHANGED <<hqueued, hold, hfresh, hstart>>

AbortRun ==
  /\ HIdle /\ hqueued' = TRUE
  /\ UNCHANGED <<coll, uploader, service, noticed, again>>

\* The Instance cannot be loaded: the whole run fails.
InstanceMissing(i) ==
  /\ hpc = "instances" /\ i \in htodo
  /\ \/ inst[i].state = "none" /\ UNCHANGED counters
     \/ inst[i].state # "none" /\ Outcome("fail")
  /\ AbortRun
  /\ HOthers

\* The Instance gets no entry while its Installation is missing or not final.
SkipInstance(i) ==
  /\ hpc = "instances" /\ i \in htodo /\ inst[i].state # "none"
  /\ inst[i].installation # "final"
  /\ htodo' = htodo \ {i}
  /\ UNCHANGED <<hpc, hcur, hnew, counters>>
  /\ HUnchanged /\ HOthers

InstallationUnreadable(i) ==
  /\ hpc = "instances" /\ i \in htodo /\ inst[i].state # "none"
  /\ inst[i].installation # "noRef"
  /\ Outcome("fail")
  /\ Record(i, "Failed", TRUE)
  /\ htodo' = htodo \ {i}
  /\ UNCHANGED <<hpc, hcur>>
  /\ HUnchanged /\ HOthers

InstanceFound(i) ==
  /\ hpc = "instances" /\ i \in htodo /\ inst[i].state # "none"
  /\ inst[i].installation = "final"
  /\ hpc' = "health" /\ hcur' = i /\ htodo' = htodo \ {i}
  /\ UNCHANGED <<hnew, counters>>
  /\ HUnchanged /\ HOthers

\* The health check of w counts as failed if it is old, or is failed and has
\* been for longer than the timeout, whoever reports it.
Transfer(w) ==
  LET c == check[w] IN
  CASE c.found # "one" -> Record(w, "Failed", TRUE)
    [] c.found = "one" /\ clock - c.updated > Timeout -> Record(w, "Failed", TRUE)
    [] c.found = "one" /\ clock - c.updated <= Timeout /\ c.status = "Ok" ->
         Record(w, "Ok", FALSE)
    [] OTHER ->
         IF OldSince(w) # Never /\ clock - OldSince(w) > Timeout
         THEN Record(w, "Failed", TRUE) ELSE Record(w, "Ok", TRUE)

\* If the cluster does not know health checks, the Instance gets no entry,
\* although the status Failed has been prepared.
CollectHealth ==
  /\ hpc = "health"
  /\ \/ /\ check[hcur].found = "noKind" /\ UNCHANGED <<hnew, counters>>
     \/ /\ check[hcur].found # "noKind" /\ Transfer(hcur) /\ UNCHANGED counters
     \/ /\ Outcome("fail") /\ Record(hcur, "Failed", TRUE)
  /\ hpc' = "instances" /\ hcur' = NoOne
  /\ UNCHANGED htodo
  /\ HUnchanged /\ HOthers

CollectSelf ==
  /\ hpc = "instances" /\ htodo = {}
  /\ \/ Transfer(Self) /\ UNCHANGED counters
     \/ Outcome("fail") /\ Record(Self, "Failed", TRUE)
  /\ hpc' = "store"
  /\ UNCHANGED <<hcur, htodo>>
  /\ HUnchanged /\ HOthers

LastRun == clock

\* The status is stored unless the collection has changed; that is an event.
StoreStatus(o) ==
  /\ hpc = "store"
  /\ Outcome(o)
  /\ IF hfresh /\ o # "fail"
     THEN /\ coll' = [coll EXCEPT !.entries = hnew, !.observed = TRUE,
                                  !.lastRun = LastRun]
          /\ uqueued' = TRUE /\ ufresh' = FALSE
          /\ again' = (coll.lastRun = clock)
          /\ noticed' = [w \in Watched |->
               IF hnew[w].since = Never \/ check[w].status = "Ok" THEN Never
               ELSE IF noticed[w] # Never THEN noticed[w] ELSE clock]
     ELSE UNCHANGED <<coll, uqueued, ufresh, again, noticed>>
  /\ HIdle /\ hqueued' = TRUE
  /\ UNCHANGED <<upc, ucopy, service>>
  /\ HOthers

-----------------------------------------------------------------------------
(***************************************************************************)
(* AVUploader.                                                             *)
(***************************************************************************)
UOthers == UNCHANGED <<world, registration, noticed, skipped, again>>

UEnd(retry) ==
  /\ upc' = "idle" /\ ucopy' = NoUpload /\ ufresh' = FALSE
  /\ uqueued' = retry

\* Nothing is uploaded before the status belongs to the spec, or twice.
StartUpload ==
  /\ upc = "idle" /\ uqueued /\ coll.exists
  /\ uqueued' = FALSE
  /\ IF ~coll.observed \/ coll.lastRun = coll.lastReported
     THEN UNCHANGED <<upc, ucopy, ufresh>>
     ELSE /\ upc' = "upload" /\ ufresh' = TRUE
          /\ ucopy' = [time |-> coll.lastRun, failed |-> Failures(coll.entries)]
  /\ UNCHANGED <<coll, watcher, service, counters>>
  /\ UOthers

Receive(o) ==
  service' = IF o = "fail" THEN service
             ELSE [sent |-> service.sent \cup {ucopy.time}, last |-> ucopy]

\* Mutant: an error of the request is only logged.
Upload_LogOnly(o) ==
  /\ upc = "upload"
  /\ Outcome(o)
  /\ Receive(o)
  /\ upc' = "store" /\ UNCHANGED <<uqueued, ucopy, ufresh>>
  /\ UNCHANGED <<coll, watcher>>
  /\ UOthers

\* Mutant: it ends the reconcile for good.
Upload_GivesUp(o) ==
  /\ upc = "upload"
  /\ Outcome(o)
  /\ Receive(o)
  /\ IF o = "ok" THEN upc' = "store" /\ UNCHANGED <<uqueued, ucopy, ufresh>>
     ELSE UEnd(uqueued)
  /\ UNCHANGED <<coll, watcher>>
  /\ UOthers

Upload(o) ==
  /\ upc = "upload"
  /\ Outcome(o)
  /\ Receive(o)
  /\ IF o = "ok" THEN upc' = "store" /\ UNCHANGED <<uqueued, ucopy, ufresh>>
     ELSE UEnd(TRUE)
  /\ UNCHANGED <<coll, watcher>>
  /\ UOthers

\* What was uploaded is noted, unless the collection has changed.
StoreReported(o) ==
  /\ upc = "store"
  /\ Outcome(o)
  /\ IF ufresh /\ o # "fail"
     THEN /\ coll' = [coll EXCEPT !.lastReported = ucopy.time]
          /\ hqueued' = TRUE /\ hfresh' = FALSE
          /\ UEnd(TRUE)
     ELSE UNCHANGED <<coll, hqueued, hfresh>> /\ UEnd(TRUE)
  /\ UNCHANGED <<hpc, hcur, htodo, hold, hnew, hstart, service>>
  /\ UOthers

-----------------------------------------------------------------------------
(***************************************************************************)
(* Time, Instances, Landscapers and restarts.                              *)
(***************************************************************************)
Tick ==
  /\ clock < MaxTime /\ clock' = clock + 1
  /\ UNCHANGED <<inst, check, coll, registration, watcher, uploader, history,
                 counters>>

\* The Instance controller copies the phase of the Installation, so that each
\* of these steps ends with an event of the Instance.
InstanceChanges(i) ==
  /\ changes < MaxChanges /\ changes' = changes + 1
  /\ LET s == inst[i] IN
     inst' \in {[inst EXCEPT ![i] = t] : t \in
       (IF s.state = "none" THEN {[NoInstance EXCEPT !.state = "present"]} ELSE {})
       \cup (IF s.state = "present" THEN {[s EXCEPT !.state = "deleting"]} ELSE {})
       \cup (IF s.state = "deleting" THEN {NoInstance} ELSE {})
       \cup (CASE s.state # "none" /\ s.installation = "noRef" ->
                    {[s EXCEPT !.installation = "progressing"]}
               [] s.installation = "progressing" ->
                    {[s EXCEPT !.installation = "final"]}
               [] s.installation = "final" ->
                    {[s EXCEPT !.installation = "progressing"],
                     [s EXCEPT !.installation = "absent"]}
               [] OTHER -> {})}
  /\ rqueued' = TRUE
  /\ UNCHANGED <<clock, check, coll, rpc, rtodo, rrefs, watcher, uploader,
                 history, faults>>

\* A Landscaper that works reports its health, good or bad.
ReportHealth(w) ==
  /\ \E s \in {"Ok", "Failed"} :
       /\ changes' = changes + (IF s = check[w].status THEN 1 ELSE 2)
       /\ changes' <= MaxReports
       /\ check' = [check EXCEPT ![w].status = s, ![w].updated = clock]
       /\ noticed' = [noticed EXCEPT ![w] = IF s = "Ok" THEN Never ELSE @]
  /\ check' # check
  /\ UNCHANGED <<clock, inst, coll, registration, watcher, uploader, service,
                 skipped, again, faults>>

ChangeCluster(w) ==
  /\ changes + 2 <= MaxReports /\ changes' = changes + 2
  /\ \E f \in {"one", "many", "noKind"} \ {check[w].found} :
       check' = [check EXCEPT ![w].found = f]
  /\ UNCHANGED <<clock, inst, coll, registration, watcher, uploader, history,
                 faults>>

\* All controllers start again and queue what exists, and only that: what was
\* in the queues is lost.
Restart ==
  /\ faults < MaxFaults /\ faults' = faults + 1
  /\ RIdle /\ HIdle /\ UEnd(coll.exists)
  /\ rqueued' = SomeInstance
  /\ hqueued' = coll.exists
  /\ UNCHANGED <<world, coll, history, changes>>

-----------------------------------------------------------------------------
Registration ==
  \/ ListInstances
  \/ \E i \in Instances : CheckInstallation(i)
  \/ \E o \in Outcomes : StoreRefs(o)

Watcher ==
  \/ StartRun \/ CollectHealth \/ CollectSelf
  \/ \E i \in Instances :
       \/ InstanceMissing(i) \/ SkipInstance(i)
       \/ InstallationUnreadable(i) \/ InstanceFound(i)
  \/ \E o \in Outcomes : StoreStatus(o)

Uploader ==
  \/ StartUpload
  \/ \E o \in Outcomes : Upload(o) \/ StoreReported(o)

World ==
  \/ Tick \/ Restart
  \/ \E i \in Instances : InstanceChanges(i)
  \/ \E w \in Watched : ReportHealth(w) \/ ChangeCluster(w)

Next == Registration \/ Watcher \/ Uploader \/ World

Spec == Init /\ [][Next]_vars

\* Each worker goes on while something is in its queue, and time passes.
Fairness ==
  WF_vars(Registration) /\ WF_vars(Watcher) /\ WF_vars(Uploader) /\ WF_vars(Tick)

FairSpec == Spec /\ Fairness

-----------------------------------------------------------------------------
(***************************************************************************)
(* Properties.                                                             *)
(***************************************************************************)
Past == Never .. clock

\* Every variable holds a value of its kind, and no stored time is in the
\* future.
TypeOK ==
  /\ clock \in 1 .. MaxTime
  /\ inst \in [Instances -> InstanceStates]
  /\ check \in [Watched -> Checks]
  /\ coll \in Collections
  /\ coll.lastRun \in Past /\ coll.lastReported \in Past
  /\ \A w \in Watched : coll.entries[w].since \in Past
  /\ rqueued \in BOOLEAN /\ rpc \in {"idle", "installations"}
  /\ rtodo \subseteq Instances /\ rrefs \subseteq Instances
  /\ hqueued \in BOOLEAN /\ hpc \in {"idle", "instances", "health", "store"}
  /\ hcur \in Instances \cup {NoOne} /\ htodo \subseteq Instances
  /\ hold \in [Watched -> Entries] /\ hnew \in [Watched -> Entries]
  /\ hfresh \in BOOLEAN /\ hstart \in Past
  /\ uqueued \in BOOLEAN /\ upc \in {"idle", "upload", "store"}
  /\ ufresh \in BOOLEAN
  /\ ucopy \in [time: Times, failed: SUBSET Watched]
  /\ service.sent \subseteq Times
  /\ service.last \in [time: Times, failed: SUBSET Watched]
  /\ noticed \in [Watched -> Times] /\ skipped \subseteq Instances
  /\ again \in BOOLEAN
  /\ changes \in 0 .. MaxChanges /\ faults \in 0 .. MaxFaults

\* A run that starts more than the timeout after a run that stored the
\* failure of a Landscaper stores it as failed, if every run in between found
\* it failing too: neither runs, nor failures of them, nor restarts, nor the
\* uploader's writes make the failure look younger than it is.
FailureSurfaces ==
  [][\A w \in Watched :
       /\ coll'.entries # coll.entries /\ hpc = "store"
       /\ noticed[w] # Never /\ noticed'[w] # Never
       /\ hstart - noticed[w] > Timeout
       => coll'.entries[w].status = "Failed"]_vars

\* lastReported names a run that has been uploaded: nothing is taken for
\* reported because the request was attempted.
ReportedWasUploaded ==
  coll.lastReported # Never => coll.lastReported \in service.sent

\* When the uploader is at rest and the status belongs to the spec, the AV
\* service has the failures of that status; unless two runs were stored in
\* the same second, of which the second is taken for reported.
UploadIsCurrent ==
  upc = "idle" /\ ~uqueued /\ coll.observed /\ ~again =>
    service.last = [time |-> coll.lastRun, failed |-> Failures(coll.entries)]

\* The same without the exception.  The documentation says that the uploader
\* uploads every time the HealthWatcher updates the status.
EveryStatusUploaded ==
  upc = "idle" /\ ~uqueued /\ coll.observed =>
    service.last = [time |-> coll.lastRun, failed |-> Failures(coll.entries)]

ToBeWatched == {i \in Instances : inst[i] = Established}

\* At rest exactly the Instances that have an Installation in a final phase
\* and are not in deletion are watched, but for those whose Installation
\* could not be loaded the last time.  Without any Instance, a restart may
\* leave the list as it was.
RegisteredAtRest ==
  rpc = "idle" /\ ~rqueued /\ coll.exists /\ SomeInstance =>
    coll.refs \subseteq ToBeWatched /\ ToBeWatched \subseteq coll.refs \cup skipped

\* The same without the exception, as the documentation has it.
AllRegistered ==
  rpc = "idle" /\ ~rqueued /\ coll.exists => coll.refs = ToBeWatched

\* The comment on the request's timestamp: it must be newer than the one in
\* the last request.
NewerUploads ==
  [][\A t \in Times :
       upc = "upload" /\ service' # service /\ t = ucopy.time => t \notin service.sent
     ]_vars

\* The comment on status.instances: it collects the status for all Instances
\* in the spec.  Stated here for those whose Installation is final, which the
\* documentation wants to be watched: a run that came to one records a status.
AllCollected ==
  [][\A i \in Instances :
       hpc = "health" /\ hcur = i /\ hpc' = "instances" =>
         hnew'[i].status # "none"]_vars

Stuck == coll.exists /\ Due

\* A due run takes place in the end, as long as there are Instances: one that
\* is gone, while others stay, fails every run only until the list is made anew,
\* and however that fails it is tried again.
RunsKeepUp ==
  <>[]SomeInstance => ~<>[]Stuck

\* The same without the condition: the documentation says that the
\* HealthWatcher runs on spec change or periodically, and checks the own
\* Landscaper too.
RunsAlways == ~<>[]Stuck
=============================================================================
