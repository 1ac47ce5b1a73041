------------------------- MODULE AvailabilityProofs -------------------------
(***************************************************************************)
(* Proofs about availability monitoring, for any set of Instances, times   *)
(* and bounds.                                                             *)
(*                                                                         *)
(* Each controller has an invariant of its own.  AVMonitorRegistration: as *)
(* long as no event is waiting, what it has found so far and has still to  *)
(* look at makes up the Instances to be watched.  HealthWatcher: the run   *)
(* under way knows of every failure that was stored, and since when, as    *)
(* long as its update is accepted.  AVUploader: a status that is reported  *)
(* is the last that was sent, as the time of the last run only grows.      *)
(***************************************************************************)
EXTENDS Availability, TLAPS

-----------------------------------------------------------------------------
(***************************************************************************)
(* The inductive invariant.                                                *)
(***************************************************************************)

\* No time that anybody holds is in the future, and the last run is not older
\* than the run that was reported last.
PastInv ==
  /\ \A w \in Watched : hold[w].since \in Past /\ hnew[w].since \in Past
  /\ \A w \in Watched : noticed[w] \in Past
  /\ ucopy.time \in Past
  /\ coll.lastReported <= coll.lastRun
  /\ coll.observed => coll.exists

\* What the worker of AVMonitorRegistration has found is right unless it is
\* queued again, and nothing is missing that it has not to look at yet.
RegistrationInv ==
  /\ RegisteredAtRest
  /\ rpc = "idle" => rrefs = {}
  /\ rpc = "installations" /\ ~rqueued =>
       /\ rrefs \subseteq ToBeWatched
       /\ ToBeWatched \subseteq rrefs \cup rtodo \cup skipped
       /\ rtodo \subseteq {i \in Instances : inst[i].state = "present"}

\* A failure that was noticed is in the stored status, with a time not later,
\* and its Landscaper has not reported to be well since.
NoticedInv ==
  \A w \in Watched : noticed[w] # Never =>
    /\ coll.entries[w].since # Never /\ coll.entries[w].since <= noticed[w]
    /\ check[w].status = "Failed"

\* A run whose update will be accepted takes over the time of a noticed
\* failure, and does not fail to see that it has lasted for too long.
WatcherInv ==
  /\ hpc = "idle" => ~hfresh /\ hnew = NoEntries
  /\ hpc = "health" => hcur \in Instances
  /\ hfresh =>
       /\ coll.exists /\ hold = coll.entries
       /\ \A w \in Watched : noticed[w] # Never /\ hnew[w].since # Never =>
            /\ hnew[w].since = hold[w].since
            /\ hstart - noticed[w] > Timeout => hnew[w].status = "Failed"

\* The uploader is at work only while there is a run it has not reported; what
\* it stores as reported has been sent, and nothing else since.
UploaderInv ==
  /\ upc = "store" => ucopy.time \in service.sent /\ service.last = ucopy
  /\ upc # "idle" => coll.lastReported < coll.lastRun
  /\ ufresh => ucopy = [time |-> coll.lastRun, failed |-> Failures(coll.entries)]
  /\ coll.lastReported # Never => coll.lastReported \in service.sent
  /\ upc = "idle" /\ ~uqueued /\ coll.observed => coll.lastRun = coll.lastReported
  /\ coll.observed /\ ~again /\ coll.lastRun = coll.lastReported =>
       service.last = [time |-> coll.lastRun, failed |-> Failures(coll.entries)]

IndInv ==
  TypeOK /\ PastInv /\ RegistrationInv /\ NoticedInv /\ WatcherInv /\ UploaderInv


-----------------------------------------------------------------------------
(***************************************************************************)
(* Types, variable group by variable group.                                *)
(***************************************************************************)
WorldTypes ==
  clock \in 1 .. MaxTime /\ inst \in [Instances -> InstanceStates]
  /\ check \in [Watched -> Checks]

CollectionTypes ==
  /\ coll \in Collections
  /\ coll.lastRun \in Past /\ coll.lastReported \in Past
  /\ \A w \in Watched : coll.entries[w].since \in Past

RegistrationTypes ==
  /\ rqueued \in BOOLEAN /\ rpc \in {"idle", "installations"}
  /\ rtodo \subseteq Instances /\ rrefs \subseteq Instances

WatcherTypes ==
  /\ hqueued \in BOOLEAN /\ hpc \in {"idle", "instances", "health", "store"}
  /\ hcur \in Instances \cup {NoOne} /\ htodo \subseteq Instances
  /\ hold \in [Watched -> Entries] /\ hnew \in [Watched -> Entries]
  /\ hfresh \in BOOLEAN /\ hstart \in Past

UploaderTypes ==
  /\ uqueued \in BOOLEAN /\ upc \in {"idle", "upload", "store"} /\ ufresh \in BOOLEAN
  /\ ucopy \in [time: Times, failed: SUBSET Watched]

HistoryTypes ==
  /\ service.sent \subseteq Times
  /\ service.last \in [time: Times, failed: SUBSET Watched]
  /\ noticed \in [Watched -> Times] /\ skipped \subseteq Instances
  /\ again \in BOOLEAN

CounterTypes == changes \in 0 .. MaxChanges /\ faults \in 0 .. MaxFaults

LEMMA Types ==
  TypeOK <=> /\ WorldTypes /\ CollectionTypes /\ RegistrationTypes /\ WatcherTypes
             /\ UploaderTypes /\ HistoryTypes /\ CounterTypes
BY DEF TypeOK, WorldTypes, CollectionTypes, RegistrationTypes, WatcherTypes,
       UploaderTypes, HistoryTypes, CounterTypes

LEMMA NextTypes ==
  ASSUME WorldTypes', CollectionTypes', RegistrationTypes', WatcherTypes',
         UploaderTypes', HistoryTypes', CounterTypes'
  PROVE  TypeOK'
BY DEF TypeOK, WorldTypes, CollectionTypes, RegistrationTypes, WatcherTypes,
       UploaderTypes, HistoryTypes, CounterTypes

LEMMA TimesTypes ==
  ASSUME TypeOK
  PROVE  /\ clock \in Times /\ Past \subseteq Times /\ Never \in Past /\ clock \in Past
         /\ 1 \in Times /\ clock \in Nat /\ clock > Never
BY TimesAssumption DEF TypeOK, Times, Past, Never

LEMMA NoEntryTypes ==
  /\ NoEntry \in Entries /\ NoEntries \in [Watched -> Entries]
  /\ NoUpload \in [time: Times, failed: SUBSET Watched]
  /\ \A w \in Watched : NoEntries[w].since = Never /\ NoEntries[w].status = "none"
<1>1. Never \in Times
  BY TimesAssumption DEF Never, Times
<1> QED
  BY <1>1 DEF NoEntry, NoEntries, NoUpload, Entries

LEMMA InstanceStateTypes ==
  /\ NoInstance \in InstanceStates /\ Established \in InstanceStates
  /\ [NoInstance EXCEPT !.state = "present"] \in InstanceStates
  /\ \A s \in InstanceStates :
       /\ [s EXCEPT !.state = "deleting"] \in InstanceStates
       /\ [s EXCEPT !.installation = "progressing"] \in InstanceStates
       /\ [s EXCEPT !.installation = "final"] \in InstanceStates
       /\ [s EXCEPT !.installation = "absent"] \in InstanceStates
BY DEF NoInstance, Established, InstanceStates

LEMMA OutcomeTypes ==
  ASSUME CounterTypes, NEW o, Outcome(o) PROVE CounterTypes'
BY BoundsAssumption DEF CounterTypes, Outcome

LEMMA UnchangedCounterTypes ==
  ASSUME CounterTypes, UNCHANGED counters PROVE CounterTypes'
BY DEF CounterTypes, counters

\* The groups that a step leaves alone.
LEMMA UnchangedTypes ==
  ASSUME TypeOK
  PROVE  /\ UNCHANGED world => WorldTypes'
         /\ UNCHANGED <<clock, coll>> => CollectionTypes'
         /\ UNCHANGED registration => RegistrationTypes'
         /\ UNCHANGED <<clock, watcher>> => WatcherTypes'
         /\ UNCHANGED uploader => UploaderTypes'
         /\ UNCHANGED history => HistoryTypes'
BY DEF TypeOK, WorldTypes, CollectionTypes, RegistrationTypes, WatcherTypes,
       UploaderTypes, HistoryTypes, world, registration, watcher, uploader, history,
       Past

LEMMA IdleTypes ==
  ASSUME TypeOK
  PROVE  /\ RIdle /\ rqueued' \in BOOLEAN => RegistrationTypes'
         /\ HIdle /\ hqueued' \in BOOLEAN /\ UNCHANGED clock => WatcherTypes'
         /\ \A retry \in BOOLEAN : UEnd(retry) => UploaderTypes'
<1>2. ASSUME HIdle, hqueued' \in BOOLEAN, UNCHANGED clock PROVE WatcherTypes'
  BY <1>2, NoEntryTypes, TimesTypes DEF WatcherTypes, HIdle, Past
<1>3. ASSUME RIdle, rqueued' \in BOOLEAN PROVE RegistrationTypes'
  BY <1>3 DEF RegistrationTypes, RIdle
<1>4. ASSUME NEW retry \in BOOLEAN, UEnd(retry) PROVE UploaderTypes'
  BY <1>4, NoEntryTypes DEF UploaderTypes, UEnd
<1> QED
  BY <1>2, <1>3, <1>4

-----------------------------------------------------------------------------
(***************************************************************************)
(* AVMonitorRegistration keeps the types.                                  *)
(***************************************************************************)
\* The collection that it stores.
Listed(c) == [c EXCEPT !.exists = TRUE, !.refs = rrefs, !.observed = FALSE]

LEMMA ListedType ==
  ASSUME TypeOK PROVE Listed(coll) \in Collections
BY DEF TypeOK, Listed, Collections

LEMMA ListedFields ==
  ASSUME TypeOK
  PROVE  /\ Listed(coll).exists /\ Listed(coll).refs = rrefs /\ ~Listed(coll).observed
         /\ Listed(coll).lastRun = coll.lastRun
         /\ Listed(coll).lastReported = coll.lastReported
         /\ Listed(coll).entries = coll.entries
BY DEF TypeOK, Listed, Collections

LEMMA StoreRefsCases ==
  ASSUME TypeOK, NEW o \in Outcomes, StoreRefs(o)
  PROVE  \/ /\ coll' = coll /\ UNCHANGED <<hqueued, hfresh, uqueued, ufresh>>
            /\ o = "fail" \/ (coll.exists /\ coll.refs = rrefs)
         \/ /\ coll' = Listed(coll) /\ coll' # coll
            /\ hqueued' = TRUE /\ hfresh' = FALSE /\ uqueued' = TRUE /\ ufresh' = FALSE
<1>1. coll' = IF o = "fail" \/ (coll.exists /\ coll.refs = rrefs) THEN coll
              ELSE Listed(coll)
  BY DEF StoreRefs, Listed
<1>2. /\ coll' = coll => UNCHANGED <<hqueued, hfresh, uqueued, ufresh>>
      /\ coll' # coll => hqueued' = TRUE /\ hfresh' = FALSE /\ uqueued' = TRUE
                          /\ ufresh' = FALSE
  BY DEF StoreRefs
<1> QED
  BY <1>1, <1>2, ListedFields

LEMMA RegistrationKeepsTypes ==
  ASSUME TypeOK, Registration PROVE TypeOK'
<1> USE Types
<1>1. CASE ListInstances
  <2>1. UNCHANGED <<world, watcher, uploader, history, coll, counters, clock>>
    BY <1>1 DEF ListInstances, ROthers, history, world
  <2>2. RegistrationTypes'
    BY <1>1 DEF ListInstances, RegistrationTypes
  <2> QED
    BY <2>1, <2>2, UnchangedTypes, UnchangedCounterTypes, NextTypes
<1>2. ASSUME NEW i \in Instances, CheckInstallation(i) PROVE TypeOK'
  <2>1. UNCHANGED <<world, watcher, uploader, coll, clock>>
    BY <1>2 DEF CheckInstallation, ROthers, world
  <2>2. RegistrationTypes'
    BY <1>2 DEF CheckInstallation, RegistrationTypes
  <2>3. HistoryTypes'
    BY <1>2 DEF CheckInstallation, HistoryTypes, ROthers
  <2>4. CounterTypes'
    BY <1>2, OutcomeTypes, UnchangedCounterTypes DEF CheckInstallation
  <2> QED
    BY <2>1, <2>2, <2>3, <2>4, UnchangedTypes, NextTypes
<1>3. ASSUME NEW o \in Outcomes, StoreRefs(o) PROVE TypeOK'
  <2>1. UNCHANGED <<world, history, clock>>
    BY <1>3 DEF StoreRefs, world
  <2>2. RegistrationTypes'
    BY <1>3, IdleTypes DEF StoreRefs, RegistrationTypes
  <2>3. CollectionTypes'
    <3>1. UNCHANGED Past
      BY <2>1 DEF Past
    <3> QED
      BY <1>3, <3>1, StoreRefsCases, ListedType, ListedFields DEF CollectionTypes
  <2>4. WatcherTypes'
    BY <1>3, <2>1, StoreRefsCases DEF StoreRefs, WatcherTypes, Past
  <2>5. UploaderTypes'
    BY <1>3, StoreRefsCases DEF StoreRefs, UploaderTypes
  <2>6. CounterTypes'
    BY <1>3, OutcomeTypes DEF StoreRefs
  <2> QED
    BY <2>1, <2>2, <2>3, <2>4, <2>5, <2>6, UnchangedTypes, NextTypes
<1> QED
  BY <1>1, <1>2, <1>3 DEF Registration

-----------------------------------------------------------------------------
(***************************************************************************)
(* HealthWatcher keeps the types.  Its steps between the start of a run    *)
(* and the store have in common that they add an entry or none.            *)
(***************************************************************************)
\* A health that was found failing for longer than the timeout is not
\* recorded as well.
Collects(w) ==
  \E status \in {"Ok", "Failed"}, failing \in BOOLEAN :
    /\ Record(w, status, failing)
    /\ failing /\ OldSince(w) # Never /\ clock - OldSince(w) > Timeout =>
         status = "Failed"

CollectStep ==
  /\ hpc \in {"instances", "health"} /\ hpc' \in {"instances", "health", "store"}
  /\ hpc' = "health" => hcur' \in Instances
  /\ hcur' \in Instances \cup {NoOne} /\ htodo' \subseteq htodo
  /\ hnew' = hnew \/ \E w \in Watched : Collects(w)
  /\ UNCHANGED counters \/ \E o \in Outcomes : Outcome(o)
  /\ HUnchanged /\ HOthers

LEMMA TransferCollects ==
  ASSUME NEW w \in Watched, Transfer(w) PROVE Collects(w)
BY DEF Transfer, Collects

LEMMA FailureCollects ==
  ASSUME NEW w \in Watched, Record(w, "Failed", TRUE) PROVE Collects(w)
BY DEF Collects

LEMMA SkipCollects ==
  ASSUME TypeOK, WatcherInv, NEW i \in Instances, SkipInstance(i) PROVE CollectStep
BY DEF SkipInstance, CollectStep, TypeOK, WatcherInv

LEMMA FoundCollects ==
  ASSUME TypeOK, WatcherInv, NEW i \in Instances, InstanceFound(i) PROVE CollectStep
BY DEF InstanceFound, CollectStep, TypeOK, WatcherInv

LEMMA UnreadableCollects ==
  ASSUME TypeOK, WatcherInv, NEW i \in Instances, InstallationUnreadable(i)
  PROVE  CollectStep
<1>1. i \in Watched
  BY DEF Watched
<1>2. Collects(i)
  BY <1>1, FailureCollects DEF InstallationUnreadable
<1> QED
  BY <1>1, <1>2 DEF InstallationUnreadable, CollectStep, TypeOK, WatcherInv, Outcomes

LEMMA HealthCollects ==
  ASSUME TypeOK, WatcherInv, CollectHealth PROVE CollectStep
<1>1. hcur \in Watched
  BY DEF Watched, WatcherInv, CollectHealth
<1>2. UNCHANGED hnew \/ Collects(hcur)
  BY <1>1, FailureCollects, TransferCollects DEF CollectHealth
<1>3. UNCHANGED counters \/ \E o \in Outcomes : Outcome(o)
  BY DEF CollectHealth, Outcomes
<1> QED
  BY <1>1, <1>2, <1>3 DEF CollectHealth, CollectStep, TypeOK

LEMMA SelfCollects ==
  ASSUME TypeOK, WatcherInv, CollectSelf PROVE CollectStep
<1>1. Self \in Watched
  BY DEF Watched
<1>2. Collects(Self)
  BY <1>1, FailureCollects, TransferCollects DEF CollectSelf
<1>3. UNCHANGED counters \/ \E o \in Outcomes : Outcome(o)
  BY DEF CollectSelf, Outcomes
<1> QED
  BY <1>1, <1>2, <1>3 DEF CollectSelf, CollectStep, TypeOK

\* What a worker of HealthWatcher can do.
LEMMA WatcherSteps ==
  ASSUME TypeOK, WatcherInv, Watcher
  PROVE  \/ StartRun \/ CollectStep
         \/ \E i \in Instances : InstanceMissing(i)
         \/ \E o \in Outcomes : StoreStatus(o)
BY SkipCollects, FoundCollects, UnreadableCollects, HealthCollects, SelfCollects
   DEF Watcher

LEMMA EntryTypes ==
  ASSUME TypeOK, NEW w \in Watched, NEW s \in {"Ok", "Failed"}, NEW f \in BOOLEAN
  PROVE  /\ Entry(w, s, f) \in Entries
         /\ hold[w].since \in Past => Entry(w, s, f).since \in Past
<1>1. hold[w].since \in Times
  BY DEF TypeOK, Entries
<1> QED
  BY <1>1, TimesTypes DEF Entry, OldSince, Entries

\* The status that StoreStatus writes, and the time of the failures.
Updated(c) == [c EXCEPT !.entries = hnew, !.observed = TRUE, !.lastRun = LastRun]

LEMMA UpdatedFields ==
  ASSUME TypeOK
  PROVE  /\ Updated(coll) \in Collections
         /\ Updated(coll).exists = coll.exists /\ Updated(coll).refs = coll.refs
         /\ Updated(coll).observed /\ Updated(coll).lastRun = clock
         /\ Updated(coll).lastReported = coll.lastReported
         /\ Updated(coll).entries = hnew
BY TimesTypes DEF TypeOK, Updated, Collections, LastRun

LEMMA StoreStatusCases ==
  ASSUME NEW o \in Outcomes, StoreStatus(o)
  PROVE  \/ /\ hfresh /\ coll' = Updated(coll)
            /\ uqueued' = TRUE /\ ufresh' = FALSE /\ again' = (coll.lastRun = clock)
            /\ noticed' = [w \in Watched |->
                 IF hnew[w].since = Never \/ check[w].status = "Ok" THEN Never
                 ELSE IF noticed[w] # Never THEN noticed[w] ELSE clock]
         \/ UNCHANGED <<coll, uqueued, ufresh, again, noticed>>
BY DEF StoreStatus, Updated

LEMMA StartRunKeepsTypes ==
  ASSUME TypeOK, StartRun PROVE TypeOK'
<1> USE Types
<1>1. UNCHANGED <<world, registration, uploader, history, coll, counters, clock>>
  BY DEF StartRun, HOthers, history, world
<1>2. WatcherTypes'
  <2>1. UNCHANGED Past
    BY <1>1 DEF Past
  <2>2. coll.refs \subseteq Instances /\ coll.entries \in [Watched -> Entries]
    BY DEF TypeOK, Collections
  <2> QED
    BY <2>1, <2>2, TimesTypes DEF StartRun, WatcherTypes
<1> QED
  BY <1>1, <1>2, UnchangedTypes, UnchangedCounterTypes, NextTypes

LEMMA CollectStepKeepsTypes ==
  ASSUME TypeOK, CollectStep PROVE TypeOK'
<1> USE Types
<1>1. UNCHANGED <<world, registration, uploader, history, coll, clock>>
  BY DEF CollectStep, HOthers, HUnchanged, history, world
<1>2. WatcherTypes'
  <2>1. UNCHANGED Past
    BY <1>1 DEF Past
  <2>2. hnew' \in [Watched -> Entries]
    BY EntryTypes DEF CollectStep, Collects, Record, WatcherTypes
  <2> QED
    BY <2>1, <2>2 DEF CollectStep, WatcherTypes, HUnchanged
<1>3. CounterTypes'
  BY OutcomeTypes, UnchangedCounterTypes DEF CollectStep
<1> QED
  BY <1>1, <1>2, <1>3, UnchangedTypes, NextTypes

LEMMA MissingKeepsTypes ==
  ASSUME TypeOK, NEW i \in Instances, InstanceMissing(i) PROVE TypeOK'
<1> USE Types
<1>1. UNCHANGED <<world, registration, uploader, history, coll, clock>>
  BY DEF InstanceMissing, AbortRun, HOthers, history, world
<1>2. WatcherTypes'
  BY <1>1, IdleTypes DEF InstanceMissing, AbortRun
<1>3. CounterTypes'
  BY OutcomeTypes, UnchangedCounterTypes DEF InstanceMissing
<1> QED
  BY <1>1, <1>2, <1>3, UnchangedTypes, NextTypes

LEMMA StoreStatusKeepsTypes ==
  ASSUME TypeOK, PastInv, NEW o \in Outcomes, StoreStatus(o) PROVE TypeOK'
<1> USE Types
<1>1. UNCHANGED <<world, registration, clock, upc, ucopy, service, skipped>>
  BY DEF StoreStatus, HOthers, world
<1>2. UNCHANGED Past
  BY <1>1 DEF Past
<1>3. WatcherTypes'
  BY <1>1, IdleTypes DEF StoreStatus
<1>4. CollectionTypes'
  BY <1>2, StoreStatusCases, UpdatedFields, TimesTypes DEF CollectionTypes, PastInv
<1>5. UploaderTypes'
  BY <1>1, StoreStatusCases DEF UploaderTypes
<1>6. HistoryTypes'
  <2>1. noticed' \in [Watched -> Times]
    BY StoreStatusCases, TimesTypes DEF HistoryTypes
  <2>2. again' \in BOOLEAN
    BY StoreStatusCases DEF HistoryTypes
  <2> QED
    BY <1>1, <2>1, <2>2 DEF HistoryTypes
<1>7. CounterTypes'
  BY OutcomeTypes DEF StoreStatus
<1> QED
  BY <1>1, <1>3, <1>4, <1>5, <1>6, <1>7, UnchangedTypes, NextTypes

LEMMA WatcherKeepsTypes ==
  ASSUME TypeOK, PastInv, WatcherInv, Watcher PROVE TypeOK'
BY WatcherSteps, StartRunKeepsTypes, CollectStepKeepsTypes, MissingKeepsTypes,
   StoreStatusKeepsTypes

-----------------------------------------------------------------------------
(***************************************************************************)
(* AVUploader and the world keep the types.                                *)
(***************************************************************************)
Reported(c) == [c EXCEPT !.lastReported = ucopy.time]

LEMMA ReportedFields ==
  ASSUME TypeOK
  PROVE  /\ Reported(coll) \in Collections
         /\ Reported(coll).exists = coll.exists /\ Reported(coll).refs = coll.refs
         /\ Reported(coll).observed = coll.observed
         /\ Reported(coll).lastRun = coll.lastRun
         /\ Reported(coll).lastReported = ucopy.time
         /\ Reported(coll).entries = coll.entries
BY DEF TypeOK, Reported, Collections

LEMMA UploadCopy ==
  ASSUME TypeOK
  PROVE  LET c == [time |-> coll.lastRun, failed |-> Failures(coll.entries)] IN
         /\ c \in [time: Times, failed: SUBSET Watched]
         /\ c.time = coll.lastRun
BY DEF TypeOK, Collections, Failures

LEMMA ReceiveFields ==
  ASSUME TypeOK, NEW o \in Outcomes, Receive(o)
  PROVE  /\ o = "fail" => UNCHANGED service
         /\ o # "fail" => service'.sent = service.sent \cup {ucopy.time}
                          /\ service'.last = ucopy
BY DEF Receive

LEMMA StartUploadKeepsTypes ==
  ASSUME TypeOK, StartUpload PROVE TypeOK'
<1> USE Types
<1>1. UNCHANGED <<world, registration, watcher, history, coll, counters, clock>>
  BY DEF StartUpload, UOthers, history, world
<1>2. UploaderTypes'
  BY UploadCopy DEF StartUpload, UploaderTypes
<1> QED
  BY <1>1, <1>2, UnchangedTypes, UnchangedCounterTypes, NextTypes

LEMMA UploadKeepsTypes ==
  ASSUME TypeOK, NEW o \in Outcomes, Upload(o) PROVE TypeOK'
<1> USE Types
<1>1. UNCHANGED <<world, registration, watcher, coll, clock, noticed, skipped, again>>
  BY DEF Upload, UOthers, world
<1>2. UploaderTypes'
  <2>1. CASE o = "ok"
    BY <2>1 DEF Upload, UploaderTypes
  <2>2. CASE o # "ok"
    BY <2>2, IdleTypes DEF Upload
  <2> QED
    BY <2>1, <2>2
<1>3. HistoryTypes'
  <2>1. service'.sent \subseteq Times
        /\ service'.last \in [time: Times, failed: SUBSET Watched]
    BY ReceiveFields DEF Upload, HistoryTypes, UploaderTypes
  <2> QED
    BY <1>1, <2>1 DEF HistoryTypes
<1>4. CounterTypes'
  BY OutcomeTypes DEF Upload
<1> QED
  BY <1>1, <1>2, <1>3, <1>4, UnchangedTypes, NextTypes

LEMMA StoreReportedKeepsTypes ==
  ASSUME TypeOK, PastInv, NEW o \in Outcomes, StoreReported(o) PROVE TypeOK'
<1> USE Types
<1>1. UNCHANGED <<world, registration, history, clock>> /\ UNCHANGED Past
  BY DEF StoreReported, UOthers, history, world, Past
<1>2. UploaderTypes'
  BY IdleTypes DEF StoreReported
<1>3. coll' = coll \/ coll' = Reported(coll)
  BY DEF StoreReported, Reported
<1>4. CollectionTypes'
  BY <1>1, <1>3, ReportedFields DEF CollectionTypes, PastInv
<1>5. WatcherTypes'
  BY <1>1 DEF StoreReported, WatcherTypes
<1>6. CounterTypes'
  BY OutcomeTypes DEF StoreReported
<1> QED
  BY <1>1, <1>2, <1>4, <1>5, <1>6, UnchangedTypes, NextTypes

LEMMA UploaderKeepsTypes ==
  ASSUME TypeOK, PastInv, Uploader PROVE TypeOK'
BY StartUploadKeepsTypes, UploadKeepsTypes, StoreReportedKeepsTypes DEF Uploader

\* Time only grows.
LEMMA PastGrows ==
  ASSUME TypeOK, Tick \/ UNCHANGED clock
  PROVE  /\ \A t \in Past : t \in Past'
         /\ clock' \in 1 .. MaxTime /\ clock <= clock'
BY TimesAssumption DEF Past, TypeOK, Tick, Never

LEMMA TickKeepsTypes ==
  ASSUME TypeOK, Tick PROVE TypeOK'
<1> USE Types
<1>1. UNCHANGED <<registration, uploader, history, counters, inst, check, coll, watcher>>
  BY DEF Tick
<1>2. WorldTypes'
  BY <1>1, PastGrows DEF WorldTypes
<1>3. CollectionTypes'
  BY <1>1, PastGrows DEF CollectionTypes
<1>4. WatcherTypes'
  BY <1>1, PastGrows DEF WatcherTypes, watcher
<1> QED
  BY <1>1, <1>2, <1>3, <1>4, UnchangedTypes, UnchangedCounterTypes, NextTypes

LEMMA InstanceChangesType ==
  ASSUME TypeOK, NEW i \in Instances, InstanceChanges(i)
  PROVE  inst' \in [Instances -> InstanceStates]
<1> DEFINE s == inst[i]
<1>1. s \in InstanceStates
  BY DEF TypeOK
<1>2. PICK t \in {[NoInstance EXCEPT !.state = "present"], NoInstance,
                  [s EXCEPT !.state = "deleting"],
                  [s EXCEPT !.installation = "progressing"],
                  [s EXCEPT !.installation = "final"],
                  [s EXCEPT !.installation = "absent"]} :
        inst' = [inst EXCEPT ![i] = t]
  BY DEF InstanceChanges
<1>3. t \in InstanceStates
  BY <1>1, InstanceStateTypes
<1> QED
  BY <1>2, <1>3 DEF TypeOK

LEMMA InstanceChangesKeepsTypes ==
  ASSUME TypeOK, NEW i \in Instances, InstanceChanges(i) PROVE TypeOK'
<1> USE Types
<1>1. UNCHANGED <<clock, check, coll, watcher, uploader, history, faults, rpc, rtodo, rrefs>>
  BY DEF InstanceChanges
<1>2. WorldTypes'
  BY <1>1, InstanceChangesType DEF WorldTypes
<1>3. RegistrationTypes'
  BY <1>1 DEF InstanceChanges, RegistrationTypes
<1>4. CounterTypes'
  <2>1. changes < MaxChanges /\ changes' = changes + 1
    BY DEF InstanceChanges
  <2> QED
    BY <1>1, <2>1, BoundsAssumption DEF CounterTypes
<1> QED
  BY <1>1, <1>2, <1>3, <1>4, UnchangedTypes, NextTypes

LEMMA ReportHealthCase ==
  ASSUME TypeOK, NEW w \in Watched, ReportHealth(w)
  PROVE  \E s \in {"Ok", "Failed"} :
           /\ check' = [check EXCEPT ![w].status = s, ![w].updated = clock]
           /\ noticed' = [noticed EXCEPT ![w] = IF s = "Ok" THEN Never ELSE @]
BY DEF ReportHealth

LEMMA ReportHealthKeepsTypes ==
  ASSUME TypeOK, NEW w \in Watched, ReportHealth(w) PROVE TypeOK'
<1> USE Types
<1>1. UNCHANGED <<clock, inst, coll, registration, watcher, uploader, service,
                  skipped, again, faults>>
  BY DEF ReportHealth
<1>2. WorldTypes'
  <2>1. check' \in [Watched -> Checks]
    <3>1. PICK s \in {"Ok", "Failed"} :
            check' = [check EXCEPT ![w].status = s, ![w].updated = clock]
      BY ReportHealthCase
    <3>2. [check[w] EXCEPT !.status = s, !.updated = clock] \in Checks
      BY TimesTypes DEF WorldTypes, Checks
    <3> QED
      BY <3>1, <3>2 DEF WorldTypes
  <2> QED
    BY <1>1, <2>1 DEF WorldTypes
<1>3. HistoryTypes'
  <2>1. noticed' \in [Watched -> Times]
    BY ReportHealthCase, TimesTypes DEF HistoryTypes
  <2> QED
    BY <1>1, <2>1 DEF HistoryTypes
<1>4. CounterTypes'
  <2>1. changes' \in Nat /\ changes' <= MaxChanges
    <3>1. PICK k \in {1, 2} : changes' = changes + k /\ changes' <= MaxReports
      BY DEF ReportHealth
    <3> QED
      BY <3>1, BoundsAssumption DEF CounterTypes
  <2> QED
    BY <1>1, <2>1, BoundsAssumption DEF CounterTypes
<1> QED
  BY <1>1, <1>2, <1>3, <1>4, UnchangedTypes, NextTypes

LEMMA ChangeClusterKeepsTypes ==
  ASSUME TypeOK, NEW w \in Watched, ChangeCluster(w) PROVE TypeOK'
<1> USE Types
<1>1. UNCHANGED <<clock, inst, coll, registration, watcher, uploader, history, faults>>
  BY DEF ChangeCluster
<1>2. WorldTypes'
  <2>1. PICK f \in {"one", "many", "noKind"} : check' = [check EXCEPT ![w].found = f]
    BY DEF ChangeCluster
  <2>2. [check[w] EXCEPT !.found = f] \in Checks
    BY DEF WorldTypes, Checks
  <2> QED
    BY <1>1, <2>1, <2>2 DEF WorldTypes
<1>3. CounterTypes'
  <2>1. changes + 2 <= MaxReports /\ changes' = changes + 2
    BY DEF ChangeCluster
  <2> QED
    BY <1>1, <2>1, BoundsAssumption DEF CounterTypes
<1> QED
  BY <1>1, <1>2, <1>3, UnchangedTypes, NextTypes

LEMMA RestartKeepsTypes ==
  ASSUME TypeOK, Restart PROVE TypeOK'
<1> USE Types
<1>1. UNCHANGED <<world, coll, history, clock, changes>>
  BY DEF Restart, world
<1>2. RegistrationTypes'
  BY IdleTypes DEF Restart, SomeInstance
<1>3. coll.exists \in BOOLEAN
  BY DEF CollectionTypes, Collections
<1>4. WatcherTypes' /\ UploaderTypes'
  BY <1>1, <1>3, IdleTypes DEF Restart
<1>5. CounterTypes'
  <2>1. faults < MaxFaults /\ faults' = faults + 1
    BY DEF Restart
  <2> QED
    BY <1>1, <2>1, BoundsAssumption DEF CounterTypes
<1> QED
  BY <1>1, <1>2, <1>4, <1>5, UnchangedTypes, NextTypes

LEMMA TypesKept ==
  ASSUME IndInv, [Next]_vars PROVE TypeOK'
<1> USE DEF IndInv
<1>1. CASE Next
  BY <1>1, RegistrationKeepsTypes, WatcherKeepsTypes, UploaderKeepsTypes,
     TickKeepsTypes, RestartKeepsTypes, InstanceChangesKeepsTypes,
     ReportHealthKeepsTypes, ChangeClusterKeepsTypes
     DEF Next, World
<1>2. CASE UNCHANGED vars
  <2>1. UNCHANGED <<world, coll, clock, registration, watcher, uploader, history, counters>>
    BY <1>2 DEF vars, world
  <2> QED
    BY <2>1, Types, UnchangedTypes, UnchangedCounterTypes, NextTypes
<1> QED
  BY <1>1, <1>2

-----------------------------------------------------------------------------
(***************************************************************************)
(* What keeps each part of the invariant when it is left alone.            *)
(***************************************************************************)
LEMMA PastFrame ==
  ASSUME PastInv, UNCHANGED <<clock, noticed, ucopy, hold, hnew>>,
         coll'.lastReported = coll.lastReported, coll'.lastRun = coll.lastRun,
         coll'.observed => coll'.exists
  PROVE  PastInv'
BY DEF PastInv, Past

LEMMA RegistrationFrame ==
  ASSUME RegistrationInv, UNCHANGED <<inst, registration, skipped>>,
         coll'.exists = coll.exists, coll'.refs = coll.refs
  PROVE  RegistrationInv'
BY DEF RegistrationInv, RegisteredAtRest, ToBeWatched, SomeInstance, registration

LEMMA NoticedFrame ==
  ASSUME NoticedInv, UNCHANGED <<noticed, check>>, coll'.entries = coll.entries
  PROVE  NoticedInv'
BY DEF NoticedInv

\* A copy that is outdated has nothing to keep.
LEMMA WatcherFrame ==
  ASSUME WatcherInv, UNCHANGED <<hpc, hcur, hold, hnew, hstart, noticed>>,
         hfresh' => hfresh /\ coll'.entries = coll.entries /\ (coll.exists => coll'.exists)
  PROVE  WatcherInv'
BY DEF WatcherInv

\* A collection whose status does not belong to its spec need not be uploaded.
LEMMA UploaderFrame ==
  ASSUME UploaderInv, UNCHANGED <<service, upc, ucopy, again>>,
         uqueued => uqueued', ufresh' => ufresh,
         coll'.lastReported = coll.lastReported, coll'.lastRun = coll.lastRun,
         coll'.entries = coll.entries, coll'.observed => coll.observed
  PROVE  UploaderInv'
<1>1. Failures(coll'.entries) = Failures(coll.entries)
  OBVIOUS
<1> QED
  BY <1>1 DEF UploaderInv

LEMMA IdleWatcher ==
  ASSUME HIdle PROVE WatcherInv'
BY DEF HIdle, WatcherInv

-----------------------------------------------------------------------------
(***************************************************************************)
(* AVMonitorRegistration keeps the invariant.                              *)
(***************************************************************************)
LEMMA ListInstancesInv ==
  ASSUME IndInv, TypeOK', ListInstances PROVE IndInv'
<1> USE DEF IndInv
<1>1. UNCHANGED <<world, coll, watcher, uploader, history>>
  BY DEF ListInstances, ROthers, history
<1>2. PastInv'
  BY <1>1, PastFrame DEF world, watcher, uploader, history, PastInv
<1>3. RegistrationInv'
  <2>1. rpc' = "installations" /\ ~rqueued' /\ rrefs' = {}
        /\ rtodo' = {i \in Instances : inst[i].state = "present"
                                       /\ inst[i].installation # "noRef"}
    BY DEF ListInstances, RegistrationInv
  <2>2. ToBeWatched' \subseteq rtodo'
    BY <1>1, <2>1 DEF ToBeWatched, Established, world
  <2>3. rtodo' \subseteq {i \in Instances : inst'[i].state = "present"}
    BY <1>1, <2>1 DEF world
  <2> QED
    BY <2>1, <2>2, <2>3 DEF RegistrationInv, RegisteredAtRest
<1>4. NoticedInv'
  BY <1>1, NoticedFrame DEF world, history
<1>5. WatcherInv'
  BY <1>1, WatcherFrame DEF watcher, history
<1>6. UploaderInv'
  BY <1>1, UploaderFrame DEF uploader, history
<1> QED
  BY <1>2, <1>3, <1>4, <1>5, <1>6

LEMMA CheckInstallationInv ==
  ASSUME IndInv, TypeOK', NEW i \in Instances, CheckInstallation(i) PROVE IndInv'
<1> USE DEF IndInv
<1>1. UNCHANGED <<world, coll, watcher, uploader, service, noticed, again>>
  BY DEF CheckInstallation, ROthers
<1>2. PastInv'
  BY <1>1, PastFrame DEF world, watcher, uploader, PastInv
<1>3. RegistrationInv'
  <2>1. rpc = "installations" /\ rpc' = "installations" /\ rqueued' = rqueued
        /\ rtodo' = rtodo \ {i} /\ i \in rtodo
    BY DEF CheckInstallation
  <2>2. ToBeWatched' = ToBeWatched /\ inst' = inst
    BY <1>1 DEF ToBeWatched, world
  <2>3. ASSUME ~rqueued
        PROVE  rrefs' \subseteq ToBeWatched
               /\ ToBeWatched \subseteq rrefs' \cup rtodo' \cup skipped'
    <3>1. inst[i].state = "present" /\ rrefs \subseteq ToBeWatched
          /\ ToBeWatched \subseteq rrefs \cup rtodo \cup skipped
      BY <2>1, <2>3 DEF RegistrationInv
    <3>2. inst[i] \in InstanceStates
      BY DEF TypeOK
    <3>3. i \in ToBeWatched <=> inst[i].installation = "final"
      BY <3>1, <3>2 DEF ToBeWatched, Established, InstanceStates
    <3>4. CASE rrefs' = (IF inst[i].installation = "final" THEN rrefs \cup {i} ELSE rrefs)
               /\ skipped' = skipped \ {i}
      BY <2>1, <3>1, <3>3, <3>4
    <3>5. CASE rrefs' = rrefs /\ skipped' = skipped \cup {i}
      BY <2>1, <3>1, <3>5
    <3> QED
      BY <3>4, <3>5 DEF CheckInstallation
  <2> QED
    BY <2>1, <2>2, <2>3 DEF RegistrationInv, RegisteredAtRest
<1>4. NoticedInv'
  BY <1>1, NoticedFrame DEF world
<1>5. WatcherInv'
  BY <1>1, WatcherFrame DEF watcher
<1>6. UploaderInv'
  BY <1>1, UploaderFrame DEF uploader
<1> QED
  BY <1>2, <1>3, <1>4, <1>5, <1>6

LEMMA StoreRefsInv ==
  ASSUME IndInv, TypeOK', NEW o \in Outcomes, StoreRefs(o) PROVE IndInv'
<1> USE DEF IndInv
<1>1. UNCHANGED <<world, hpc, hcur, htodo, hold, hnew, hstart, upc, ucopy, history>>
      /\ RIdle /\ rqueued' = (rqueued \/ o # "ok")
      /\ rpc = "installations" /\ rtodo = {}
  BY DEF StoreRefs
<1>2. \/ coll' = coll
      \/ coll' = Listed(coll) /\ hfresh' = FALSE /\ uqueued' = TRUE /\ ufresh' = FALSE
  BY StoreRefsCases
<1>3. /\ coll'.lastRun = coll.lastRun /\ coll'.lastReported = coll.lastReported
      /\ coll'.entries = coll.entries /\ (coll'.observed => coll.observed)
      /\ (coll'.observed => coll'.exists) /\ (coll.exists => coll'.exists)
  BY <1>2, ListedFields DEF PastInv
<1>4. (hfresh' => hfresh) /\ (ufresh' => ufresh) /\ (uqueued => uqueued')
  BY StoreRefsCases
<1>5. PastInv'
  BY <1>1, <1>3, PastFrame DEF world, history
<1>6. RegistrationInv'
  <2>1. ASSUME ~rqueued'
        PROVE  coll'.refs \subseteq ToBeWatched
               /\ ToBeWatched \subseteq coll'.refs \cup skipped
    <3>1. ~rqueued /\ o = "ok"
      BY <1>1, <2>1
    <3>2. coll'.refs = rrefs
      BY <3>1, StoreRefsCases, ListedFields
    <3> QED
      BY <1>1, <3>1, <3>2 DEF RegistrationInv
  <2>2. ToBeWatched' = ToBeWatched /\ skipped' = skipped
    BY <1>1 DEF ToBeWatched, world, history
  <2>3. rpc' = "idle" /\ rrefs' = {}
    BY <1>1 DEF RIdle
  <2> QED
    BY <2>1, <2>2, <2>3 DEF RegistrationInv, RegisteredAtRest
<1>7. NoticedInv'
  BY <1>1, <1>3, NoticedFrame DEF world, history
<1>8. WatcherInv'
  BY <1>1, <1>3, <1>4, WatcherFrame DEF history
<1>9. UploaderInv'
  BY <1>1, <1>3, <1>4, UploaderFrame DEF history
<1> QED
  BY <1>5, <1>6, <1>7, <1>8, <1>9

-----------------------------------------------------------------------------
(***************************************************************************)
(* HealthWatcher keeps the invariant.                                      *)
(***************************************************************************)
LEMMA StartRunInv ==
  ASSUME IndInv, TypeOK', StartRun PROVE IndInv'
<1> USE DEF IndInv
<1>1. UNCHANGED <<world, registration, uploader, history, coll, hnew, hcur>>
      /\ hpc = "idle" /\ hpc' = "instances" /\ hold' = coll.entries /\ coll.exists
      /\ hstart' = clock
  BY DEF StartRun, HOthers, history
<1>2. PastInv'
  BY <1>1 DEF PastInv, TypeOK, Past, world, history, uploader
<1>3. RegistrationInv'
  BY <1>1, RegistrationFrame DEF world, history
<1>4. NoticedInv'
  BY <1>1, NoticedFrame DEF world, history
<1>5. WatcherInv'
  <2>1. hnew' = NoEntries
    BY <1>1 DEF WatcherInv
  <2> QED
    BY <1>1, <2>1, NoEntryTypes DEF WatcherInv
<1>6. UploaderInv'
  BY <1>1, UploaderFrame DEF uploader, history
<1> QED
  BY <1>2, <1>3, <1>4, <1>5, <1>6

\* An entry takes over the time of a failure that was noticed, and is Failed
\* once that is too long ago.
LEMMA CollectedEntry ==
  ASSUME IndInv, hfresh, NEW w \in Watched, noticed[w] # Never,
         NEW status \in {"Ok", "Failed"}, NEW failing \in BOOLEAN,
         failing /\ OldSince(w) # Never /\ clock - OldSince(w) > Timeout =>
           status = "Failed",
         Entry(w, status, failing).since # Never
  PROVE  /\ Entry(w, status, failing).since = hold[w].since
         /\ hstart - noticed[w] > Timeout => Entry(w, status, failing).status = "Failed"
<1> USE DEF IndInv
<1>1. hold[w].since = coll.entries[w].since /\ hold[w].since # Never
      /\ hold[w].since <= noticed[w]
  BY DEF WatcherInv, NoticedInv
<1>2. failing /\ Entry(w, status, failing).since = hold[w].since
      /\ Entry(w, status, failing).status = status
  BY <1>1 DEF Entry, OldSince
<1>3. ASSUME hstart - noticed[w] > Timeout PROVE clock - hold[w].since > Timeout
  <2>1. hstart \in Int /\ clock \in Int /\ noticed[w] \in Int /\ hold[w].since \in Int
        /\ hstart <= clock
    BY <1>1, TimesAssumption DEF TypeOK, Past, PastInv, Never
  <2> QED
    BY <1>1, <1>3, <2>1, TimesAssumption
<1> QED
  BY <1>1, <1>2, <1>3 DEF OldSince

LEMMA CollectStepInv ==
  ASSUME IndInv, TypeOK', CollectStep PROVE IndInv'
<1> USE DEF IndInv
<1>1. UNCHANGED <<world, registration, uploader, history, coll, hold, hfresh, hstart>>
      /\ hpc' # "idle" /\ (hpc' = "health" => hcur' \in Instances)
  BY DEF CollectStep, HOthers, HUnchanged, history
<1>2. \A v \in Watched : \/ hnew'[v] = hnew[v]
        \/ \E status \in {"Ok", "Failed"}, failing \in BOOLEAN :
             /\ hnew'[v] = Entry(v, status, failing)
             /\ failing /\ OldSince(v) # Never /\ clock - OldSince(v) > Timeout =>
                  status = "Failed"
  <2>1. hnew \in [Watched -> Entries]
    BY DEF TypeOK
  <2> QED
    BY <2>1 DEF CollectStep, Collects, Record
<1>3. PastInv'
  <2>1. \A v \in Watched : hnew'[v].since \in Past
    BY <1>2, EntryTypes DEF PastInv
  <2> QED
    BY <1>1, <2>1 DEF PastInv, Past, world, uploader, history
<1>4. RegistrationInv'
  BY <1>1, RegistrationFrame DEF world, history
<1>5. NoticedInv'
  BY <1>1, NoticedFrame DEF world, history
<1>6. WatcherInv'
  <2>1. ASSUME hfresh', NEW v \in Watched, noticed'[v] # Never, hnew'[v].since # Never
        PROVE  /\ hnew'[v].since = hold'[v].since
               /\ hstart' - noticed'[v] > Timeout => hnew'[v].status = "Failed"
    <3>1. hfresh /\ noticed[v] # Never /\ noticed' = noticed
      BY <1>1, <2>1 DEF history
    <3>2. CASE hnew'[v] = hnew[v]
      BY <1>1, <2>1, <3>1, <3>2 DEF WatcherInv
    <3>3. CASE \E status \in {"Ok", "Failed"}, failing \in BOOLEAN :
             /\ hnew'[v] = Entry(v, status, failing)
             /\ failing /\ OldSince(v) # Never /\ clock - OldSince(v) > Timeout =>
                  status = "Failed"
      BY <1>1, <2>1, <3>1, <3>3, CollectedEntry
    <3> QED
      BY <1>2, <3>2, <3>3
  <2>2. hfresh' => coll'.exists /\ hold' = coll'.entries
    BY <1>1 DEF WatcherInv
  <2> QED
    BY <1>1, <2>1, <2>2 DEF WatcherInv
<1>7. UploaderInv'
  BY <1>1, UploaderFrame DEF uploader, history
<1> QED
  BY <1>3, <1>4, <1>5, <1>6, <1>7

LEMMA InstanceMissingInv ==
  ASSUME IndInv, TypeOK', NEW i \in Instances, InstanceMissing(i) PROVE IndInv'
<1> USE DEF IndInv
<1>1. UNCHANGED <<world, registration, uploader, history, coll>> /\ HIdle
  BY DEF InstanceMissing, AbortRun, HOthers, history
<1>2. PastInv'
  BY <1>1, TimesTypes, NoEntryTypes DEF PastInv, Past, HIdle, world, uploader, history
<1>3. RegistrationInv'
  BY <1>1, RegistrationFrame DEF world, history
<1>4. NoticedInv'
  BY <1>1, NoticedFrame DEF world, history
<1>5. WatcherInv'
  BY <1>1, IdleWatcher
<1>6. UploaderInv'
  BY <1>1, UploaderFrame DEF uploader, history
<1> QED
  BY <1>2, <1>3, <1>4, <1>5, <1>6

LEMMA StoreStatusInv ==
  ASSUME IndInv, TypeOK', NEW o \in Outcomes, StoreStatus(o) PROVE IndInv'
<1> USE DEF IndInv
<1>1. UNCHANGED <<world, registration, skipped, upc, ucopy, service>> /\ HIdle
  BY DEF StoreStatus, HOthers
<1>2. WatcherInv'
  BY <1>1, IdleWatcher
<1>3. CASE UNCHANGED <<coll, uqueued, ufresh, again, noticed>>
  <2>1. PastInv'
    BY <1>1, <1>3, TimesTypes, NoEntryTypes DEF PastInv, Past, HIdle, world
  <2>2. RegistrationInv'
    BY <1>1, <1>3, RegistrationFrame DEF world
  <2>3. NoticedInv'
    BY <1>1, <1>3, NoticedFrame DEF world
  <2>4. UploaderInv'
    BY <1>1, <1>3, UploaderFrame
  <2> QED
    BY <1>2, <2>1, <2>2, <2>3, <2>4
<1>4. CASE /\ hfresh /\ coll' = Updated(coll)
           /\ uqueued' = TRUE /\ ufresh' = FALSE /\ again' = (coll.lastRun = clock)
           /\ noticed' = [w \in Watched |->
                IF hnew[w].since = Never \/ check[w].status = "Ok" THEN Never
                ELSE IF noticed[w] # Never THEN noticed[w] ELSE clock]
  <2>1. coll'.exists = coll.exists /\ coll'.refs = coll.refs /\ coll'.lastRun = clock
        /\ coll'.lastReported = coll.lastReported /\ coll'.entries = hnew
    BY <1>4, UpdatedFields
  <2>2. coll.lastRun <= clock /\ coll.lastReported <= coll.lastRun
        /\ clock \in Int /\ coll.lastRun \in Int /\ coll.lastReported \in Int
    BY DEF TypeOK, Past, PastInv, Never
  <2>3. PastInv'
    <3>1. \A w \in Watched : noticed'[w] \in Past
      BY <1>4, TimesTypes DEF PastInv
    <3>2. coll'.lastReported <= coll'.lastRun
      BY <2>1, <2>2
    <3>3. coll'.exists
      BY <1>4, <2>1 DEF WatcherInv
    <3> QED
      BY <1>1, <3>1, <3>2, <3>3, TimesTypes, NoEntryTypes
         DEF PastInv, Past, HIdle, world
  <2>4. RegistrationInv'
    BY <1>1, <2>1, RegistrationFrame DEF world
  <2>5. NoticedInv'
    <3>1. ASSUME NEW w \in Watched, noticed'[w] # Never
          PROVE  hnew[w].since # Never /\ hnew[w].since <= noticed'[w]
                 /\ check[w].status = "Failed"
      <4>1. hnew[w].since # Never /\ check[w].status # "Ok"
            /\ noticed'[w] = IF noticed[w] # Never THEN noticed[w] ELSE clock
        BY <1>4, <3>1
      <4>2. check[w].status = "Failed"
        BY <4>1 DEF TypeOK, Checks
      <4>3. CASE noticed[w] # Never
        <5>1. hnew[w].since = coll.entries[w].since
          BY <1>4, <4>1, <4>3 DEF WatcherInv
        <5> QED
          BY <4>1, <4>2, <4>3, <5>1 DEF NoticedInv
      <4>4. CASE noticed[w] = Never
        <5>1. hnew[w].since <= clock
          BY DEF PastInv, Past
        <5> QED
          BY <4>1, <4>2, <4>4, <5>1
      <4> QED
        BY <4>3, <4>4
    <3> QED
      BY <1>1, <2>1, <3>1 DEF NoticedInv, world
  <2>6. UploaderInv'
    <3>1. coll'.lastReported # Never => coll'.lastReported \in service'.sent
      BY <1>1, <2>1 DEF UploaderInv
    <3>2. upc' # "idle" => coll'.lastReported < coll'.lastRun
      BY <1>1, <2>1, <2>2 DEF UploaderInv
    <3>3. ~again' => coll.lastRun # clock
      BY <1>4
    <3>4. ~again' => coll'.lastRun # coll'.lastReported
      BY <2>1, <2>2, <3>3
    <3> QED
      BY <1>1, <1>4, <3>1, <3>2, <3>4 DEF UploaderInv
  <2> QED
    BY <1>2, <2>3, <2>4, <2>5, <2>6
<1> QED
  BY <1>3, <1>4, StoreStatusCases

LEMMA WatcherKeepsInv ==
  ASSUME IndInv, TypeOK', Watcher PROVE IndInv'
BY WatcherSteps, StartRunInv, CollectStepInv, InstanceMissingInv, StoreStatusInv
   DEF IndInv

-----------------------------------------------------------------------------
(***************************************************************************)
(* AVUploader keeps the invariant.                                         *)
(***************************************************************************)
LEMMA StartUploadInv ==
  ASSUME IndInv, TypeOK', StartUpload PROVE IndInv'
<1> USE DEF IndInv
<1>1. UNCHANGED <<world, registration, watcher, history, coll>>
      /\ upc = "idle" /\ uqueued' = FALSE
  BY DEF StartUpload, UOthers, history
<1>2. \/ /\ UNCHANGED <<upc, ucopy, ufresh>>
         /\ ~coll.observed \/ coll.lastRun = coll.lastReported
      \/ /\ upc' = "upload" /\ coll.lastRun # coll.lastReported
         /\ ucopy' = [time |-> coll.lastRun, failed |-> Failures(coll.entries)]
  BY DEF StartUpload
<1>3. PastInv'
  <2>1. ucopy'.time \in Past
    BY <1>2, UploadCopy DEF PastInv, TypeOK
  <2> QED
    BY <1>1, <2>1 DEF PastInv, Past, world, watcher, history
<1>4. RegistrationInv'
  BY <1>1, RegistrationFrame DEF world, history
<1>5. NoticedInv'
  BY <1>1, NoticedFrame DEF world, history
<1>6. WatcherInv'
  BY <1>1, WatcherFrame DEF watcher, history
<1>7. UploaderInv'
  <2>1. CASE /\ UNCHANGED <<upc, ucopy, ufresh>>
             /\ ~coll.observed \/ coll.lastRun = coll.lastReported
    BY <1>1, <2>1 DEF UploaderInv, history
  <2>2. CASE /\ upc' = "upload" /\ coll.lastRun # coll.lastReported
             /\ ucopy' = [time |-> coll.lastRun, failed |-> Failures(coll.entries)]
    <3>1. coll.lastReported < coll.lastRun
      <4>1. coll.lastRun \in Int /\ coll.lastReported \in Int
            /\ coll.lastReported <= coll.lastRun
        BY DEF TypeOK, Past, PastInv, Never
      <4> QED
        BY <2>2, <4>1
    <3> QED
      BY <1>1, <2>2, <3>1 DEF UploaderInv, history
  <2> QED
    BY <1>2, <2>1, <2>2
<1> QED
  BY <1>3, <1>4, <1>5, <1>6, <1>7

LEMMA UploadInv ==
  ASSUME IndInv, TypeOK', NEW o \in Outcomes, Upload(o) PROVE IndInv'
<1> USE DEF IndInv
<1>1. UNCHANGED <<world, registration, watcher, coll, noticed, skipped, again>>
      /\ upc = "upload" /\ Receive(o)
  BY DEF Upload, UOthers
<1>2. \/ o = "ok" /\ upc' = "store" /\ UNCHANGED <<uqueued, ucopy, ufresh>>
      \/ UEnd(TRUE)
  BY DEF Upload
<1>3. PastInv'
  <2>1. ucopy'.time \in Past
    BY <1>2, TimesTypes DEF UEnd, NoUpload, PastInv
  <2> QED
    BY <1>1, <2>1 DEF PastInv, Past, world, watcher
<1>4. RegistrationInv'
  BY <1>1, RegistrationFrame DEF world
<1>5. NoticedInv'
  BY <1>1, NoticedFrame DEF world
<1>6. WatcherInv'
  BY <1>1, WatcherFrame DEF watcher
<1>7. UploaderInv'
  <2>1. service.sent \subseteq service'.sent
        /\ (o = "ok" => ucopy.time \in service'.sent /\ service'.last = ucopy)
    BY <1>1, ReceiveFields
  <2>2. coll.lastReported < coll.lastRun
    BY <1>1 DEF UploaderInv
  <2>3. coll.lastRun # coll.lastReported
    BY <2>2 DEF TypeOK, Past, Never
  <2>4. CASE o = "ok" /\ upc' = "store" /\ UNCHANGED <<uqueued, ucopy, ufresh>>
    BY <1>1, <2>1, <2>2, <2>3, <2>4 DEF UploaderInv
  <2>5. CASE UEnd(TRUE)
    BY <1>1, <2>1, <2>2, <2>3, <2>5 DEF UploaderInv, UEnd
  <2> QED
    BY <1>2, <2>4, <2>5
<1> QED
  BY <1>3, <1>4, <1>5, <1>6, <1>7

LEMMA StoreReportedInv ==
  ASSUME IndInv, TypeOK', NEW o \in Outcomes, StoreReported(o) PROVE IndInv'
<1> USE DEF IndInv
<1>1. UNCHANGED <<world, registration, history, hpc, hcur, htodo, hold, hnew, hstart>>
      /\ upc = "store" /\ UEnd(TRUE)
  BY DEF StoreReported, UOthers, history
<1>2. \/ coll' = coll /\ hfresh' = hfresh
      \/ ufresh /\ coll' = Reported(coll) /\ hfresh' = FALSE
  BY DEF StoreReported, Reported
<1>3. coll'.exists = coll.exists /\ coll'.refs = coll.refs
      /\ coll'.observed = coll.observed /\ coll'.entries = coll.entries
      /\ coll'.lastRun = coll.lastRun
  BY <1>2, ReportedFields
<1>4. UNCHANGED coll \/ coll'.lastReported = coll.lastRun
  BY <1>2, ReportedFields, UploadCopy DEF UploaderInv
<1>5. PastInv'
  <2>1. coll'.lastReported <= coll'.lastRun
    BY <1>3, <1>4 DEF TypeOK, Past, Never, PastInv
  <2>2. ucopy'.time \in Past
    BY <1>1, TimesTypes DEF UEnd, NoUpload
  <2> QED
    BY <1>1, <1>3, <2>1, <2>2 DEF PastInv, Past, world, history
<1>6. RegistrationInv'
  BY <1>1, <1>3, RegistrationFrame DEF world, history
<1>7. NoticedInv'
  BY <1>1, <1>3, NoticedFrame DEF world, history
<1>8. WatcherInv'
  BY <1>1, <1>2, <1>3, WatcherFrame DEF history
<1>9. UploaderInv'
  <2>1. upc' = "idle" /\ uqueued' /\ ~ufresh'
    BY <1>1 DEF UEnd
  <2>2. CASE coll' = coll
    BY <1>1, <2>1, <2>2 DEF UploaderInv, history
  <2>3. CASE ufresh /\ coll' = Reported(coll)
    <3>1. ucopy = [time |-> coll.lastRun, failed |-> Failures(coll.entries)]
          /\ ucopy.time \in service.sent /\ service.last = ucopy
      BY <1>1, <2>3 DEF UploaderInv
    <3>2. coll'.lastReported = ucopy.time
      BY <2>3, ReportedFields
    <3> QED
      BY <1>1, <1>3, <2>1, <3>1, <3>2 DEF UploaderInv, history
  <2> QED
    BY <1>2, <2>2, <2>3
<1> QED
  BY <1>5, <1>6, <1>7, <1>8, <1>9

LEMMA UploaderKeepsInv ==
  ASSUME IndInv, TypeOK', Uploader PROVE IndInv'
BY StartUploadInv, UploadInv, StoreReportedInv DEF Uploader

-----------------------------------------------------------------------------
(***************************************************************************)
(* The world keeps the invariant.                                          *)
(***************************************************************************)
LEMMA TickInv ==
  ASSUME IndInv, TypeOK', Tick PROVE IndInv'
<1> USE DEF IndInv
<1>1. UNCHANGED <<inst, check, coll, registration, watcher, uploader, history>>
  BY DEF Tick
<1>2. PastInv'
  BY <1>1, PastGrows DEF PastInv, watcher, uploader, history
<1>3. RegistrationInv'
  BY <1>1, RegistrationFrame DEF history
<1>4. NoticedInv'
  BY <1>1, NoticedFrame DEF history
<1>5. WatcherInv'
  BY <1>1, WatcherFrame DEF watcher, history
<1>6. UploaderInv'
  BY <1>1, UploaderFrame DEF uploader, history
<1> QED
  BY <1>2, <1>3, <1>4, <1>5, <1>6

LEMMA InstanceChangesInv ==
  ASSUME IndInv, TypeOK', NEW i \in Instances, InstanceChanges(i) PROVE IndInv'
<1> USE DEF IndInv
<1>1. UNCHANGED <<clock, check, coll, rpc, rtodo, rrefs, watcher, uploader, history>>
      /\ rqueued' = TRUE
  BY DEF InstanceChanges
<1>2. PastInv'
  BY <1>1, PastFrame DEF watcher, uploader, history, PastInv
<1>3. RegistrationInv'
  BY <1>1 DEF RegistrationInv, RegisteredAtRest
<1>4. NoticedInv'
  BY <1>1, NoticedFrame DEF history
<1>5. WatcherInv'
  BY <1>1, WatcherFrame DEF watcher, history
<1>6. UploaderInv'
  BY <1>1, UploaderFrame DEF uploader, history
<1> QED
  BY <1>2, <1>3, <1>4, <1>5, <1>6

LEMMA ReportHealthInv ==
  ASSUME IndInv, TypeOK', NEW w \in Watched, ReportHealth(w) PROVE IndInv'
<1> USE DEF IndInv
<1>1. UNCHANGED <<clock, inst, coll, registration, watcher, uploader, service,
                  skipped, again>>
  BY DEF ReportHealth
\* A failure that was noticed stays so or is forgotten.
<1>2. \A v \in Watched :
        noticed'[v] # Never => noticed'[v] = noticed[v] /\ check'[v].status = "Failed"
  <2>1. PICK s \in {"Ok", "Failed"} :
          /\ check' = [check EXCEPT ![w].status = s, ![w].updated = clock]
          /\ noticed' = [noticed EXCEPT ![w] = IF s = "Ok" THEN Never ELSE @]
    BY ReportHealthCase
  <2>2. check'[w].status = s
    BY <2>1 DEF TypeOK, Checks
  <2>3. \A v \in Watched \ {w} : check'[v] = check[v] /\ noticed'[v] = noticed[v]
    BY <2>1 DEF TypeOK
  <2>4. noticed'[w] = IF s = "Ok" THEN Never ELSE noticed[w]
    BY <2>1 DEF TypeOK
  <2> QED
    BY <2>2, <2>3, <2>4 DEF NoticedInv
<1>3. PastInv'
  BY <1>1, <1>2, TimesTypes DEF PastInv, Past, watcher, uploader
<1>4. RegistrationInv'
  BY <1>1, RegistrationFrame
<1>5. NoticedInv'
  BY <1>1, <1>2 DEF NoticedInv
<1>6. WatcherInv'
  BY <1>1, <1>2 DEF WatcherInv, watcher
<1>7. UploaderInv'
  BY <1>1, UploaderFrame DEF uploader
<1> QED
  BY <1>3, <1>4, <1>5, <1>6, <1>7

LEMMA ChangeClusterInv ==
  ASSUME IndInv, TypeOK', NEW w \in Watched, ChangeCluster(w) PROVE IndInv'
<1> USE DEF IndInv
<1>1. UNCHANGED <<clock, inst, coll, registration, watcher, uploader, history>>
  BY DEF ChangeCluster
<1>2. PastInv'
  BY <1>1, PastFrame DEF watcher, uploader, history, PastInv
<1>3. RegistrationInv'
  BY <1>1, RegistrationFrame DEF history
<1>4. NoticedInv'
  <2>1. \A v \in Watched : check'[v].status = check[v].status
    BY DEF ChangeCluster, TypeOK, Checks
  <2> QED
    BY <1>1, <2>1 DEF NoticedInv, history
<1>5. WatcherInv'
  BY <1>1, WatcherFrame DEF watcher, history
<1>6. UploaderInv'
  BY <1>1, UploaderFrame DEF uploader, history
<1> QED
  BY <1>2, <1>3, <1>4, <1>5, <1>6

LEMMA RestartInv ==
  ASSUME IndInv, TypeOK', Restart PROVE IndInv'
<1> USE DEF IndInv
<1>1. UNCHANGED <<world, coll, history>> /\ RIdle /\ HIdle /\ UEnd(coll.exists)
      /\ rqueued' = SomeInstance
  BY DEF Restart
<1>2. PastInv'
  BY <1>1, TimesTypes, NoEntryTypes
     DEF PastInv, Past, HIdle, UEnd, NoUpload, world, history
<1>3. RegistrationInv'
  BY <1>1 DEF RegistrationInv, RegisteredAtRest, RIdle, SomeInstance, world
<1>4. NoticedInv'
  BY <1>1, NoticedFrame DEF world, history
<1>5. WatcherInv'
  BY <1>1, IdleWatcher
<1>6. UploaderInv'
  BY <1>1 DEF UploaderInv, UEnd, PastInv, history
<1> QED
  BY <1>2, <1>3, <1>4, <1>5, <1>6

LEMMA StutterInv ==
  ASSUME IndInv, TypeOK', UNCHANGED vars PROVE IndInv'
<1> USE DEF IndInv
<1>1. UNCHANGED <<world, coll, registration, watcher, uploader, history>>
  BY DEF vars
<1>2. PastInv'
  BY <1>1, PastFrame DEF world, watcher, uploader, history, PastInv
<1>3. RegistrationInv' /\ NoticedInv'
  BY <1>1, RegistrationFrame, NoticedFrame DEF world, history
<1>4. WatcherInv' /\ UploaderInv'
  BY <1>1, WatcherFrame, UploaderFrame DEF watcher, uploader, history
<1> QED
  BY <1>2, <1>3, <1>4

-----------------------------------------------------------------------------
(***************************************************************************)
(* The theorems.                                                           *)
(***************************************************************************)
LEMMA InitInv == Init => IndInv
<1> SUFFICES ASSUME Init PROVE IndInv
  OBVIOUS
<1> USE DEF Init
<1>1. TypeOK
  <2>1. 1 \in Times /\ Never \in Times
    BY TimesAssumption DEF Times, Never
  <2>2. clock \in 1 .. MaxTime /\ 0 \in 0 .. MaxChanges /\ 0 \in 0 .. MaxFaults
        /\ Never \in Past
    BY TimesAssumption, BoundsAssumption DEF Past, Never
  <2>3. [found |-> "one", status |-> "Ok", updated |-> 1] \in Checks
    BY <2>1 DEF Checks
  <2>4. coll \in Collections
    BY <2>1, NoEntryTypes DEF Collections
  <2>5. inst \in [Instances -> InstanceStates]
    BY InstanceStateTypes
  <2> QED
    BY <2>1, <2>2, <2>3, <2>4, <2>5, NoEntryTypes DEF TypeOK, SomeInstance
<1>2. PastInv
  BY <1>1, TimesTypes, NoEntryTypes DEF PastInv, NoUpload, Never
<1>3. RegistrationInv
  BY DEF RegistrationInv, RegisteredAtRest
<1>4. NoticedInv /\ WatcherInv
  BY DEF NoticedInv, WatcherInv
<1>5. UploaderInv
  BY DEF UploaderInv
<1> QED
  BY <1>1, <1>2, <1>3, <1>4, <1>5 DEF IndInv

LEMMA RegistrationKeepsInv ==
  ASSUME IndInv, TypeOK', Registration PROVE IndInv'
BY ListInstancesInv, CheckInstallationInv, StoreRefsInv DEF Registration

LEMMA WorldKeepsInv ==
  ASSUME IndInv, TypeOK', World PROVE IndInv'
BY TickInv, RestartInv, InstanceChangesInv, ReportHealthInv, ChangeClusterInv DEF World

LEMMA Invariant == Spec => []IndInv
<1>1. IndInv /\ [Next]_vars => IndInv'
  BY TypesKept, RegistrationKeepsInv, WatcherKeepsInv, UploaderKeepsInv,
     WorldKeepsInv, StutterInv DEF Next
<1> QED
  BY InitInv, <1>1, PTL DEF Spec

\* Every variable of the three controllers and of their world holds a value of
\* its kind, and no time in the collection is in the future.
THEOREM TypeCorrect == Spec => []TypeOK
<1>1. IndInv => TypeOK
  BY DEF IndInv
<1> QED
  BY <1>1, Invariant, PTL

\* reconcile of AVUploader stores lastReportedTime only for a run that the AV
\* service has received.
THEOREM NothingTakenForReported == Spec => []ReportedWasUploaded
<1>1. IndInv => ReportedWasUploaded
  BY DEF IndInv, UploaderInv, ReportedWasUploaded
<1> QED
  BY <1>1, Invariant, PTL

\* When AVUploader has nothing to do for a status of the current spec, the AV
\* service has the failures of that status, unless its time was that of the
\* run before.
THEOREM ServiceIsCurrent == Spec => []UploadIsCurrent
<1>1. IndInv => UploadIsCurrent
  BY DEF IndInv, UploaderInv, UploadIsCurrent
<1> QED
  BY <1>1, Invariant, PTL

\* When AVMonitorRegistration has nothing to do, it has registered exactly the
\* Instances it should, but for those it failed to load the Installation of.
THEOREM RegistrationSettles == Spec => []RegisteredAtRest
<1>1. IndInv => RegisteredAtRest
  BY DEF IndInv, RegistrationInv
<1> QED
  BY <1>1, Invariant, PTL

\* A run of HealthWatcher that starts more than the timeout after a failure was
\* first stored stores it as failed, whatever happened to the collection and
\* the process in between.
THEOREM FailuresSurface == Spec => FailureSurfaces
<1> DEFINE Surfaces ==
      \A w \in Watched :
        /\ coll'.entries # coll.entries /\ hpc = "store"
        /\ noticed[w] # Never /\ noticed'[w] # Never
        /\ hstart - noticed[w] > Timeout
        => coll'.entries[w].status = "Failed"
<1>1. ASSUME IndInv, Next PROVE Surfaces
  <2> USE <1>1 DEF IndInv
  <2> SUFFICES ASSUME NEW w \in Watched,
                      coll'.entries # coll.entries, hpc = "store",
                      noticed[w] # Never, noticed'[w] # Never,
                      hstart - noticed[w] > Timeout
               PROVE  coll'.entries[w].status = "Failed"
    OBVIOUS
  <2>1. CASE Registration
    <3>1. coll'.entries = coll.entries
      BY <2>1, StoreRefsCases, ListedFields
         DEF Registration, ListInstances, CheckInstallation
    <3> QED
      BY <3>1
  <2>2. CASE Uploader
    <3>1. \A o \in Outcomes : StoreReported(o) => coll' = coll \/ coll' = Reported(coll)
      BY DEF StoreReported, Reported
    <3>2. coll'.entries = coll.entries
      BY <2>2, <3>1, ReportedFields DEF Uploader, StartUpload, Upload
    <3> QED
      BY <3>2
  <2>3. CASE World
    BY <2>3 DEF World, Tick, Restart, InstanceChanges, ReportHealth, ChangeCluster
  <2>4. CASE Watcher
    <3>1. StartRun \/ CollectStep \/ (\E i \in Instances : InstanceMissing(i)) => coll' = coll
      BY DEF StartRun, CollectStep, HUnchanged, InstanceMissing, AbortRun
    <3>2. PICK o \in Outcomes : StoreStatus(o)
      BY <2>4, <3>1, WatcherSteps
    <3>3. hfresh /\ coll' = Updated(coll) /\ hnew[w].since # Never
      BY <3>2, StoreStatusCases
    <3>4. coll'.entries = hnew
      BY <3>3, UpdatedFields
    <3> QED
      BY <3>3, <3>4 DEF WatcherInv
  <2> QED
    BY <2>1, <2>2, <2>3, <2>4 DEF Next
<1>2. IndInv /\ [Next]_vars => [Surfaces]_vars
  BY <1>1
<1> QED
  BY <1>2, Invariant, PTL DEF Spec, FailureSurfaces
=============================================================================
