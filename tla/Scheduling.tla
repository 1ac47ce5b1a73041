----------------------------- MODULE Scheduling -----------------------------
(***************************************************************************)
(* How a LandscaperDeployment is given a ServiceTargetConfig: by the rules *)
(* of the TargetScheduling resource or, if none matches, among the         *)
(* unrestricted ones by priority and usage.                                *)
(*                                                                         *)
(* The rules come from the webhook, if it is enabled.  The usage of a      *)
(* config is the list in its status, to which the LandscaperDeployment     *)
(* controller adds an Instance some time after it has chosen the config.   *)
(* An Instance that is deleted is taken off the list some time before it   *)
(* is gone, or never: see module LandscaperDeployments.                    *)
(***************************************************************************)
EXTENDS Selectors, SequencesExt

CONSTANTS
  Configs,     \* names of ServiceTargetConfigs
  Config,      \* their visibility, restriction and priority
  NoConfig,
  RuleLists,   \* the rules the TargetScheduling resource may have
  IntBound,    \* integers are from -IntBound to IntBound - 1
  MaxEdits,    \* bound: changes of the rules
  MaxRemovals  \* bound: Instances deleted

Int64 == -IntBound .. IntBound - 1

Rules == [priority : Int64, configs : SUBSET Configs, selector : Seq(Terms)]

ASSUME NamesAssumption ==
  IsFiniteSet(Deployments) /\ IsFiniteSet(Configs) /\ NoConfig \notin Configs
ASSUME ConfigAssumption ==
  Config \in [Configs -> [visible : BOOLEAN, restricted : BOOLEAN, priority : Int64]]
ASSUME RulesAssumption == RuleLists \subseteq Seq(Rules)
ASSUME BoundsAssumption ==
  IntBound \in Nat \ {0} /\ MaxEdits \in Nat /\ MaxRemovals \in Nat

VARIABLES
  checked,   \* the webhook looks at the TargetScheduling
  rules,     \* of the TargetScheduling; none is like no such resource
  refs,      \* status.instanceRefs of each config: those of deployments here,
  stale,     \* and the number of those whose Instance is gone
  assigned,  \* the config of each deployment's Instance
  leaving,   \* the deployments whose Instance is being deleted
  failed,    \* the deployments whose last scheduling failed
  steady,    \* history: only the default scheduling has assigned Instances,
             \* all those before it listed, without an overflow
  removed,   \* history: how many Instances of each config were ever deleted
  edits

lists == <<refs, stale>>

instances == <<assigned, leaving, removed>>

vars == <<checked, rules, lists, instances, failed, steady, edits>>

-----------------------------------------------------------------------------
(***************************************************************************)
(* The choice.                                                             *)
(***************************************************************************)
Wrap(n) == ((n + IntBound) % (2 * IntBound)) - IntBound

\* The length of the list.
Usage(c) == Cardinality(refs[c]) + stale[c]

\* Mutant: usage is compared before priority.
Less_Usage(l, r) == Usage(l) < Usage(r)

\* The order: l is before r.
Less(l, r) ==
  Wrap(Config[l].priority * (Usage(r) + 1)) >
    Wrap(Config[r].priority * (Usage(l) + 1))

\* A product of priority and usage of these configs does not fit.
Overflow(configs) ==
  \E c, e \in configs : LET p == Config[c].priority * (Usage(e) + 1)
                       IN p # Wrap(p)

\* c moves up past the elements that it is before.
Insert(s, c) ==
  LET at == Min({n \in 1 .. Len(s) + 1 : \A k \in n .. Len(s) : Less(c, s[k])})
  IN InsertAt(s, at, c)

Sorted(s) ==
  LET sorted[n \in 0 .. Len(s)] ==
        IF n = 0 THEN <<>> ELSE Insert(sorted[n - 1], s[n])
  IN sorted

SortServiceTargetConfigs(s) == Sorted(s)[Len(s)]

\* The configs come out of a map, that is in any order.
PickServiceTargetConfig(configs) ==
  {SortServiceTargetConfigs(s)[1] : s \in SetToSeqs(configs)}

\* A selector is only evaluated if the priority of its rule may still count.
Counts(found, rule) == rule.priority >= found.highest

\* Mutant: a selector that fails is one that does not match.
Fails_Tolerant(found, rule, d) == rule.configs = {} \/ rule.priority < 0

Fails(found, rule, d) ==
  \/ rule.configs = {} \/ rule.priority < 0
  \/ Counts(found, rule) /\ EvaluateSelectorList(rule.selector, d) = "error"

\* Mutant: configs of a second rule of the same priority replace the first.
Candidates_Replace(found, rule) == rule.configs

\* The configs of a rule with higher priority replace those found so far.
Candidates(found, rule) ==
  rule.configs \cup (IF rule.priority = found.highest THEN found.candidates ELSE {})

\* One rule, after those before it.
Consider(found, rule, d) ==
  IF found.error \/ Fails(found, rule, d) THEN [found EXCEPT !.error = TRUE]
  ELSE IF Counts(found, rule) /\ EvaluateSelectorList(rule.selector, d) = "match"
  THEN [error |-> FALSE, highest |-> rule.priority,
        candidates |-> Candidates(found, rule)]
  ELSE found

NothingYet == [error |-> FALSE, highest |-> -1, candidates |-> {}]

Considered(d) ==
  LET found[n \in 0 .. Len(rules)] ==
        IF n = 0 THEN NothingYet ELSE Consider(found[n - 1], rules[n], d)
  IN found

EvaluateRules(d) == Considered(d)[Len(rules)]

Visible == {c \in Configs : Config[c].visible}

GetUnrestricted == {c \in Visible : ~Config[c].restricted}

\* The configs of the default scheduling.
Pool == {c \in Configs : Config[c].visible /\ ~Config[c].restricted}

\* The configs to choose from, of those that exist.
ConfigsFor(d) ==
  LET c == EvaluateRules(d).candidates IN
  (IF c = {} THEN GetUnrestricted ELSE c) \cap Visible

-----------------------------------------------------------------------------
(***************************************************************************)
(* The webhook.                                                            *)
(***************************************************************************)
ValidRule(rule) ==
  /\ rule.priority >= 0 /\ rule.configs # {}
  /\ \A i \in DOMAIN rule.selector : Valid[rule.selector[i]]

Accepted(list) == checked => \A n \in DOMAIN list : ValidRule(list[n])

-----------------------------------------------------------------------------
Init ==
  /\ checked \in BOOLEAN
  /\ rules \in {list \in RuleLists : Accepted(list)}
  /\ refs = [c \in Configs |-> {}] /\ stale = [c \in Configs |-> 0]
  /\ assigned = [d \in Deployments |-> NoConfig] /\ leaving = {}
  /\ removed = [c \in Configs |-> 0]
  /\ failed = {} /\ steady = TRUE /\ edits = 0

\* The deployments of c whose Instance is not being deleted.
Serving(c) == {d \in Deployments \ leaving : assigned[d] = c}

AllListed == \A c \in Configs : Serving(c) \subseteq refs[c]

\* FindServiceTargetConfig, and the Instance is created.
Schedule(d) ==
  /\ assigned[d] = NoConfig
  /\ ~EvaluateRules(d).error /\ ConfigsFor(d) # {}
  /\ \E c \in PickServiceTargetConfig(ConfigsFor(d)) :
       assigned' = [assigned EXCEPT ![d] = c]
  /\ failed' = failed \ {d}
  /\ steady' = (/\ steady /\ EvaluateRules(d).candidates = {}
               /\ AllListed /\ ~Overflow(Pool))
  /\ UNCHANGED <<checked, rules, lists, leaving, removed, edits>>

ScheduleFails(d) ==
  /\ assigned[d] = NoConfig
  /\ EvaluateRules(d).error \/ ConfigsFor(d) = {}
  /\ failed' = failed \cup {d}
  /\ UNCHANGED <<checked, rules, lists, instances, steady, edits>>

\* The deletion of the Instance may already have begun.
List(d) ==
  /\ assigned[d] # NoConfig /\ d \notin refs[assigned[d]]
  /\ refs' = [refs EXCEPT ![assigned[d]] = @ \cup {d}]
  /\ UNCHANGED <<checked, rules, stale, instances, failed, steady, edits>>

\* The Instance is deleted, with its deployment or on its own.
DeleteInstance(d) ==
  /\ MapThenSumSet(LAMBDA c : removed[c], Configs) < MaxRemovals
  /\ assigned[d] # NoConfig /\ d \notin leaving
  /\ leaving' = leaving \cup {d}
  /\ removed' = [removed EXCEPT ![assigned[d]] = @ + 1]
  /\ UNCHANGED <<checked, rules, lists, assigned, failed, steady, edits>>

\* The Instance is taken off the list; its finalizer is still there.
RemoveEntry(d) ==
  /\ d \in leaving /\ d \in refs[assigned[d]]
  /\ refs' = [refs EXCEPT ![assigned[d]] = @ \ {d}]
  /\ UNCHANGED <<checked, rules, stale, instances, failed, steady, edits>>

\* The Instance is gone and the name may be used again.  An entry stays for
\* good if it was written too late or the Instance had no finalizer.
RemoveInstance(d) ==
  /\ d \in leaving
  /\ stale' = [stale EXCEPT ![assigned[d]] = IF d \in refs[assigned[d]] THEN @ + 1 ELSE @]
  /\ refs' = [refs EXCEPT ![assigned[d]] = @ \ {d}]
  /\ assigned' = [assigned EXCEPT ![d] = NoConfig]
  /\ leaving' = leaving \ {d}
  /\ UNCHANGED <<checked, rules, removed, failed, steady, edits>>

EditRules ==
  /\ edits < MaxEdits /\ edits' = edits + 1
  /\ rules' \in {list \in RuleLists \ {rules} : Accepted(list)}
  /\ UNCHANGED <<checked, lists, instances, failed, steady>>

Next ==
  \/ EditRules
  \/ \E d \in Deployments :
       \/ Schedule(d) \/ ScheduleFails(d) \/ List(d)
       \/ DeleteInstance(d) \/ RemoveEntry(d) \/ RemoveInstance(d)

Spec == Init /\ [][Next]_vars

-----------------------------------------------------------------------------
(***************************************************************************)
(* Properties.                                                             *)
(***************************************************************************)
\* The types of the variables.
TypeOK ==
  /\ checked \in BOOLEAN /\ rules \in RuleLists
  /\ refs \in [Configs -> SUBSET Deployments] /\ stale \in [Configs -> Nat]
  /\ assigned \in [Deployments -> Configs \cup {NoConfig}]
  /\ leaving \subseteq Deployments /\ removed \in [Configs -> Nat]
  /\ failed \subseteq Deployments
  /\ steady \in BOOLEAN /\ edits \in 0 .. MaxEdits

\* The configs the documentation chooses from: those of the matching rules of
\* highest priority, whatever the order of the rules, of which the invisible
\* ones are as if they did not exist; the unrestricted ones if no rule matches.
Documented(d) ==
  LET matching == {n \in DOMAIN rules : EvaluateSelectorList(rules[n].selector, d) = "match"}
      top == {n \in matching : \A m \in matching :
                                 rules[m].priority <= rules[n].priority}
  IN IF matching = {} THEN {c \in Visible : ~Config[c].restricted}
     ELSE (UNION {rules[n].configs : n \in top}) \cap Visible

\* The configs of highest priority / (number of Instances + 1).
Highest(configs) ==
  {c \in configs : \A e \in configs :
     Config[c].priority * (Usage(e) + 1) >=
       Config[e].priority * (Usage(c) + 1)}

\* A deployment is assigned one of the configs that the documentation chooses
\* from, whatever the order of the rules, and of those one with the highest
\* number, as the comment on PickServiceTargetConfig says, unless a product of
\* int64 numbers wraps.
PickAsDocumented ==
  [][\A d \in Deployments :
       assigned[d] = NoConfig /\ assigned'[d] # NoConfig =>
         /\ assigned'[d] \in Documented(d)
         /\ ~Overflow(Documented(d)) => assigned'[d] \in Highest(Documented(d))]_vars

Malformed(rule, d) ==
  rule.configs = {} \/ rule.priority < 0 \/ EvaluateSelectorList(rule.selector, d) = "error"

\* A scheduling fails because of a malformed rule or because there is no
\* config, and not otherwise; and a malformed rule whose priority may count
\* is never passed over.
FailureJustified ==
  [][\A d \in Deployments :
       /\ d \in failed' \ failed =>
            \/ Documented(d) = {}
            \/ \E n \in DOMAIN rules : Malformed(rules[n], d)
       /\ assigned[d] = NoConfig /\ assigned'[d] # NoConfig =>
            \A n \in DOMAIN rules : Malformed(rules[n], d) =>
              \E m \in 1 .. n - 1 : /\ EvaluateSelectorList(rules[m].selector, d) = "match"
                                    /\ rules[m].priority > rules[n].priority]_vars

\* The webhook and the scheduler agree on what is malformed, empty lists of
\* terms excepted: what the one accepts does not make the other fail as long
\* as there is a config.
AcceptedSchedules ==
  [][\A d \in Deployments :
       checked /\ d \in failed' \ failed =>
         \/ Documented(d) = {}
         \/ \E n \in DOMAIN rules : \E i \in DOMAIN rules[n].selector :
              HasEmptyList[rules[n].selector[i]]]_vars

NothingScheduled ==
  /\ \A d \in Deployments : assigned[d] = NoConfig
  /\ failed = {} /\ removed = [c \in Configs |-> 0]

\* What the scheduler makes of a term is what the term means in the
\* documentation, for every term that a first rule may have, malformed or not;
\* and the webhook only lets a term pass that has a meaning.
EvaluatedAsMeant ==
  rules = <<>> /\ edits = 0 /\ NothingScheduled =>
    \A t \in Terms : \A d \in Deployments : NoGuess(t, d) /\ AcceptedIsDecided(t, d)

\* How many of the Instances of c that were deleted may still be counted.
Lingering(c) == Cardinality({d \in leaving : assigned[d] = c}) + stale[c]

\* The default scheduling shares out fairly, as module FairShare has it.
Share == INSTANCE FairShare WITH
  Targets <- Pool,
  Priority <- [c \in Pool |-> Config[c].priority],
  load <- [c \in Pool |-> Cardinality(Serving(c))],
  lingering <- [c \in Pool |-> Lingering(c)],
  removed <- [c \in Pool |-> removed[c]]

\* Every step is one of module FairShare, or changes nothing that it sees: as
\* long as nothing but the default scheduling has assigned the deployments,
\* when all before were listed, it counts every deployment and at most those
\* deleted ones whose Instance or entry is still there, and shares out in
\* proportion to the priorities up to deletions (FairShare!Balanced).
SharesFairly == Share!Spec
=============================================================================
