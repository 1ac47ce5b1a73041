-------------------------- MODULE SchedulingProofs --------------------------
(***************************************************************************)
(* That the scheduling chooses what the documentation says, fails only if  *)
(* it has a reason to, and shares deployments out fairly, for all rules,   *)
(* terms and configs; and that a term is evaluated as it is meant.         *)
(*                                                                         *)
(* The recursive functions of the modules Selectors and Scheduling need    *)
(* induction.  It is stated here about sets: a set of natural numbers that *)
(* has 0 and the successors of its elements has all of them.               *)
(***************************************************************************)
EXTENDS Scheduling, FiniteSetTheorems, WellFoundedInduction, TLAPS

-----------------------------------------------------------------------------
(***************************************************************************)
(* Induction and recursion.                                                *)
(***************************************************************************)
\* Every set of natural numbers that is not empty has a least element.
LEMMA LeastNumber ==
  ASSUME NEW T, T \subseteq Nat, T # {}
  PROVE  \E n \in T : \A m \in T : n <= m
<1> DEFINE Below(n) == 1 .. n
           R == StrictSubsetOrdering(Nat)
           U == {Below(n) : n \in T}
<1>1. IsWellFoundedOn(R, FiniteSubsetsOf(Nat))
  BY FS_StrictSubsetOrderingWellFounded
<1>2. \A n \in Nat : Below(n) \in FiniteSubsetsOf(Nat)
  BY FS_Interval DEF FiniteSubsetsOf
<1>3. PICK n \in T : \A m \in T : <<Below(m), Below(n)>> \notin R
  <2>1. U \subseteq FiniteSubsetsOf(Nat) /\ U # {}
    BY <1>2
  <2>2. \E x \in U : \A y \in U : <<y, x>> \notin R
    <3> HIDE DEF R, U
    <3> QED
      BY <1>1, <2>1, WFMin
  <2>3. QED
    BY <2>2
<1>4. ASSUME NEW m \in T, m < n PROVE FALSE
  <2>1. Below(m) \subseteq Below(n) /\ n \in Below(n) /\ n \notin Below(m)
    BY <1>4
  <2>2. Below(m) \in FiniteSubsetsOf(Nat) /\ Below(n) \in FiniteSubsetsOf(Nat)
    BY <1>2
  <2>3. Below(m) \in SUBSET Below(n)
    BY <2>1
  <2> HIDE DEF Below
  <2>4. QED
    BY <1>3, <2>1, <2>2, <2>3 DEF StrictSubsetOrdering, FiniteSubsetsOf
<1>5. QED
  BY <1>4

\* That element is the minimum.
LEMMA MinIsLeast ==
  ASSUME NEW T, T \subseteq Nat, T # {}
  PROVE  Min(T) \in T /\ \A m \in T : Min(T) <= m
BY LeastNumber DEF Min

\* Induction over the natural numbers.
LEMMA SetInduction ==
  ASSUME NEW T, 0 \in T, \A n \in Nat : n \in T => n + 1 \in T
  PROVE  Nat \subseteq T
<1> SUFFICES ASSUME Nat \ T # {} PROVE FALSE
  OBVIOUS
<1>1. PICK n \in Nat \ T : \A m \in Nat \ T : n <= m
  BY LeastNumber
<1>2. n # 0 /\ n - 1 \in Nat
  BY <1>1
<1>3. n - 1 \in T
  BY <1>1, <1>2
<1>4. QED
  BY <1>2, <1>3

\* The function that G makes, one number after the other, from a first value.
Iterates(f, V, v0, N, G) ==
  /\ f \in [0 .. N -> V] /\ f[0] = v0
  /\ \A n \in 1 .. N : f[n] = G[<<n, f[n - 1]>>]

\* There is one.
LEMMA PrimitiveRecursion ==
  ASSUME NEW V, NEW v0 \in V, NEW N \in Nat, NEW G \in [(1 .. N) \X V -> V]
  PROVE  \E f : Iterates(f, V, v0, N, G)
<1> DEFINE Good(m) == \E f : Iterates(f, V, v0, m, G)
           T == {m \in Nat : m <= N => Good(m)}
<1>1. Good(0)
  <2>1. [n \in 0 .. 0 |-> v0] \in [0 .. 0 -> V] /\ [n \in 0 .. 0 |-> v0][0] = v0
    OBVIOUS
  <2>2. 1 .. 0 = {}
    OBVIOUS
  <2>3. QED
    BY <2>1, <2>2 DEF Iterates
<1>2. ASSUME NEW m \in Nat, m + 1 <= N, Good(m) PROVE Good(m + 1)
  <2>1. PICK f : Iterates(f, V, v0, m, G)
    BY <1>2
  <2> USE DEF Iterates
  <2> DEFINE g == [n \in 0 .. m + 1 |-> IF n = m + 1 THEN G[<<n, f[m]>>] ELSE f[n]]
  <2>2. f[m] \in V /\ G[<<m + 1, f[m]>>] \in V
    BY <1>2, <2>1
  <2>3. g \in [0 .. m + 1 -> V]
    BY <2>1, <2>2
  <2>4. \A n \in 1 .. m + 1 : g[n] = G[<<n, g[n - 1]>>]
    <3> TAKE n \in 1 .. m + 1
    <3>1. CASE n = m + 1
      BY <3>1, <1>2
    <3>2. CASE n # m + 1
      <4>1. n \in 1 .. m /\ g[n] = f[n] /\ n - 1 \in 0 .. m /\ g[n - 1] = f[n - 1]
        BY <3>2
      <4>2. QED
        BY <2>1, <4>1
    <3>3. QED
      BY <3>1, <3>2
  <2>5. g[0] = v0
    BY <2>1
  <2> HIDE DEF g
  <2>6. QED
    BY <2>3, <2>4, <2>5
<1> HIDE DEF Good
<1>3. Nat \subseteq T
  <2>1. 0 \in T
    BY <1>1
  <2>2. \A n \in Nat : n \in T => n + 1 \in T
    BY <1>2
  <2> HIDE DEF T
  <2>3. QED
    BY <2>1, <2>2, SetInduction
<1>4. Good(N)
  BY <1>3
<1>5. QED
  BY <1>4 DEF Good

-----------------------------------------------------------------------------
(***************************************************************************)
(* The rules.                                                              *)
(***************************************************************************)
Founds == [error : BOOLEAN, highest : Int, candidates : SUBSET Configs]

\* The fields of a rule.
LEMMA RuleFields ==
  \A rule \in Rules : /\ rule.priority \in Int /\ rule.configs \in SUBSET Configs
                      /\ rule.selector \in Seq(Terms)
BY BoundsAssumption DEF Rules, Int64

\* What is found is well-formed, whatever the rule.
LEMMA ConsiderType ==
  ASSUME NEW d \in Deployments, NEW found \in Founds, NEW rule \in Rules
  PROVE  Consider(found, rule, d) \in Founds
<1>1. rule.priority \in Int /\ rule.configs \in SUBSET Configs
  BY RuleFields
<1>2. Candidates(found, rule) \in SUBSET Configs
  BY <1>1 DEF Candidates, Founds
<1>3. [found EXCEPT !.error = TRUE] \in Founds
  BY DEF Founds
<1>4. [error |-> FALSE, highest |-> rule.priority,
       candidates |-> Candidates(found, rule)] \in Founds
  BY <1>1, <1>2 DEF Founds
<1>5. QED
  BY <1>3, <1>4 DEF Consider

\* The rules are considered one after the other.
LEMMA ConsideredStep ==
  ASSUME NEW d \in Deployments, rules \in Seq(Rules)
  PROVE  /\ Considered(d) \in [0 .. Len(rules) -> Founds]
         /\ Considered(d)[0] = NothingYet
         /\ \A n \in 1 .. Len(rules) :
              Considered(d)[n] = Consider(Considered(d)[n - 1], rules[n], d)
<1> DEFINE N == Len(rules)
           G == [p \in (1 .. N) \X Founds |-> Consider(p[2], rules[p[1]], d)]
           Found(f) == f = [n \in 0 .. Len(rules) |->
                              IF n = 0 THEN NothingYet ELSE Consider(f[n - 1], rules[n], d)]
<1>1. NothingYet \in Founds
  BY DEF NothingYet, Founds
<1>2. \A n \in 1 .. Len(rules) : rules[n] \in Rules
  OBVIOUS
<1>3. G \in [(1 .. N) \X Founds -> Founds]
  <2>1. \A p \in (1 .. Len(rules)) \X Founds : Consider(p[2], rules[p[1]], d) \in Founds
    BY <1>2, ConsiderType
  <2>2. QED
    BY <2>1
<1>4. PICK f : Iterates(f, Founds, NothingYet, N, G)
  <2>1. N \in Nat
    OBVIOUS
  <2> HIDE DEF G, N
  <2>2. QED
    BY <1>1, <1>3, <2>1, PrimitiveRecursion
<1>5. \A n \in 1 .. Len(rules) : f[n] = Consider(f[n - 1], rules[n], d)
  <2> TAKE n \in 1 .. Len(rules)
  <2>1. n - 1 \in 0 .. Len(rules)
    OBVIOUS
  <2> USE DEF Iterates
  <2>2. <<n, f[n - 1]>> \in (1 .. Len(rules)) \X Founds
    BY <1>4, <2>1
  <2>3. QED
    BY <1>4, <2>2
<1>6. Found(f)
  <2>1. \A n \in 0 .. Len(rules) :
          f[n] = IF n = 0 THEN NothingYet ELSE Consider(f[n - 1], rules[n], d)
    <3> TAKE n \in 0 .. Len(rules)
    <3>1. n = 0 \/ n \in 1 .. Len(rules)
      OBVIOUS
    <3>2. QED
      BY <1>4, <1>5, <3>1 DEF Iterates
  <2> HIDE DEF G
  <2>2. f = [n \in 0 .. Len(rules) |-> f[n]]
    BY <1>4 DEF Iterates
  <2>3. QED
    BY <2>1, <2>2
<1>7. Considered(d) = CHOOSE g : Found(g)
  BY DEF Considered
<1>8. Found(Considered(d))
  <2> HIDE DEF Found
  <2>1. QED
    BY <1>6, <1>7
<1>9. \A n \in 0 .. Len(rules) :
        Considered(d)[n] = IF n = 0 THEN NothingYet ELSE Consider(Considered(d)[n - 1], rules[n], d)
  BY <1>8
<1>10. QED
  <2>1. DOMAIN Considered(d) = 0 .. Len(rules)
    BY <1>8
  <2> DEFINE T == {n \in Nat : n <= Len(rules) => Considered(d)[n] \in Founds}
  <2>2. Nat \subseteq T
    <3>1. 0 \in T
      BY <1>1, <1>9
    <3>2. ASSUME NEW n \in Nat, n \in T PROVE n + 1 \in T
      <4> SUFFICES ASSUME n + 1 <= Len(rules) PROVE Considered(d)[n + 1] \in Founds
        OBVIOUS
      <4>1. n + 1 \in 1 .. Len(rules) /\ n + 1 - 1 = n
        OBVIOUS
      <4>2. Considered(d)[n + 1] = Consider(Considered(d)[n], rules[n + 1], d)
        BY <1>9, <4>1
      <4>3. Considered(d)[n] \in Founds
        BY <3>2
      <4>4. QED
        BY <1>2, <4>1, <4>2, <4>3, ConsiderType
    <3> HIDE DEF T
    <3>3. QED
      BY <3>1, <3>2, SetInduction
  <2>3. \A n \in 0 .. Len(rules) : Considered(d)[n] \in Founds
    BY <2>2
  <2>4. Considered(d) \in [0 .. Len(rules) -> Founds]
    <3>1. Considered(d) = [n \in 0 .. Len(rules) |-> Considered(d)[n]]
      BY <1>8
    <3>2. QED
      BY <2>3, <3>1
  <2>5. QED
    BY <1>9, <2>4

\* The result for a rule that counts, and the rules that match.
Matching(n, d) == EvaluateSelectorList(rules[n].selector, d) = "match"

\* What is known once the first n rules have been considered.
Justified(found, n, d) ==
  found.error => \E k \in 1 .. n : Malformed(rules[k], d)

WellFormedSoFar(n) ==
  \A k \in 1 .. n : rules[k].configs # {} /\ rules[k].priority >= 0

HighestSoFar(found, n, d) ==
  /\ found.highest >= -1
  /\ \A k \in 1 .. n : Matching(k, d) => rules[k].priority <= found.highest
  /\ found.highest >= 0 =>
       \E k \in 1 .. n : Matching(k, d) /\ rules[k].priority = found.highest

CandidatesSoFar(found, n, d) ==
  found.candidates =
    UNION {rules[k].configs :
             k \in {m \in 1 .. n : Matching(m, d) /\ rules[m].priority = found.highest}}

Outdone(k, d) ==
  \E m \in 1 .. k - 1 : Matching(m, d) /\ rules[m].priority > rules[k].priority

OutdoneSoFar(n, d) ==
  \A k \in 1 .. n : Malformed(rules[k], d) => Outdone(k, d)

SoFar(found, n, d) ==
  /\ Justified(found, n, d)
  /\ ~found.error => /\ WellFormedSoFar(n) /\ HighestSoFar(found, n, d)
                     /\ CandidatesSoFar(found, n, d) /\ OutdoneSoFar(n, d)

\* One more rule.
LEMMA SoFarStep ==
  ASSUME NEW d \in Deployments, rules \in Seq(Rules),
         NEW n \in Nat, n + 1 \in DOMAIN rules,
         NEW found \in Founds, SoFar(found, n, d)
  PROVE  SoFar(Consider(found, rules[n + 1], d), n + 1, d)
<1> DEFINE rule == rules[n + 1]
           new == Consider(found, rule, d)
           result == EvaluateSelectorList(rule.selector, d)
<1> SUFFICES SoFar(new, n + 1, d)
  OBVIOUS
<1>1. /\ rule \in Rules /\ rule.priority \in Int /\ rule.configs \in SUBSET Configs
      /\ \A k \in 1 .. n : k \in DOMAIN rules /\ rules[k].priority \in Int
      /\ 1 .. n + 1 = 1 .. n \cup {n + 1} /\ n + 1 \notin 1 .. n
  <2>1. rule \in Rules /\ \A k \in 1 .. n : k \in DOMAIN rules /\ rules[k] \in Rules
    OBVIOUS
  <2>2. QED
    BY <2>1, RuleFields
<1>2. /\ found.highest \in Int /\ found.error \in BOOLEAN
  BY DEF Founds
<1>3. CASE found.error
  <2>1. new.error
    BY <1>3 DEF Consider, Founds
  <2>2. Justified(new, n + 1, d)
    BY <1>1, <1>3 DEF SoFar, Justified
  <2> HIDE DEF new
  <2>3. QED
    BY <2>1, <2>2 DEF SoFar
<1>4. CASE ~found.error /\ Fails(found, rule, d)
  <2>1. new.error
    BY <1>4 DEF Consider, Founds
  <2>2. Malformed(rule, d)
    BY <1>4 DEF Fails, Malformed
  <2>3. Justified(new, n + 1, d)
    BY <1>1, <2>2 DEF Justified
  <2> HIDE DEF new
  <2>4. QED
    BY <2>1, <2>3 DEF SoFar
<1>5. CASE ~found.error /\ ~Fails(found, rule, d) /\ Counts(found, rule) /\ result = "match"
  <2>1. /\ new.error = FALSE /\ new.highest = rule.priority
        /\ new.candidates = Candidates(found, rule)
    BY <1>5 DEF Consider
  <2>2. rule.configs # {} /\ rule.priority >= 0 /\ rule.priority >= found.highest
    BY <1>1, <1>5 DEF Fails, Counts
  <2>3. Matching(n + 1, d) /\ ~Malformed(rule, d)
    BY <1>1, <1>5, <2>2 DEF Matching, Malformed
  <2>4. WellFormedSoFar(n + 1)
    BY <1>1, <1>5, <2>2 DEF SoFar, WellFormedSoFar
  <2>5. HighestSoFar(new, n + 1, d)
    <3>1. new.highest >= -1
      BY <1>1, <2>1, <2>2
    <3>2. ASSUME NEW k \in 1 .. n + 1, Matching(k, d) PROVE rules[k].priority <= new.highest
      <4>1. CASE k = n + 1
        BY <1>1, <2>1, <4>1
      <4>2. CASE k \in 1 .. n
        BY <1>1, <1>2, <1>5, <2>1, <2>2, <3>2, <4>2 DEF SoFar, HighestSoFar
      <4>3. QED
        BY <1>1, <4>1, <4>2
    <3>3. \E k \in 1 .. n + 1 : Matching(k, d) /\ rules[k].priority = new.highest
      BY <1>1, <2>1, <2>3
    <3> HIDE DEF new
    <3>4. QED
      BY <3>1, <3>2, <3>3 DEF HighestSoFar
  <2>6. CandidatesSoFar(new, n + 1, d)
    <3> DEFINE At(h, m) == {k \in 1 .. m : Matching(k, d) /\ rules[k].priority = h}
    <3>1. At(rule.priority, n + 1) = At(rule.priority, n) \cup {n + 1}
      BY <1>1, <2>3
    <3>2. found.candidates = UNION {rules[k].configs : k \in At(found.highest, n)}
      BY <1>5 DEF SoFar, CandidatesSoFar
    <3>3. CASE rule.priority = found.highest
      BY <2>1, <3>1, <3>2, <3>3 DEF Candidates, CandidatesSoFar
    <3>4. CASE rule.priority # found.highest
      <4>1. At(rule.priority, n) = {}
        BY <1>1, <1>2, <1>5, <2>2, <3>4 DEF SoFar, HighestSoFar
      <4>2. QED
        BY <2>1, <3>1, <3>4, <4>1 DEF Candidates, CandidatesSoFar
    <3>5. QED
      BY <3>3, <3>4
  <2>7. OutdoneSoFar(n + 1, d)
    BY <1>1, <1>5, <2>3 DEF SoFar, OutdoneSoFar
  <2> HIDE DEF new
  <2>8. QED
    BY <2>1, <2>4, <2>5, <2>6, <2>7 DEF SoFar, Justified
<1>6. CASE ~found.error /\ ~Fails(found, rule, d) /\ ~(Counts(found, rule) /\ result = "match")
  <2>1. new = found
    BY <1>6 DEF Consider
  <2>2. rule.configs # {} /\ rule.priority >= 0
    BY <1>1, <1>6 DEF Fails
  <2>3. WellFormedSoFar(n + 1)
    BY <1>1, <1>6, <2>2 DEF SoFar, WellFormedSoFar
  <2>4. Matching(n + 1, d) => rule.priority < found.highest
    BY <1>1, <1>2, <1>6 DEF Matching, Counts
  <2>5. HighestSoFar(found, n + 1, d)
    BY <1>1, <1>2, <1>6, <2>4 DEF SoFar, HighestSoFar
  <2>6. CandidatesSoFar(found, n + 1, d)
    <3>1. {m \in 1 .. n + 1 : Matching(m, d) /\ rules[m].priority = found.highest} =
            {m \in 1 .. n : Matching(m, d) /\ rules[m].priority = found.highest}
      BY <1>1, <1>2, <2>4
    <3>2. QED
      BY <1>6, <3>1 DEF SoFar, CandidatesSoFar
  <2>7. Malformed(rule, d) => Outdone(n + 1, d)
    <3> SUFFICES ASSUME Malformed(rule, d) PROVE Outdone(n + 1, d)
      OBVIOUS
    <3>1. ~Counts(found, rule)
      BY <1>6, <2>2, <1>1 DEF Fails, Malformed
    <3>2. rule.priority < found.highest /\ found.highest >= 0
      BY <1>1, <1>2, <2>2, <3>1 DEF Counts
    <3>3. PICK k \in 1 .. n : Matching(k, d) /\ rules[k].priority = found.highest
      BY <1>6, <3>2 DEF SoFar, HighestSoFar
    <3>4. QED
      BY <3>2, <3>3 DEF Outdone
  <2>8. OutdoneSoFar(n + 1, d)
    BY <1>1, <1>6, <2>7 DEF SoFar, OutdoneSoFar
  <2> HIDE DEF new
  <2>9. QED
    BY <1>6, <2>1, <2>3, <2>5, <2>6, <2>8 DEF SoFar, Justified
<1>7. QED
  BY <1>3, <1>4, <1>5, <1>6

\* All the rules.
LEMMA SoFarAll ==
  ASSUME NEW d \in Deployments, rules \in Seq(Rules)
  PROVE  SoFar(EvaluateRules(d), Len(rules), d)
<1> DEFINE T == {n \in Nat : n <= Len(rules) => SoFar(Considered(d)[n], n, d)}
<1>1. 0 \in T
  <2>1. 1 .. 0 = {}
    OBVIOUS
  <2>2. SoFar(NothingYet, 0, d)
    BY <2>1 DEF SoFar, NothingYet, Justified, WellFormedSoFar, HighestSoFar, CandidatesSoFar,
                OutdoneSoFar
  <2>3. QED
    BY <2>2, ConsideredStep
<1>2. ASSUME NEW n \in Nat, n \in T PROVE n + 1 \in T
  <2> SUFFICES ASSUME n + 1 <= Len(rules) PROVE SoFar(Considered(d)[n + 1], n + 1, d)
    OBVIOUS
  <2>1. n + 1 \in 1 .. Len(rules) /\ n \in 0 .. Len(rules) /\ n + 1 - 1 = n
    OBVIOUS
  <2>2. n + 1 \in DOMAIN rules
    BY <2>1
  <2>3. Considered(d)[n + 1] = Consider(Considered(d)[n], rules[n + 1], d)
    BY <2>1, ConsideredStep
  <2>4. Considered(d)[n] \in Founds
    BY <2>1, ConsideredStep
  <2>5. SoFar(Considered(d)[n], n, d)
    BY <1>2, <2>1
  <2>6. QED
    BY <2>2, <2>3, <2>4, <2>5, SoFarStep
<1>3. Nat \subseteq T
  <2> HIDE DEF T
  <2>1. QED
    BY <1>1, <1>2, SetInduction
<1>4. QED
  BY <1>3 DEF EvaluateRules

\* The configs to choose from are those of the documentation, unless a rule
\* is malformed.
LEMMA ConfigsForIsDocumented ==
  ASSUME NEW d \in Deployments, rules \in Seq(Rules), ~EvaluateRules(d).error
  PROVE  ConfigsFor(d) = Documented(d)
<1> DEFINE found == EvaluateRules(d)
           N == Len(rules)
           matching == {n \in DOMAIN rules : EvaluateSelectorList(rules[n].selector, d) = "match"}
           top == {n \in matching : \A m \in matching : rules[m].priority <= rules[n].priority}
<1>1. /\ WellFormedSoFar(N) /\ HighestSoFar(found, N, d) /\ CandidatesSoFar(found, N, d)
  BY SoFarAll DEF SoFar
<1>2. /\ DOMAIN rules = 1 .. N /\ N \in Nat
      /\ \A k \in 1 .. N : rules[k].priority \in Int
  <2>1. \A k \in 1 .. N : rules[k] \in Rules
    OBVIOUS
  <2>2. QED
    BY <2>1, RuleFields
<1>3. found \in Founds
  <2>1. N \in 0 .. N
    BY <1>2
  <2>2. QED
    BY <2>1, ConsideredStep DEF EvaluateRules
<1>4. found.highest \in Int
  BY <1>3 DEF Founds
<1>5. matching = {n \in 1 .. N : Matching(n, d)}
  BY <1>2 DEF Matching
<1>6. CASE matching = {}
  <2>1. found.candidates = {}
    BY <1>1, <1>5, <1>6 DEF CandidatesSoFar
  <2>2. QED
    BY <1>6, <2>1 DEF ConfigsFor, Documented, GetUnrestricted
<1>7. CASE matching # {}
  <2>1. found.highest >= 0
    BY <1>1, <1>2, <1>4, <1>5, <1>7 DEF WellFormedSoFar, HighestSoFar
  <2>2. PICK k \in 1 .. N : Matching(k, d) /\ rules[k].priority = found.highest
    BY <1>1, <2>1 DEF HighestSoFar
  <2>3. top = {n \in 1 .. N : Matching(n, d) /\ rules[n].priority = found.highest}
    BY <1>1, <1>2, <1>4, <1>5, <2>2 DEF HighestSoFar
  <2>4. found.candidates = UNION {rules[n].configs : n \in top}
    BY <1>1, <2>3 DEF CandidatesSoFar
  <2>5. found.candidates # {}
    BY <1>1, <2>2, <2>3, <2>4 DEF WellFormedSoFar
  <2>6. Documented(d) = (UNION {rules[n].configs : n \in top}) \cap Visible
    BY <1>7 DEF Documented
  <2>7. ConfigsFor(d) = found.candidates \cap Visible
    BY <2>5 DEF ConfigsFor
  <2> HIDE DEF found, top
  <2>8. QED
    BY <2>4, <2>6, <2>7
<1>8. QED
  BY <1>6, <1>7

-----------------------------------------------------------------------------
(***************************************************************************)
(* The order.                                                              *)
(***************************************************************************)
\* new is s with c at this place, the first that c moves up to.
Inserted(new, s, c, at) ==
  /\ at \in 1 .. Len(s) + 1
  /\ \A k \in at .. Len(s) : Less(c, s[k])
  /\ at > 1 => ~Less(c, s[at - 1])
  /\ \A k \in 1 .. Len(s) + 1 :
       new[k] = IF k < at THEN s[k] ELSE IF k = at THEN c ELSE s[k - 1]

\* One more element is put where it belongs.
LEMMA InsertFacts ==
  ASSUME NEW C, NEW s \in Seq(C), NEW c \in C
  PROVE  /\ Insert(s, c) \in Seq(C) /\ Len(Insert(s, c)) = Len(s) + 1
         /\ \E at : Inserted(Insert(s, c), s, c, at)
<1> DEFINE L == Len(s)
           T == {n \in 1 .. L + 1 : \A k \in n .. L : Less(c, s[k])}
           at == Min(T)
<1>1. L \in Nat
  OBVIOUS
<1>2. T \subseteq Nat /\ T # {}
  <2>1. L + 1 \in 1 .. L + 1 /\ \A k \in L + 1 .. L : Less(c, s[k])
    BY <1>1
  <2>2. QED
    BY <1>1, <2>1
<1>3. at \in T /\ \A n \in T : at <= n
  <2> HIDE DEF T
  <2>1. QED
    BY <1>2, MinIsLeast
<1>4. at \in 1 .. L + 1 /\ \A k \in at .. L : Less(c, s[k])
  BY <1>3
<1>5. Insert(s, c) = SubSeq(s, 1, at - 1) \o <<c>> \o SubSeq(s, at, L)
  BY DEF Insert, InsertAt
<1>6. at > 1 => ~Less(c, s[at - 1])
  <2> SUFFICES ASSUME at > 1, Less(c, s[at - 1]) PROVE FALSE
    OBVIOUS
  <2> HIDE DEF at
  <2>1. at - 1 \in 1 .. L + 1 /\ at - 1 .. L = {at - 1} \cup at .. L
    BY <1>1, <1>4
  <2>2. at - 1 \in T
    BY <1>4, <2>1
  <2>3. QED
    BY <1>3, <1>4, <2>2
<1> HIDE DEF at
<1> DEFINE a == SubSeq(s, 1, at - 1)
           z == SubSeq(s, at, L)
<1>7. a \in Seq(C) /\ Len(a) = at - 1 /\ \A k \in 1 .. at - 1 : a[k] = s[k]
  BY <1>1, <1>4
<1>8. z \in Seq(C) /\ Len(z) = L + 1 - at /\ \A k \in 1 .. L + 1 - at : z[k] = s[at + k - 1]
  BY <1>1, <1>4
<1> HIDE DEF a, z
<1>9. Insert(s, c) = (a \o <<c>>) \o z
  BY <1>5 DEF a, z
<1>10. /\ a \o <<c>> \in Seq(C) /\ Len(a \o <<c>>) = at
       /\ \A k \in 1 .. at : (a \o <<c>>)[k] = IF k < at THEN s[k] ELSE c
  BY <1>4, <1>7
<1> DEFINE b == a \o <<c>>
<1> HIDE DEF b
<1>11. b \in Seq(C) /\ Len(b) = at /\ \A k \in 1 .. at : b[k] = IF k < at THEN s[k] ELSE c
  BY <1>10 DEF b
<1>12. Insert(s, c) = b \o z
  BY <1>9 DEF b
<1>13. Insert(s, c) \in Seq(C) /\ Len(Insert(s, c)) = L + 1
  <2>1. b \o z \in Seq(C) /\ Len(b \o z) = Len(b) + Len(z)
    BY <1>8, <1>11
  <2>2. Len(b) + Len(z) = L + 1
    BY <1>1, <1>4, <1>8, <1>11
  <2>3. QED
    BY <1>12, <2>1, <2>2
<1>14. ASSUME NEW k \in 1 .. L + 1
       PROVE  Insert(s, c)[k] = IF k < at THEN s[k] ELSE IF k = at THEN c ELSE s[k - 1]
  <2>1. Insert(s, c)[k] = IF k <= at THEN b[k] ELSE z[k - at]
    BY <1>1, <1>4, <1>8, <1>11, <1>12
  <2>2. CASE k <= at
    BY <1>4, <1>11, <2>1, <2>2
  <2>3. CASE k > at
    <3>1. k - at \in 1 .. L + 1 - at /\ at + (k - at) - 1 = k - 1
      BY <1>1, <1>4, <2>3
    <3>2. QED
      BY <1>4, <1>8, <2>1, <2>3, <3>1
  <2>4. QED
    BY <1>4, <2>2, <2>3
<1>15. QED
  BY <1>4, <1>6, <1>13, <1>14 DEF Inserted

\* The elements of a sequence are put in order one after the other.
LEMMA SortedStep ==
  ASSUME NEW C, NEW s \in Seq(C)
  PROVE  /\ Sorted(s) \in [0 .. Len(s) -> Seq(C)]
         /\ Sorted(s)[0] = <<>>
         /\ \A n \in 1 .. Len(s) : Sorted(s)[n] = Insert(Sorted(s)[n - 1], s[n])
<1> DEFINE N == Len(s)
           G == [p \in (1 .. N) \X Seq(C) |-> Insert(p[2], s[p[1]])]
           Orders(f) == f = [n \in 0 .. Len(s) |-> IF n = 0 THEN <<>> ELSE Insert(f[n - 1], s[n])]
<1>1. <<>> \in Seq(C)
  OBVIOUS
<1>2. \A n \in 1 .. Len(s) : s[n] \in C
  OBVIOUS
<1>3. G \in [(1 .. N) \X Seq(C) -> Seq(C)]
  <2>1. \A p \in (1 .. N) \X Seq(C) : Insert(p[2], s[p[1]]) \in Seq(C)
    BY <1>2, InsertFacts
  <2>2. QED
    BY <2>1
<1>4. PICK f : Iterates(f, Seq(C), <<>>, N, G)
  <2>1. N \in Nat
    OBVIOUS
  <2> HIDE DEF G, N
  <2>2. QED
    BY <1>1, <1>3, <2>1, PrimitiveRecursion
<1>5. \A n \in 1 .. Len(s) : f[n] = Insert(f[n - 1], s[n])
  <2> TAKE n \in 1 .. Len(s)
  <2>1. n - 1 \in 0 .. Len(s)
    OBVIOUS
  <2> USE DEF Iterates
  <2>2. <<n, f[n - 1]>> \in (1 .. Len(s)) \X Seq(C)
    BY <1>4, <2>1
  <2>3. QED
    BY <1>4, <2>2
<1>6. Orders(f)
  <2>1. \A n \in 0 .. Len(s) : f[n] = IF n = 0 THEN <<>> ELSE Insert(f[n - 1], s[n])
    <3> TAKE n \in 0 .. Len(s)
    <3>1. n = 0 \/ n \in 1 .. Len(s)
      OBVIOUS
    <3>2. QED
      BY <1>4, <1>5, <3>1 DEF Iterates
  <2> HIDE DEF G
  <2>2. f = [n \in 0 .. Len(s) |-> f[n]]
    BY <1>4 DEF Iterates
  <2>3. QED
    BY <2>1, <2>2
<1>7. Sorted(s) = CHOOSE g : Orders(g)
  BY DEF Sorted
<1>8. Orders(Sorted(s))
  <2> HIDE DEF Orders
  <2>1. QED
    BY <1>6, <1>7
<1>9. \A n \in 0 .. Len(s) :
        Sorted(s)[n] = IF n = 0 THEN <<>> ELSE Insert(Sorted(s)[n - 1], s[n])
  BY <1>8
<1> DEFINE T == {n \in Nat : n <= Len(s) => Sorted(s)[n] \in Seq(C)}
<1>10. Nat \subseteq T
  <2>1. 0 \in T
    <3>1. 0 \in 0 .. Len(s)
      OBVIOUS
    <3>2. Sorted(s)[0] = <<>>
      BY <1>9, <3>1
    <3>3. QED
      BY <1>1, <3>2
  <2>2. ASSUME NEW n \in Nat, n \in T PROVE n + 1 \in T
    <3> SUFFICES ASSUME n + 1 <= Len(s) PROVE Sorted(s)[n + 1] \in Seq(C)
      OBVIOUS
    <3>1. n + 1 \in 1 .. Len(s) /\ n + 1 - 1 = n
      OBVIOUS
    <3>2. Sorted(s)[n + 1] = Insert(Sorted(s)[n], s[n + 1])
      BY <1>9, <3>1
    <3>3. Sorted(s)[n] \in Seq(C) /\ s[n + 1] \in C
      BY <1>2, <2>2, <3>1
    <3>4. Insert(Sorted(s)[n], s[n + 1]) \in Seq(C)
      BY <3>3, InsertFacts
    <3>5. QED
      BY <3>2, <3>4
  <2> HIDE DEF T
  <2>3. QED
    BY <2>1, <2>2, SetInduction
<1>11. Sorted(s) \in [0 .. Len(s) -> Seq(C)]
  <2>1. \A n \in 0 .. Len(s) : Sorted(s)[n] \in Seq(C)
    BY <1>10
  <2>2. Sorted(s) = [n \in 0 .. Len(s) |-> Sorted(s)[n]]
    BY <1>8
  <2>3. QED
    BY <2>1, <2>2
<1>12. QED
  BY <1>9, <1>11

\* c has at least the number of e.
AtLeast(c, e) ==
  Config[c].priority * (Usage(e) + 1) >=
    Config[e].priority * (Usage(c) + 1)

\* What the lists are like, as far as the order is concerned.
Counted == \A c \in Configs : Usage(c) \in Nat

\* Priorities are integers.
LEMMA PriorityIsInt == \A c \in Configs : Config[c].priority \in Int
BY ConfigAssumption, BoundsAssumption DEF Int64

\* A factor that is positive changes no comparison.
LEMMA ProductMonotone ==
  ASSUME NEW a \in Int, NEW b \in Int, NEW k \in Nat, a <= b
  PROVE  a * k <= b * k
<1>1. (b - a) * k >= 0
  <2>1. b - a \in Nat
    OBVIOUS
  <2>2. \A m \in Nat : m * k >= 0
    OBVIOUS
  <2>3. QED
    BY <2>1, <2>2
<1>2. (b - a) * k = b * k - a * k
  OBVIOUS
<1>3. a * k \in Int /\ b * k \in Int
  OBVIOUS
<1>4. QED
  BY <1>1, <1>2, <1>3

\* Nor does it if it is taken away.
LEMMA ProductCancels ==
  ASSUME NEW a \in Int, NEW b \in Int, NEW k \in Nat \ {0}, a * k <= b * k
  PROVE  a <= b
<1> SUFFICES ASSUME b < a PROVE FALSE
  OBVIOUS
<1>1. b + 1 <= a
  OBVIOUS
<1>2. (b + 1) * k <= a * k
  BY <1>1, ProductMonotone
<1>3. (b + 1) * k = b * k + k
  OBVIOUS
<1>4. a * k \in Int /\ b * k \in Int
  OBVIOUS
<1>5. QED
  BY <1>2, <1>3, <1>4

\* p / l >= q / m >= r / n.
LEMMA FractionsTransitive ==
  ASSUME NEW p \in Int, NEW q \in Int, NEW r \in Int,
         NEW l \in Nat \ {0}, NEW m \in Nat \ {0}, NEW n \in Nat \ {0},
         p * m >= q * l, q * n >= r * m
  PROVE  p * n >= r * l
<1>1. p * m \in Int /\ q * l \in Int /\ q * n \in Int /\ r * m \in Int
      /\ p * n \in Int /\ r * l \in Int
  OBVIOUS
<1>2. (q * l) * n <= (p * m) * n
  BY <1>1, ProductMonotone
<1>3. (r * m) * l <= (q * n) * l
  BY <1>1, ProductMonotone
<1>4. /\ (q * l) * n = (q * n) * l /\ (p * m) * n = (p * n) * m
      /\ (r * m) * l = (r * l) * m
  OBVIOUS
<1>5. (r * l) * m <= (p * n) * m
  <2>1. (r * m) * l \in Int /\ (q * n) * l \in Int /\ (p * m) * n \in Int
    BY <1>1
  <2>2. QED
    BY <1>2, <1>3, <1>4, <2>1
<1>6. QED
  BY <1>1, <1>5, ProductCancels

\* So the order by numbers is one.
LEMMA AtLeastTransitive ==
  ASSUME Counted, NEW c \in Configs, NEW e \in Configs, NEW g \in Configs,
         AtLeast(c, e), AtLeast(e, g)
  PROVE  AtLeast(c, g)
<1>1. \A x \in Configs : Usage(x) + 1 \in Nat \ {0}
  BY DEF Counted
<1>2. Config[c].priority \in Int /\ Config[e].priority \in Int /\ Config[g].priority \in Int
  BY PriorityIsInt
<1>3. QED
  BY <1>1, <1>2, FractionsTransitive DEF AtLeast

\* Without an overflow the order is the one of the numbers.
LEMMA LessIsAtLeast ==
  ASSUME Counted, NEW configs, configs \subseteq Configs, ~Overflow(configs),
         NEW c \in configs, NEW e \in configs
  PROVE  /\ Less(c, e) => AtLeast(c, e)
         /\ ~Less(c, e) => AtLeast(e, c)
<1> DEFINE p == Config[c].priority * (Usage(e) + 1)
           q == Config[e].priority * (Usage(c) + 1)
<1>1. p \in Int /\ q \in Int
  BY PriorityIsInt DEF Counted
<1>2. p = Wrap(p) /\ q = Wrap(q)
  BY DEF Overflow
<1>3. (Less(c, e) <=> p > q) /\ (AtLeast(c, e) <=> p >= q) /\ (AtLeast(e, c) <=> q >= p)
  <2>1. Less(c, e) <=> Wrap(p) > Wrap(q)
    BY DEF Less
  <2>2. Less(c, e) <=> p > q
    BY <1>2, <2>1
  <2>3. QED
    BY <2>2 DEF AtLeast
<1> HIDE DEF p, q
<1>4. QED
  BY <1>1, <1>3

\* So far the first element has the highest number, and none is missing.
HeadFirst(s, n, configs) ==
  LET sorted == Sorted(s)[n] IN
  /\ Len(sorted) = n
  /\ \A i \in 1 .. n : \E j \in 1 .. n : sorted[j] = s[i]
  /\ ~Overflow(configs) => \A j \in 1 .. n : AtLeast(sorted[1], sorted[j])

\* It stays so when one more element is put in its place.
LEMMA HeadFirstStep ==
  ASSUME Counted, NEW configs, configs \subseteq Configs, NEW s \in Seq(configs),
         NEW n \in Nat, n + 1 <= Len(s), HeadFirst(s, n, configs)
  PROVE  HeadFirst(s, n + 1, configs)
<1> DEFINE old == Sorted(s)[n]
           new == Sorted(s)[n + 1]
           c == s[n + 1]
<1>1. n \in 0 .. Len(s) /\ n + 1 \in 1 .. Len(s) /\ n + 1 - 1 = n
  OBVIOUS
<1>2. c \in configs /\ old \in Seq(configs) /\ new = Insert(old, c)
  BY <1>1, SortedStep
<1>3. /\ Len(old) = n
      /\ \A i \in 1 .. n : \E j \in 1 .. n : old[j] = s[i]
      /\ ~Overflow(configs) => \A j \in 1 .. n : AtLeast(old[1], old[j])
  BY DEF HeadFirst
<1> SUFFICES /\ Len(new) = n + 1
             /\ \A i \in 1 .. n + 1 : \E j \in 1 .. n + 1 : new[j] = s[i]
             /\ ~Overflow(configs) => \A j \in 1 .. n + 1 : AtLeast(new[1], new[j])
  BY DEF HeadFirst
<1>4. Len(new) = n + 1 /\ \E at : Inserted(new, old, c, at)
  <2> HIDE DEF old, new, c
  <2>1. QED
    BY <1>2, <1>3, InsertFacts
<1>5. PICK at \in 1 .. n + 1 :
        /\ \A k \in at .. n : Less(c, old[k])
        /\ at > 1 => ~Less(c, old[at - 1])
        /\ \A k \in 1 .. n + 1 :
             new[k] = IF k < at THEN old[k] ELSE IF k = at THEN c ELSE old[k - 1]
  BY <1>3, <1>4 DEF Inserted
<1>6. \A k \in 1 .. n : old[k] \in configs
  BY <1>2, <1>3
<1> HIDE DEF new, old
<1>7. ASSUME NEW i \in 1 .. n + 1 PROVE \E j \in 1 .. n + 1 : new[j] = s[i]
  <2>1. CASE i = n + 1
    <3>1. new[at] = s[i]
      BY <1>5, <2>1
    <3>2. QED
      BY <3>1
  <2>2. CASE i # n + 1
    <3>1. i \in 1 .. n
      BY <2>2
    <3>2. PICK j \in 1 .. n : old[j] = s[i]
      BY <1>3, <3>1
    <3>3. CASE j < at
      <4>1. j \in 1 .. n + 1 /\ new[j] = old[j]
        BY <1>5, <3>3
      <4>2. QED
        BY <3>2, <4>1
    <3>4. CASE j >= at
      <4>1. j + 1 \in 1 .. n + 1 /\ j + 1 > at /\ j + 1 - 1 = j
        BY <3>4
      <4>2. new[j + 1] = old[j]
        BY <1>5, <4>1
      <4>3. QED
        BY <3>2, <4>1, <4>2
    <3>5. QED
      BY <3>3, <3>4
  <2>3. QED
    BY <2>1, <2>2
<1>8. ASSUME ~Overflow(configs), NEW j \in 1 .. n + 1 PROVE AtLeast(new[1], new[j])
  <2>1. \A x, y \in configs : /\ Less(x, y) => AtLeast(x, y)
                              /\ ~Less(x, y) => AtLeast(y, x)
    BY <1>8, LessIsAtLeast
  <2>2. AtLeast(c, c)
    BY <1>2, <2>1
  <2>3. CASE at = 1
    <3>1. new[1] = c
      BY <1>5, <2>3
    <3>2. CASE j = 1
      BY <2>2, <3>1, <3>2
    <3>3. CASE j # 1
      <4>1. j - 1 \in 1 .. n /\ new[j] = old[j - 1]
        BY <1>5, <2>3, <3>3
      <4>2. Less(c, old[j - 1]) /\ old[j - 1] \in configs
        BY <1>5, <1>6, <2>3, <4>1
      <4>3. QED
        BY <1>2, <2>1, <3>1, <4>1, <4>2
    <3>4. QED
      BY <3>2, <3>3
  <2>4. CASE at > 1
    <3>1. new[1] = old[1] /\ 1 \in 1 .. n /\ at - 1 \in 1 .. n
      BY <1>5, <2>4
    <3>2. \A k \in 1 .. n : AtLeast(old[1], old[k])
      BY <1>3, <1>8
    <3>3. CASE j < at
      <4>1. new[j] = old[j] /\ j \in 1 .. n
        BY <1>5, <3>3
      <4>2. QED
        BY <3>1, <3>2, <4>1
    <3>4. CASE j = at
      <4>1. new[j] = c
        BY <1>5, <3>4
      <4>2. AtLeast(old[at - 1], c)
        BY <1>2, <1>5, <1>6, <2>1, <2>4, <3>1
      <4>3. AtLeast(old[1], old[at - 1])
        BY <3>1, <3>2
      <4>4. QED
        BY <1>2, <1>6, <3>1, <4>1, <4>2, <4>3, AtLeastTransitive
    <3>5. CASE j > at
      <4>1. new[j] = old[j - 1] /\ j - 1 \in 1 .. n
        BY <1>5, <3>5
      <4>2. QED
        BY <3>1, <3>2, <4>1
    <3>6. QED
      BY <3>3, <3>4, <3>5
  <2>5. QED
    BY <2>3, <2>4
<1>9. QED
  BY <1>4, <1>7, <1>8

\* What is picked is one of the configs, with the highest number.
LEMMA PickIsHighest ==
  ASSUME Counted, NEW configs, configs \subseteq Configs, configs # {},
         NEW c \in PickServiceTargetConfig(configs)
  PROVE  c \in configs /\ (~Overflow(configs) => c \in Highest(configs))
<1> DEFINE N == Cardinality(configs)
<1>1. IsFiniteSet(configs) /\ N \in Nat /\ N # 0
  BY NamesAssumption, FS_Subset, FS_CardinalityType, FS_EmptySet
<1>2. PICK s \in SetToSeqs(configs) : c = SortServiceTargetConfigs(s)[1]
  BY DEF PickServiceTargetConfig
<1>3. s \in [1 .. N -> configs] /\ \A i, j \in 1 .. N : i # j => s[i] # s[j]
  BY <1>2 DEF SetToSeqs
<1>4. s \in Seq(configs) /\ Len(s) = N
  BY <1>1, <1>3
<1>5. \A e \in configs : \E i \in 1 .. N : s[i] = e
  <2>1. s \in Injection(1 .. N, configs)
    BY <1>3 DEF Injection, IsInjective
  <2>2. Cardinality(1 .. N) = N
    BY <1>1, FS_Interval
  <2>3. s \in Surjection(1 .. N, configs)
    BY <1>1, <2>1, <2>2, FS_Injection
  <2>4. QED
    BY <2>3 DEF Surjection
<1> HIDE DEF N
<1> DEFINE T == {n \in Nat : n <= N => HeadFirst(s, n, configs)}
<1>6. Nat \subseteq T
  <2>1. 0 \in T
    <3>1. 1 .. 0 = {}
      OBVIOUS
    <3>2. Sorted(s)[0] = <<>>
      BY <1>4, SortedStep
    <3>3. QED
      BY <3>1, <3>2 DEF HeadFirst
  <2>2. \A n \in Nat : n \in T => n + 1 \in T
    BY <1>1, <1>4, HeadFirstStep
  <2> HIDE DEF T
  <2>3. QED
    BY <2>1, <2>2, SetInduction
<1> DEFINE sorted == Sorted(s)[N]
<1>7. /\ Len(sorted) = N
      /\ \A i \in 1 .. N : \E j \in 1 .. N : sorted[j] = s[i]
      /\ ~Overflow(configs) => \A j \in 1 .. N : AtLeast(sorted[1], sorted[j])
  BY <1>1, <1>6 DEF HeadFirst
<1>8. sorted \in Seq(configs)
  BY <1>1, <1>4, SortedStep
<1>9. c = sorted[1]
  BY <1>2, <1>4 DEF SortServiceTargetConfigs
<1> HIDE DEF sorted
<1>10. c \in configs
  BY <1>1, <1>7, <1>8, <1>9
<1>11. ASSUME ~Overflow(configs) PROVE c \in Highest(configs)
  <2>1. \A e \in configs : \E j \in 1 .. N : sorted[j] = e
    BY <1>5, <1>7
  <2>2. \A e \in configs : AtLeast(c, e)
    BY <1>7, <1>9, <1>11, <2>1
  <2>3. QED
    BY <1>10, <2>2 DEF Highest, AtLeast
<1>12. QED
  BY <1>10, <1>11

-----------------------------------------------------------------------------
(***************************************************************************)
(* Recursion over terms.                                                   *)
(***************************************************************************)
\* A term and its subterms.
LEMMA TermFields ==
  ASSUME NEW t \in Terms
  PROVE  /\ t.kinds \in SUBSET Kinds /\ t.named \in BOOLEAN /\ t.meets \in SUBSET Deployments
         /\ t.terms \in Seq(Terms) /\ DOMAIN t.terms \subseteq Nat
         /\ Only(t, "not") => 1 \in DOMAIN t.terms
         /\ \A i \in DOMAIN t.terms :
              /\ t.terms[i] \in Terms
              /\ Nesting[t.terms[i]] \in Nat /\ Nesting[t.terms[i]] < Nesting[t]
         /\ Nesting[t] \in Nat
<1>1. t \in [kinds : SUBSET Kinds, named : BOOLEAN,
             meets : SUBSET Deployments, terms : Seq(Terms)]
  BY TermsAssumption
<1>2. t.terms \in Seq(Terms)
  BY <1>1
<1>3. DOMAIN t.terms \subseteq Nat /\ \A i \in DOMAIN t.terms : t.terms[i] \in Terms
  BY <1>2
<1>4. t.terms # <<>> => 1 \in DOMAIN t.terms
  BY <1>2
<1>5. QED
  BY <1>1, <1>2, <1>3, <1>4, TermsAssumption

\* What holds of a term if it holds of its subterms holds of all terms.
LEMMA TermInduction ==
  ASSUME NEW T,
         \A t \in Terms : (\A i \in DOMAIN t.terms : t.terms[i] \in T) => t \in T
  PROVE  Terms \subseteq T
<1> DEFINE U == {n \in Nat : \A t \in Terms : Nesting[t] < n => t \in T}
<1>1. 0 \in U
  BY TermFields
<1>2. ASSUME NEW n \in Nat, n \in U PROVE n + 1 \in U
  <2> SUFFICES ASSUME NEW t \in Terms, Nesting[t] < n + 1 PROVE t \in T
    OBVIOUS
  <2>1. \A i \in DOMAIN t.terms : t.terms[i] \in Terms /\ Nesting[t.terms[i]] < n
    BY TermFields
  <2>2. QED
    BY <1>2, <2>1
<1>3. Nat \subseteq U
  <2> HIDE DEF U
  <2>1. QED
    BY <1>1, <1>2, SetInduction
<1>4. QED
  <2> SUFFICES ASSUME NEW t \in Terms PROVE t \in T
    OBVIOUS
  <2>1. Nesting[t] + 1 \in Nat /\ Nesting[t] < Nesting[t] + 1
    BY TermFields
  <2>2. QED
    BY <1>3, <2>1

\* What G makes of a term depends on the values of its subterms only.
Local(V, G) ==
  \A t \in Terms : \A f, g \in [Terms -> V] :
    (\A i \in DOMAIN t.terms : f[t.terms[i]] = g[t.terms[i]]) => G[<<t, f>>] = G[<<t, g>>]

\* f is what G makes of the terms that are nested less than n deep.
SolvesUpTo(f, V, G, n) ==
  f \in [Terms -> V] /\ \A t \in Terms : Nesting[t] < n => f[t] = G[<<t, f>>]

Solves(f, V, G) ==
  f \in [Terms -> V] /\ \A t \in Terms : f[t] = G[<<t, f>>]

\* There is at most one such function, as far as it is determined.
LEMMA SolutionsAgree ==
  ASSUME NEW V, NEW G, Local(V, G), NEW n \in Nat,
         NEW f, SolvesUpTo(f, V, G, n), NEW g, SolvesUpTo(g, V, G, n)
  PROVE  \A t \in Terms : Nesting[t] < n => f[t] = g[t]
<1> DEFINE T == {t \in Terms : Nesting[t] < n => f[t] = g[t]}
<1>1. ASSUME NEW t \in Terms, \A i \in DOMAIN t.terms : t.terms[i] \in T
      PROVE  t \in T
  <2> SUFFICES ASSUME Nesting[t] < n PROVE f[t] = g[t]
    OBVIOUS
  <2>1. \A i \in DOMAIN t.terms : Nesting[t.terms[i]] < n
    BY TermFields
  <2>2. \A i \in DOMAIN t.terms : f[t.terms[i]] = g[t.terms[i]]
    BY <1>1, <2>1
  <2>3. G[<<t, f>>] = G[<<t, g>>]
    BY <2>2 DEF Local, SolvesUpTo
  <2>4. QED
    BY <2>3 DEF SolvesUpTo
<1>2. Terms \subseteq T
  <2> HIDE DEF T
  <2>1. QED
    BY <1>1, TermInduction
<1>3. QED
  BY <1>2

\* There is one for every depth: a term takes its value from the depths before.
LEMMA SolutionUpTo ==
  ASSUME NEW V, NEW v \in V, NEW G \in [Terms \X [Terms -> V] -> V], Local(V, G)
  PROVE  \A n \in Nat : \E f : SolvesUpTo(f, V, G, n)
<1> DEFINE U == {n \in Nat : \E f : SolvesUpTo(f, V, G, n)}
<1>1. 0 \in U
  <2>1. SolvesUpTo([t \in Terms |-> v], V, G, 0)
    BY TermFields DEF SolvesUpTo
  <2>2. QED
    BY <2>1
<1>2. ASSUME NEW n \in Nat, n \in U PROVE n + 1 \in U
  <2>1. PICK f : SolvesUpTo(f, V, G, n)
    BY <1>2
  <2>2. f \in [Terms -> V] /\ \A t \in Terms : G[<<t, f>>] \in V
    BY <2>1 DEF SolvesUpTo
  <2> DEFINE g == [t \in Terms |-> IF Nesting[t] = n THEN G[<<t, f>>] ELSE f[t]]
  <2>3. g \in [Terms -> V]
    BY <2>2
  <2>4. ASSUME NEW t \in Terms, Nesting[t] < n + 1 PROVE g[t] = G[<<t, g>>]
    <3>1. \A i \in DOMAIN t.terms : t.terms[i] \in Terms /\ Nesting[t.terms[i]] # n
      BY <2>4, TermFields
    <3>2. \A i \in DOMAIN t.terms : g[t.terms[i]] = f[t.terms[i]]
      BY <3>1
    <3>3. g[t] = G[<<t, f>>]
      <4>1. CASE Nesting[t] = n
        BY <4>1
      <4>2. CASE Nesting[t] # n
        <5>1. Nesting[t] < n
          BY <2>4, <4>2, TermFields
        <5>2. QED
          BY <2>1, <4>2, <5>1 DEF SolvesUpTo
      <4>3. QED
        BY <4>1, <4>2
    <3> HIDE DEF g
    <3>4. G[<<t, g>>] = G[<<t, f>>]
      BY <2>2, <2>3, <3>2 DEF Local
    <3>5. QED
      BY <3>3, <3>4
  <2> HIDE DEF g
  <2>5. SolvesUpTo(g, V, G, n + 1)
    BY <2>3, <2>4 DEF SolvesUpTo
  <2>6. QED
    BY <2>5
<1>3. Nat \subseteq U
  <2> HIDE DEF U
  <2>1. QED
    BY <1>1, <1>2, SetInduction
<1>4. QED
  BY <1>3

\* There is a function that G makes of all terms.
LEMMA TermRecursion ==
  ASSUME NEW V, NEW v \in V, NEW G \in [Terms \X [Terms -> V] -> V], Local(V, G)
  PROVE  \E f : Solves(f, V, G)
<1> DEFINE F(n) == CHOOSE f : SolvesUpTo(f, V, G, n)
           g == [t \in Terms |-> F(Nesting[t] + 1)[t]]
<1>1. \A n \in Nat : SolvesUpTo(F(n), V, G, n)
  BY SolutionUpTo
<1> HIDE DEF F
<1>2. \A t \in Terms : Nesting[t] \in Nat /\ Nesting[t] + 1 \in Nat
  BY TermFields
<1>3. g \in [Terms -> V]
  BY <1>1, <1>2 DEF SolvesUpTo
<1>4. ASSUME NEW t \in Terms, NEW u \in Terms, Nesting[u] <= Nesting[t]
      PROVE  g[u] = F(Nesting[t] + 1)[u]
  <2>1. SolvesUpTo(F(Nesting[t] + 1), V, G, Nesting[u] + 1)
    <3>1. SolvesUpTo(F(Nesting[t] + 1), V, G, Nesting[t] + 1)
      BY <1>1, <1>2
    <3>2. \A w \in Terms : Nesting[w] < Nesting[u] + 1 => Nesting[w] < Nesting[t] + 1
      BY <1>2, <1>4
    <3>3. QED
      BY <3>1, <3>2 DEF SolvesUpTo
  <2>2. SolvesUpTo(F(Nesting[u] + 1), V, G, Nesting[u] + 1)
    BY <1>1, <1>2
  <2>3. Nesting[u] < Nesting[u] + 1
    BY <1>2
  <2>4. F(Nesting[t] + 1)[u] = F(Nesting[u] + 1)[u]
    BY <1>2, <2>1, <2>2, <2>3, SolutionsAgree
  <2>5. QED
    BY <2>4
<1>5. ASSUME NEW t \in Terms PROVE g[t] = G[<<t, g>>]
  <2> DEFINE f == F(Nesting[t] + 1)
  <2>1. f \in [Terms -> V] /\ f[t] = G[<<t, f>>]
    <3>1. SolvesUpTo(f, V, G, Nesting[t] + 1) /\ Nesting[t] < Nesting[t] + 1
      BY <1>1, <1>2
    <3> HIDE DEF f
    <3>2. QED
      BY <3>1 DEF SolvesUpTo
  <2>2. \A i \in DOMAIN t.terms : t.terms[i] \in Terms /\ Nesting[t.terms[i]] <= Nesting[t]
    BY TermFields
  <2>3. g[t] = f[t] /\ \A i \in DOMAIN t.terms : g[t.terms[i]] = f[t.terms[i]]
    BY <1>2, <1>4, <2>2
  <2> HIDE DEF f, g
  <2>4. G[<<t, g>>] = G[<<t, f>>]
    BY <1>3, <2>1, <2>3 DEF Local
  <2>5. QED
    BY <2>1, <2>3, <2>4
<1> HIDE DEF g
<1>6. QED
  BY <1>3, <1>5 DEF Solves

-----------------------------------------------------------------------------
(***************************************************************************)
(* What the terms evaluate to.                                             *)
(***************************************************************************)
\* The results, or other values, of the subterms of t.
Parts(f, t) == [i \in DOMAIN t.terms |-> f[t.terms[i]]]

PartsOf(f, t, d) == [i \in DOMAIN t.terms |-> f[t.terms[i]][d]]

\* Valid is such a function.
LEMMA ValidStep ==
  \A t \in Terms : Valid[t] \in BOOLEAN /\ Valid[t] = WellFormed(t, Parts(Valid, t))
<1> DEFINE G == [p \in Terms \X [Terms -> BOOLEAN] |-> WellFormed(p[1], Parts(p[2], p[1]))]
           Same(f) == f = [t \in Terms |->
                             WellFormed(t, [i \in DOMAIN t.terms |-> f[t.terms[i]]])]
<1>1. G \in [Terms \X [Terms -> BOOLEAN] -> BOOLEAN]
  BY DEF WellFormed
<1>2. \A t \in Terms : \A f \in [Terms -> BOOLEAN] : G[<<t, f>>] = WellFormed(t, Parts(f, t))
  OBVIOUS
<1> HIDE DEF G
<1>3. Local(BOOLEAN, G)
  <2> SUFFICES ASSUME NEW t \in Terms, NEW f \in [Terms -> BOOLEAN], NEW g \in [Terms -> BOOLEAN],
                      \A i \in DOMAIN t.terms : f[t.terms[i]] = g[t.terms[i]]
               PROVE  G[<<t, f>>] = G[<<t, g>>]
    BY DEF Local
  <2>1. Parts(f, t) = Parts(g, t)
    BY DEF Parts
  <2>2. QED
    BY <1>2, <2>1
<1>4. PICK f : Solves(f, BOOLEAN, G)
  <2>1. TRUE \in BOOLEAN
    OBVIOUS
  <2>2. QED
    BY <1>1, <1>3, <2>1, TermRecursion
<1>5. Same(f)
  <2>1. f \in [Terms -> BOOLEAN] /\ \A t \in Terms : f[t] = WellFormed(t, Parts(f, t))
    BY <1>2, <1>4 DEF Solves
  <2>2. f = [t \in Terms |-> f[t]]
    BY <2>1
  <2>3. QED
    BY <2>1, <2>2 DEF Parts
<1>6. Valid = CHOOSE g : Same(g)
  BY DEF Valid
<1>7. Same(Valid)
  <2> HIDE DEF Same
  <2>1. QED
    BY <1>5, <1>6
<1>8. QED
  BY <1>7 DEF Parts, WellFormed

\* So is HasEmptyList.
LEMMA HasEmptyListStep ==
  \A t \in Terms :
    HasEmptyList[t] <=> LacksTerms(t) \/ \E i \in DOMAIN t.terms : HasEmptyList[t.terms[i]]
<1> DEFINE Value(t, f) == LacksTerms(t) \/ \E i \in DOMAIN t.terms : f[t.terms[i]]
           G == [p \in Terms \X [Terms -> BOOLEAN] |-> Value(p[1], p[2])]
           Same(f) == f = [t \in Terms |->
                             LacksTerms(t) \/ \E i \in DOMAIN t.terms : f[t.terms[i]]]
<1>1. G \in [Terms \X [Terms -> BOOLEAN] -> BOOLEAN]
  OBVIOUS
<1>2. \A t \in Terms : \A f \in [Terms -> BOOLEAN] : G[<<t, f>>] = Value(t, f)
  OBVIOUS
<1> HIDE DEF G
<1>3. Local(BOOLEAN, G)
  <2> SUFFICES ASSUME NEW t \in Terms, NEW f \in [Terms -> BOOLEAN], NEW g \in [Terms -> BOOLEAN],
                      \A i \in DOMAIN t.terms : f[t.terms[i]] = g[t.terms[i]]
               PROVE  G[<<t, f>>] = G[<<t, g>>]
    BY DEF Local
  <2>1. Value(t, f) = Value(t, g)
    OBVIOUS
  <2> HIDE DEF Value
  <2>2. QED
    BY <1>2, <2>1
<1>4. PICK f : Solves(f, BOOLEAN, G)
  <2>1. TRUE \in BOOLEAN
    OBVIOUS
  <2>2. QED
    BY <1>1, <1>3, <2>1, TermRecursion
<1>5. Same(f)
  <2>1. f \in [Terms -> BOOLEAN] /\ \A t \in Terms : f[t] = Value(t, f)
    <3> HIDE DEF Value
    <3>1. QED
      BY <1>2, <1>4 DEF Solves
  <2>2. f = [t \in Terms |-> f[t]]
    BY <2>1
  <2>3. QED
    BY <2>1, <2>2
<1>6. HasEmptyList = CHOOSE g : Same(g)
  BY DEF HasEmptyList
<1>7. Same(HasEmptyList)
  <2> HIDE DEF Same
  <2>1. QED
    BY <1>5, <1>6
<1>8. QED
  BY <1>7

\* A sequence of results ends with the first that is not neutral.
LEMMA ChainFacts ==
  ASSUME NEW results, DOMAIN results \subseteq Nat, NEW neutral
  PROVE  \/ Chain(results, neutral) = neutral /\ \A i \in DOMAIN results : results[i] = neutral
         \/ \E i \in DOMAIN results :
              results[i] # neutral /\ Chain(results, neutral) = results[i]
<1> DEFINE decisive == {i \in DOMAIN results : results[i] # neutral}
<1>1. Chain(results, neutral) = IF decisive = {} THEN neutral ELSE results[Min(decisive)]
  BY DEF Chain
<1>2. decisive # {} => Min(decisive) \in decisive
  <2>1. decisive \subseteq Nat
    OBVIOUS
  <2> HIDE DEF decisive
  <2>2. QED
    BY <2>1, MinIsLeast
<1>3. CASE decisive = {}
  BY <1>1, <1>3
<1>4. CASE decisive # {}
  BY <1>1, <1>2, <1>4
<1>5. QED
  BY <1>3, <1>4

\* The result of a term is one of the three.
LEMMA ResultType ==
  ASSUME NEW t \in Terms, NEW d \in Deployments,
         NEW results, DOMAIN results = DOMAIN t.terms,
         \A i \in DOMAIN results : results[i] \in Results
  PROVE  EvaluateSelector(t, d, results) \in Results
<1>1. \A neutral \in Results : Chain(results, neutral) \in Results
  BY ChainFacts, TermFields
<1>2. Or(results) \in Results /\ And(results) \in Results
  BY <1>1 DEF Or, And, Results
<1>3. \A r : Not(r) \in Results
  BY DEF Not, Opposite, Results
<1>4. QED
  BY <1>2, <1>3 DEF EvaluateSelector, Results

\* So is Evaluate, and its values are results.
LEMMA EvaluateStep ==
  \A t \in Terms : \A d \in Deployments :
    /\ Evaluate[t][d] \in Results
    /\ Evaluate[t][d] = EvaluateSelector(t, d, PartsOf(Evaluate, t, d))
<1> DEFINE V == [Deployments -> Results]
           Value(t, f) == [d \in Deployments |-> EvaluateSelector(t, d, PartsOf(f, t, d))]
           G == [p \in Terms \X [Terms -> V] |-> Value(p[1], p[2])]
           Same(f) == f = [t \in Terms |-> [d \in Deployments |->
             EvaluateSelector(t, d, [i \in DOMAIN t.terms |-> f[t.terms[i]][d]])]]
<1>1. ASSUME NEW t \in Terms, NEW f \in [Terms -> V] PROVE Value(t, f) \in V
  <2>1. ASSUME NEW d \in Deployments
        PROVE  EvaluateSelector(t, d, PartsOf(f, t, d)) \in Results
    <3>1. \A i \in DOMAIN t.terms : PartsOf(f, t, d)[i] \in Results
      BY TermFields DEF PartsOf
    <3>2. DOMAIN PartsOf(f, t, d) = DOMAIN t.terms
      BY DEF PartsOf
    <3>3. QED
      BY <3>1, <3>2, ResultType
  <2>2. QED
    BY <2>1
<1>2. [d \in Deployments |-> "match"] \in V
  BY DEF Results
<1> HIDE DEF V, Value
<1>3. G \in [Terms \X [Terms -> V] -> V]
  BY <1>1
<1>4. \A t \in Terms : \A f \in [Terms -> V] : G[<<t, f>>] = Value(t, f)
  OBVIOUS
<1> HIDE DEF G
<1>5. Local(V, G)
  <2> SUFFICES ASSUME NEW t \in Terms, NEW f \in [Terms -> V], NEW g \in [Terms -> V],
                      \A i \in DOMAIN t.terms : f[t.terms[i]] = g[t.terms[i]]
               PROVE  G[<<t, f>>] = G[<<t, g>>]
    BY DEF Local
  <2>1. \A d \in Deployments : PartsOf(f, t, d) = PartsOf(g, t, d)
    BY DEF PartsOf
  <2>2. Value(t, f) = Value(t, g)
    BY <2>1 DEF Value
  <2>3. QED
    BY <1>4, <2>2
<1>6. PICK f : Solves(f, V, G)
  BY <1>2, <1>3, <1>5, TermRecursion
<1>7. Same(f)
  <2>1. f \in [Terms -> V] /\ \A t \in Terms : f[t] = Value(t, f)
    BY <1>4, <1>6 DEF Solves
  <2>2. f = [t \in Terms |-> f[t]]
    BY <2>1
  <2>3. f = [t \in Terms |-> Value(t, f)]
    BY <2>1, <2>2
  <2>4. QED
    BY <2>3 DEF Value, PartsOf
<1>8. Evaluate = CHOOSE g : Same(g)
  BY DEF Evaluate
<1>9. Same(Evaluate)
  <2> HIDE DEF Same
  <2>1. QED
    BY <1>7, <1>8
<1>10. \A t \in Terms : Evaluate[t] = Value(t, Evaluate)
  BY <1>9 DEF Value, PartsOf
<1> HIDE DEF Same
<1> DEFINE T == {t \in Terms : Evaluate[t] \in V}
<1>11. ASSUME NEW t \in Terms, \A i \in DOMAIN t.terms : t.terms[i] \in T
       PROVE  t \in T
  <2>1. ASSUME NEW d \in Deployments
        PROVE  EvaluateSelector(t, d, PartsOf(Evaluate, t, d)) \in Results
    <3>1. \A i \in DOMAIN t.terms : PartsOf(Evaluate, t, d)[i] \in Results
      BY <1>11 DEF PartsOf, V
    <3>2. DOMAIN PartsOf(Evaluate, t, d) = DOMAIN t.terms
      BY DEF PartsOf
    <3>3. QED
      BY <3>1, <3>2, ResultType
  <2>2. Value(t, Evaluate) \in V
    BY <2>1 DEF Value, V
  <2>3. QED
    BY <1>10, <2>2
<1>12. Terms \subseteq T
  <2> HIDE DEF T
  <2>1. QED
    BY <1>11, TermInduction
<1>13. QED
  BY <1>10, <1>12 DEF V, Value

\* So is Meanings.
LEMMA MeaningsStep ==
  \A t \in Terms : \A d \in Deployments :
    Meanings[t][d] = MeaningsOf(t, d, PartsOf(Meanings, t, d))
<1> DEFINE V == [Deployments -> SUBSET {"match", "noMatch"}]
           Value(t, f) == [d \in Deployments |-> MeaningsOf(t, d, PartsOf(f, t, d))]
           G == [p \in Terms \X [Terms -> V] |-> Value(p[1], p[2])]
           Same(f) == f = [t \in Terms |-> [d \in Deployments |->
             MeaningsOf(t, d, [i \in DOMAIN t.terms |-> f[t.terms[i]][d]])]]
<1>1. ASSUME NEW t \in Terms, NEW f \in [Terms -> V] PROVE Value(t, f) \in V
  <2>1. ASSUME NEW d \in Deployments, NEW parts
        PROVE  MeaningsOf(t, d, parts) \in SUBSET {"match", "noMatch"}
    BY DEF MeaningsOf
  <2>2. QED
    BY <2>1
<1>2. [d \in Deployments |-> {"match"}] \in V
  OBVIOUS
<1> HIDE DEF V, Value
<1>3. G \in [Terms \X [Terms -> V] -> V]
  BY <1>1
<1>4. \A t \in Terms : \A f \in [Terms -> V] : G[<<t, f>>] = Value(t, f)
  OBVIOUS
<1> HIDE DEF G
<1>5. Local(V, G)
  <2> SUFFICES ASSUME NEW t \in Terms, NEW f \in [Terms -> V], NEW g \in [Terms -> V],
                      \A i \in DOMAIN t.terms : f[t.terms[i]] = g[t.terms[i]]
               PROVE  G[<<t, f>>] = G[<<t, g>>]
    BY DEF Local
  <2>1. \A d \in Deployments : PartsOf(f, t, d) = PartsOf(g, t, d)
    BY DEF PartsOf
  <2>2. Value(t, f) = Value(t, g)
    BY <2>1 DEF Value
  <2>3. QED
    BY <1>4, <2>2
<1>6. PICK f : Solves(f, V, G)
  BY <1>2, <1>3, <1>5, TermRecursion
<1>7. Same(f)
  <2>1. f \in [Terms -> V] /\ \A t \in Terms : f[t] = Value(t, f)
    BY <1>4, <1>6 DEF Solves
  <2>2. f = [t \in Terms |-> f[t]]
    BY <2>1
  <2>3. f = [t \in Terms |-> Value(t, f)]
    BY <2>1, <2>2
  <2>4. QED
    BY <2>3 DEF Value, PartsOf
<1>8. Meanings = CHOOSE g : Same(g)
  BY DEF Meanings
<1>9. Same(Meanings)
  <2> HIDE DEF Same
  <2>1. QED
    BY <1>7, <1>8
<1>10. \A t \in Terms : Meanings[t] = Value(t, Meanings)
  BY <1>9 DEF Value, PartsOf
<1>11. QED
  BY <1>10 DEF Value

\* The kind of a term: one at most.
LEMMA OneKind ==
  ASSUME NEW t, NEW k, NEW l, Only(t, k), Only(t, l)
  PROVE  k = l
BY DEF Only

\* An alternative decides if it matches, and a term that none decides means
\* that none matches; a failure ends both.
LEMMA OrAsMeant ==
  ASSUME NEW t \in Terms, NEW d \in Deployments, Only(t, "or"), t.terms # <<>>,
         NEW results, DOMAIN results = DOMAIN t.terms,
         NEW parts, DOMAIN parts = DOMAIN t.terms,
         \A i \in DOMAIN t.terms : /\ results[i] \in Results
                                   /\ results[i] # "error" => parts[i] = {results[i]},
         Or(results) # "error"
  PROVE  MeaningsOf(t, d, parts) = {Or(results)}
<1>1. /\ ~Only(t, "matchTenant") /\ ~Only(t, "matchLabel") /\ ~Only(t, "and")
      /\ ~Only(t, "not")
  BY OneKind
<1>2. DOMAIN results \subseteq Nat /\ 1 \in DOMAIN t.terms
  <2>1. t.terms \in Seq(Terms)
    BY TermFields
  <2>2. QED
    BY <2>1
<1> DEFINE Some(r) == \E i \in DOMAIN parts : r \in parts[i]
           All(r) == \A i \in DOMAIN parts : r \in parts[i]
<1>3. MeaningsOf(t, d, parts) =
        {r \in {"match", "noMatch"} : IF r = "match" THEN Some(r) ELSE All(r)}
  BY <1>1 DEF MeaningsOf
<1>4. CASE Or(results) = "noMatch" /\ \A i \in DOMAIN results : results[i] = "noMatch"
  <2>1. \A i \in DOMAIN parts : parts[i] = {"noMatch"}
    BY <1>4
  <2>2. ~Some("match") /\ All("noMatch")
    BY <2>1
  <2>3. QED
    BY <1>3, <1>4, <2>2
<1>5. CASE \E i \in DOMAIN results : results[i] # "noMatch" /\ Or(results) = results[i]
  <2>1. PICK i \in DOMAIN results : results[i] # "noMatch" /\ Or(results) = results[i]
    BY <1>5
  <2>2. results[i] = "match" /\ parts[i] = {"match"}
    BY <2>1 DEF Results
  <2>3. Some("match") /\ ~All("noMatch")
    BY <2>2
  <2>4. QED
    BY <1>3, <2>1, <2>2, <2>3
<1>6. QED
  BY <1>2, <1>4, <1>5, ChainFacts DEF Or

\* The same of conjuncts, with the results exchanged.
LEMMA AndAsMeant ==
  ASSUME NEW t \in Terms, NEW d \in Deployments, Only(t, "and"), t.terms # <<>>,
         NEW results, DOMAIN results = DOMAIN t.terms,
         NEW parts, DOMAIN parts = DOMAIN t.terms,
         \A i \in DOMAIN t.terms : /\ results[i] \in Results
                                   /\ results[i] # "error" => parts[i] = {results[i]},
         And(results) # "error"
  PROVE  MeaningsOf(t, d, parts) = {And(results)}
<1>1. /\ ~Only(t, "matchTenant") /\ ~Only(t, "matchLabel") /\ ~Only(t, "or")
      /\ ~Only(t, "not")
  BY OneKind
<1>2. DOMAIN results \subseteq Nat /\ 1 \in DOMAIN t.terms
  <2>1. t.terms \in Seq(Terms)
    BY TermFields
  <2>2. QED
    BY <2>1
<1> DEFINE Some(r) == \E i \in DOMAIN parts : r \in parts[i]
           All(r) == \A i \in DOMAIN parts : r \in parts[i]
<1>3. MeaningsOf(t, d, parts) =
        {r \in {"match", "noMatch"} : IF r = "match" THEN All(r) ELSE Some(r)}
  BY <1>1 DEF MeaningsOf
<1>4. CASE And(results) = "match" /\ \A i \in DOMAIN results : results[i] = "match"
  <2>1. \A i \in DOMAIN parts : parts[i] = {"match"}
    BY <1>4
  <2>2. All("match") /\ ~Some("noMatch")
    BY <2>1
  <2>3. QED
    BY <1>3, <1>4, <2>2
<1>5. CASE \E i \in DOMAIN results : results[i] # "match" /\ And(results) = results[i]
  <2>1. PICK i \in DOMAIN results : results[i] # "match" /\ And(results) = results[i]
    BY <1>5
  <2>2. results[i] = "noMatch" /\ parts[i] = {"noMatch"}
    BY <2>1 DEF Results
  <2>3. ~All("match") /\ Some("noMatch")
    BY <2>2
  <2>4. QED
    BY <1>3, <2>1, <2>2, <2>3
<1>6. QED
  BY <1>2, <1>4, <1>5, ChainFacts DEF And

\* A negation means the opposite.
LEMMA NotAsMeant ==
  ASSUME NEW t \in Terms, NEW d \in Deployments, Only(t, "not"),
         NEW result \in Results, result # "error", NEW parts, parts[1] = {result}
  PROVE  MeaningsOf(t, d, parts) = {Not(result)}
<1>1. ~Only(t, "matchTenant") /\ ~Only(t, "matchLabel") /\ ~Only(t, "or") /\ ~Only(t, "and")
  BY OneKind
<1>2. MeaningsOf(t, d, parts) = {r \in {"match", "noMatch"} : Opposite(r) \in parts[1]}
  BY <1>1 DEF MeaningsOf
<1>3. result = "match" \/ result = "noMatch"
  BY DEF Results
<1>4. QED
  BY <1>2, <1>3 DEF Opposite, Not

\* A term is only taken to match, or not, if that is what it means: no failure
\* of a part decides where a deployment goes, however terms are nested.
THEOREM NeverGuesses ==
  \A t \in Terms : \A d \in Deployments : NoGuess(t, d)
<1> DEFINE T == {t \in Terms : \A d \in Deployments : NoGuess(t, d)}
<1>1. ASSUME NEW t \in Terms, \A i \in DOMAIN t.terms : t.terms[i] \in T
      PROVE  t \in T
  <2> SUFFICES ASSUME NEW d \in Deployments, Evaluate[t][d] # "error"
               PROVE  Meanings[t][d] = {Evaluate[t][d]}
    BY DEF NoGuess
  <2> DEFINE results == PartsOf(Evaluate, t, d)
             parts == PartsOf(Meanings, t, d)
  <2>1. DOMAIN results = DOMAIN t.terms /\ DOMAIN parts = DOMAIN t.terms
    BY DEF PartsOf
  <2>2. \A i \in DOMAIN t.terms : /\ results[i] \in Results
                                  /\ results[i] # "error" => parts[i] = {results[i]}
    BY <1>1, TermFields, EvaluateStep DEF PartsOf, NoGuess
  <2>3. Evaluate[t][d] = EvaluateSelector(t, d, results)
    BY EvaluateStep
  <2>4. Meanings[t][d] = MeaningsOf(t, d, parts)
    BY MeaningsStep
  <2> HIDE DEF results, parts
  <2>5. CASE Only(t, "matchTenant") \/ Only(t, "matchLabel")
    BY <2>3, <2>4, <2>5, OneKind DEF EvaluateSelector, MeaningsOf
  <2>6. CASE Only(t, "or") /\ t.terms # <<>>
    <3>1. Evaluate[t][d] = Or(results)
      BY <2>3, <2>6, OneKind DEF EvaluateSelector
    <3>2. QED
      BY <2>1, <2>2, <2>4, <2>6, <3>1, OrAsMeant
  <2>7. CASE Only(t, "and") /\ t.terms # <<>>
    <3>1. Evaluate[t][d] = And(results)
      BY <2>3, <2>7, OneKind DEF EvaluateSelector
    <3>2. QED
      BY <2>1, <2>2, <2>4, <2>7, <3>1, AndAsMeant
  <2>8. CASE Only(t, "not")
    <3>1. Evaluate[t][d] = Not(results[1])
      BY <2>3, <2>8, OneKind DEF EvaluateSelector
    <3>2. results[1] # "error"
      BY <3>1 DEF Not, Opposite
    <3>3. results[1] \in Results /\ parts[1] = {results[1]}
      BY <2>2, <2>8, <3>2, TermFields
    <3>4. QED
      BY <2>4, <2>8, <3>1, <3>2, <3>3, NotAsMeant
  <2>9. CASE /\ ~Only(t, "matchTenant") /\ ~Only(t, "matchLabel") /\ ~Only(t, "not")
             /\ ~(Only(t, "or") /\ t.terms # <<>>) /\ ~(Only(t, "and") /\ t.terms # <<>>)
    BY <2>3, <2>9 DEF EvaluateSelector
  <2>10. QED
    BY <2>5, <2>6, <2>7, <2>8, <2>9
<1>2. Terms \subseteq T
  <2> HIDE DEF T
  <2>1. QED
    BY <1>1, TermInduction
<1>3. QED
  BY <1>2

\* What validateSchedulingSelector accepts EvaluateSelector can evaluate, empty
\* lists excepted.
THEOREM AcceptedDecides ==
  \A t \in Terms : \A d \in Deployments : AcceptedIsDecided(t, d)
<1> DEFINE T == {t \in Terms : \A d \in Deployments : AcceptedIsDecided(t, d)}
<1>1. ASSUME NEW t \in Terms, \A i \in DOMAIN t.terms : t.terms[i] \in T
      PROVE  t \in T
  <2> SUFFICES ASSUME NEW d \in Deployments, Valid[t], ~HasEmptyList[t]
               PROVE  Evaluate[t][d] # "error"
    BY DEF AcceptedIsDecided
  <2> DEFINE results == PartsOf(Evaluate, t, d)
  <2>1. DOMAIN results = DOMAIN t.terms /\ DOMAIN results \subseteq Nat
    BY TermFields DEF PartsOf
  <2>2. WellFormed(t, Parts(Valid, t))
    BY ValidStep
  <2>3. \A i \in DOMAIN t.terms : Valid[t.terms[i]] /\ ~HasEmptyList[t.terms[i]]
    BY <2>2, HasEmptyListStep DEF WellFormed, Parts
  <2>4. \A i \in DOMAIN t.terms : results[i] \in Results /\ results[i] # "error"
    BY <1>1, <2>3, TermFields, EvaluateStep DEF PartsOf, AcceptedIsDecided
  <2>5. Evaluate[t][d] = EvaluateSelector(t, d, results)
    BY EvaluateStep
  <2> HIDE DEF results
  <2>6. \E k \in Kinds : Only(t, k)
    <3>1. t.kinds \subseteq Kinds /\ IsFiniteSet(Kinds)
      <4>1. IsFiniteSet({"matchTenant"})
        BY FS_Singleton
      <4>2. IsFiniteSet({"matchTenant"} \cup {"matchLabel"})
        BY <4>1, FS_AddElement
      <4>3. IsFiniteSet(({"matchTenant"} \cup {"matchLabel"}) \cup {"or"})
        BY <4>2, FS_AddElement
      <4>4. IsFiniteSet((({"matchTenant"} \cup {"matchLabel"}) \cup {"or"}) \cup {"and"})
        BY <4>3, FS_AddElement
      <4>5. IsFiniteSet(((({"matchTenant"} \cup {"matchLabel"}) \cup {"or"}) \cup {"and"})
                        \cup {"not"})
        BY <4>4, FS_AddElement
      <4>6. Kinds = ((({"matchTenant"} \cup {"matchLabel"}) \cup {"or"}) \cup {"and"})
                    \cup {"not"}
        BY DEF Kinds
      <4>7. QED
        BY <4>5, <4>6, TermFields
    <3>2. IsFiniteSet(t.kinds) /\ Cardinality(t.kinds) = 1
      BY <2>2, <3>1, FS_Subset DEF WellFormed
    <3>3. PICK k : t.kinds = {k}
      BY <3>2, FS_Singleton
    <3>4. QED
      BY <3>1, <3>3 DEF Only
  <2>7. \A neutral \in {"match", "noMatch"} : Chain(results, neutral) # "error"
    BY <2>1, <2>4, ChainFacts
  <2>8. CASE Only(t, "matchTenant") \/ Only(t, "matchLabel")
    BY <2>5, <2>8, OneKind DEF EvaluateSelector
  <2>9. CASE Only(t, "or")
    <3>1. t.terms # <<>>
      BY <2>9, HasEmptyListStep DEF LacksTerms
    <3>2. Evaluate[t][d] = Or(results)
      BY <2>5, <2>9, <3>1, OneKind DEF EvaluateSelector
    <3>3. QED
      BY <2>7, <3>2 DEF Or
  <2>10. CASE Only(t, "and")
    <3>1. t.terms # <<>>
      BY <2>10, HasEmptyListStep DEF LacksTerms
    <3>2. Evaluate[t][d] = And(results)
      BY <2>5, <2>10, <3>1, OneKind DEF EvaluateSelector
    <3>3. QED
      BY <2>7, <3>2 DEF And
  <2>11. CASE Only(t, "not")
    <3>1. Evaluate[t][d] = Not(results[1])
      BY <2>5, <2>11, OneKind DEF EvaluateSelector
    <3>2. results[1] \in Results /\ results[1] # "error"
      BY <2>4, <2>11, TermFields
    <3>3. QED
      BY <3>1, <3>2 DEF Not, Opposite, Results
  <2>12. QED
    BY <2>6, <2>8, <2>9, <2>10, <2>11 DEF Kinds
<1>2. Terms \subseteq T
  <2> HIDE DEF T
  <2>1. QED
    BY <1>1, TermInduction
<1>3. QED
  BY <1>2

\* The same of the list of terms of a rule.
LEMMA AcceptedRuleDecides ==
  ASSUME NEW rule \in Rules, NEW d \in Deployments, ValidRule(rule), Malformed(rule, d)
  PROVE  \E i \in DOMAIN rule.selector : HasEmptyList[rule.selector[i]]
<1> SUFFICES ASSUME \A i \in DOMAIN rule.selector : ~HasEmptyList[rule.selector[i]]
             PROVE  FALSE
  OBVIOUS
<1> DEFINE results == [i \in DOMAIN rule.selector |-> Evaluate[rule.selector[i]][d]]
<1>1. rule.selector \in Seq(Terms) /\ rule.priority \in Int
  BY RuleFields
<1>2. \A i \in DOMAIN rule.selector : rule.selector[i] \in Terms /\ Valid[rule.selector[i]]
  BY <1>1 DEF ValidRule
<1>3. DOMAIN results \subseteq Nat /\ \A i \in DOMAIN results : results[i] # "error"
  BY <1>1, <1>2, AcceptedDecides DEF AcceptedIsDecided
<1>4. EvaluateSelectorList(rule.selector, d) = Chain(results, "match")
  BY DEF EvaluateSelectorList, And
<1> HIDE DEF results
<1>5. EvaluateSelectorList(rule.selector, d) # "error"
  BY <1>3, <1>4, ChainFacts
<1>6. QED
  BY <1>1, <1>5 DEF ValidRule, Malformed

-----------------------------------------------------------------------------
(***************************************************************************)
(* The invariant.                                                          *)
(***************************************************************************)
\* An entry that is not stale is that of the Instance of its deployment, and
\* only an Instance is deleted.
Tracked ==
  /\ \A c \in Configs : \A d \in refs[c] : assigned[d] = c
  /\ \A d \in leaving : assigned[d] # NoConfig

\* The types, the entries, and that the webhook has let the rules pass.
IInv == TypeOK /\ Tracked /\ Accepted(rules)

\* The rules are well-typed.
LEMMA RulesAreRules ==
  TypeOK => rules \in Seq(Rules) /\ \A n \in DOMAIN rules : rules[n] \in Rules
<1> SUFFICES ASSUME TypeOK PROVE rules \in Seq(Rules) /\ \A n \in DOMAIN rules : rules[n] \in Rules
  OBVIOUS
<1>1. rules \in Seq(Rules)
  BY RulesAssumption DEF TypeOK
<1>2. QED
  BY <1>1

\* The lists of Instances are finite.
LEMMA ListsAreCounted == TypeOK => Counted
<1> SUFFICES ASSUME TypeOK, NEW c \in Configs PROVE Usage(c) \in Nat
  BY DEF Counted
<1>1. refs[c] \subseteq Deployments /\ stale[c] \in Nat
  BY DEF TypeOK
<1>2. IsFiniteSet(refs[c])
  BY <1>1, NamesAssumption, FS_Subset
<1>3. Cardinality(refs[c]) \in Nat
  BY <1>2, FS_CardinalityType
<1>4. QED
  BY <1>1, <1>3 DEF Usage

\* What a deployment is given, if anything: a config to choose from, of those
\* one with the highest number unless there is an overflow.
LEMMA ScheduleGives ==
  ASSUME TypeOK, NEW d \in Deployments, Schedule(d)
  PROVE  \E c \in ConfigsFor(d) :
           /\ c \in Configs /\ assigned' = [assigned EXCEPT ![d] = c]
           /\ ~Overflow(ConfigsFor(d)) => c \in Highest(ConfigsFor(d))
<1>1. PICK c \in PickServiceTargetConfig(ConfigsFor(d)) :
        assigned' = [assigned EXCEPT ![d] = c]
  BY DEF Schedule
<1>2. ConfigsFor(d) \subseteq Configs /\ ConfigsFor(d) # {}
  BY DEF Schedule, ConfigsFor, Visible
<1>3. Counted
  BY ListsAreCounted
<1>4. c \in ConfigsFor(d) /\ (~Overflow(ConfigsFor(d)) => c \in Highest(ConfigsFor(d)))
  BY <1>2, <1>3, PickIsHighest
<1>5. QED
  BY <1>1, <1>2, <1>4

\* The invariant holds at first.
LEMMA InitIInv == Init => IInv
<1> SUFFICES ASSUME Init PROVE IInv
  OBVIOUS
<1>1. TypeOK
  BY BoundsAssumption DEF Init, TypeOK
<1>2. Tracked
  BY DEF Init, Tracked
<1>3. QED
  BY <1>1, <1>2 DEF Init, IInv

\* A scheduling only changes what no list has yet.
LEMMA ScheduleIInv ==
  ASSUME IInv, NEW d \in Deployments, Schedule(d)
  PROVE  IInv'
<1>1. PICK c \in Configs : assigned' = [assigned EXCEPT ![d] = c]
  BY ScheduleGives DEF IInv
<1>2. /\ assigned' \in [Deployments -> Configs \cup {NoConfig}] /\ assigned'[d] = c
      /\ \A a \in Deployments : a # d => assigned'[a] = assigned[a]
  BY <1>1 DEF IInv, TypeOK
<1>3. TypeOK'
  BY <1>2 DEF IInv, TypeOK, Schedule, lists
<1>4. /\ \A e \in Configs : \A a \in refs[e] : a # d /\ a \in Deployments
      /\ leaving \subseteq Deployments
  BY NamesAssumption DEF IInv, TypeOK, Tracked, Schedule
<1>5. Tracked'
  BY <1>2, <1>4, NamesAssumption DEF IInv, Tracked, Schedule, lists
<1>6. Accepted(rules)'
  BY DEF IInv, Accepted, Schedule
<1>7. QED
  BY <1>3, <1>5, <1>6 DEF IInv

\* The reference is added to the list of the deployment's config.
LEMMA ListIInv ==
  ASSUME IInv, NEW d \in Deployments, List(d)
  PROVE  IInv'
<1> USE DEF IInv
<1>1. assigned[d] \in Configs /\ refs' = [refs EXCEPT ![assigned[d]] = @ \cup {d}]
  BY DEF List, TypeOK
<1>2. /\ refs' \in [Configs -> SUBSET Deployments]
      /\ \A c \in Configs : \A a \in refs'[c] : a \in refs[c] \/ (c = assigned[d] /\ a = d)
  BY <1>1 DEF TypeOK
<1>3. TypeOK'
  BY <1>2 DEF List, instances, TypeOK
<1>4. Tracked'
  BY <1>2 DEF List, instances, Tracked
<1>5. QED
  BY <1>3, <1>4 DEF List, Accepted

\* The Instance is deleted.
LEMMA DeleteInstanceIInv ==
  ASSUME IInv, NEW d \in Deployments, DeleteInstance(d)
  PROVE  IInv'
<1> USE DEF IInv
<1>1. assigned[d] \in Configs /\ removed' = [removed EXCEPT ![assigned[d]] = @ + 1]
  BY DEF DeleteInstance, TypeOK
<1>2. removed' \in [Configs -> Nat]
  BY <1>1 DEF TypeOK
<1>3. leaving' = leaving \cup {d} /\ assigned' = assigned /\ assigned[d] # NoConfig
  BY DEF DeleteInstance
<1>4. TypeOK'
  BY <1>2, <1>3 DEF DeleteInstance, lists, TypeOK
<1>5. Tracked'
  BY <1>3 DEF DeleteInstance, lists, Tracked
<1>6. QED
  BY <1>4, <1>5 DEF DeleteInstance, Accepted

\* Its reference is taken off the list.
LEMMA RemoveEntryIInv ==
  ASSUME IInv, NEW d \in Deployments, RemoveEntry(d)
  PROVE  IInv'
<1> USE DEF IInv
<1>1. refs' = [refs EXCEPT ![assigned[d]] = @ \ {d}]
  BY DEF RemoveEntry
<1>2. /\ refs' \in [Configs -> SUBSET Deployments]
      /\ \A c \in Configs : refs'[c] \subseteq refs[c]
  BY <1>1 DEF TypeOK
<1>3. TypeOK'
  BY <1>2 DEF RemoveEntry, instances, TypeOK
<1>4. Tracked'
  BY <1>2 DEF RemoveEntry, instances, Tracked
<1>5. QED
  BY <1>3, <1>4 DEF RemoveEntry, Accepted

\* It is gone, and an entry that it leaves behind is stale.
LEMMA RemoveInstanceIInv ==
  ASSUME IInv, NEW d \in Deployments, RemoveInstance(d)
  PROVE  IInv'
<1> USE DEF IInv
<1>1. /\ refs' = [refs EXCEPT ![assigned[d]] = @ \ {d}]
      /\ assigned' = [assigned EXCEPT ![d] = NoConfig]
      /\ leaving' = leaving \ {d}
  BY DEF RemoveInstance
<1>2. assigned[d] \in Configs
  BY DEF RemoveInstance, TypeOK, Tracked
<1>3. /\ refs' \in [Configs -> SUBSET Deployments]
      /\ \A c \in Configs : \A a \in refs'[c] : a \in refs[c] /\ a \in Deployments
      /\ \A c \in Configs : \A a \in refs'[c] : a # d \/ c # assigned[d]
  BY <1>1, <1>2 DEF TypeOK
<1>4. /\ assigned' \in [Deployments -> Configs \cup {NoConfig}]
      /\ \A a \in Deployments : a # d => assigned'[a] = assigned[a]
  BY <1>1 DEF TypeOK
<1>5. stale' \in [Configs -> Nat]
  BY <1>2 DEF RemoveInstance, TypeOK
<1>6. TypeOK'
  BY <1>1, <1>3, <1>4, <1>5 DEF RemoveInstance, TypeOK
<1>7. \A c \in Configs : \A a \in refs'[c] : a # d
  BY <1>3 DEF Tracked
<1>8. Tracked'
  BY <1>1, <1>3, <1>4, <1>7 DEF Tracked, TypeOK
<1>9. QED
  BY <1>6, <1>8 DEF RemoveInstance, Accepted

\* Every step keeps the invariant.
LEMMA NextIInv == IInv /\ [Next]_vars => IInv'
<1> SUFFICES ASSUME IInv, [Next]_vars PROVE IInv'
  OBVIOUS
<1>1. CASE EditRules
  <2>1. TypeOK'
    BY <1>1, BoundsAssumption DEF IInv, EditRules, lists, instances, TypeOK
  <2>2. Tracked'
    BY <1>1 DEF IInv, EditRules, lists, instances, Tracked
  <2>3. Accepted(rules)'
    BY <1>1 DEF EditRules, Accepted
  <2>4. QED
    BY <2>1, <2>2, <2>3 DEF IInv
<1>2. ASSUME NEW d \in Deployments, ScheduleFails(d) PROVE IInv'
  BY <1>2 DEF IInv, ScheduleFails, lists, instances, TypeOK, Tracked, Accepted
<1>3. CASE UNCHANGED vars
  BY <1>3 DEF IInv, vars, lists, instances, TypeOK, Tracked, Accepted
<1>4. QED
  BY <1>1, <1>2, <1>3, ScheduleIInv, ListIInv, DeleteInstanceIInv, RemoveEntryIInv,
     RemoveInstanceIInv DEF Next

\* So it always holds.
LEMMA Invariance == Spec => []IInv
BY InitIInv, NextIInv, PTL DEF Spec

-----------------------------------------------------------------------------
(***************************************************************************)
(* The theorems.                                                           *)
(***************************************************************************)
\* The variables have their types.
LEMMA TypeCorrect == Spec => []TypeOK
<1>1. IInv => TypeOK
  BY DEF IInv
<1>2. QED
  BY <1>1, Invariance, PTL

\* What the scheduler makes of a term is what the term means, and the webhook
\* only lets a term pass that has a meaning, however the terms are nested.
THEOREM TermsAreEvaluatedAsMeant == Spec => []EvaluatedAsMeant
<1>1. IInv => EvaluatedAsMeant
  BY NeverGuesses, AcceptedDecides DEF EvaluatedAsMeant
<1>2. QED
  BY <1>1, Invariance, PTL

\* What a step does to a deployment that has no config.
LEMMA OnlyScheduleAssigns ==
  ASSUME TypeOK, [Next]_vars, NEW d \in Deployments,
         assigned[d] = NoConfig, assigned'[d] # NoConfig
  PROVE  Schedule(d)
<1>1. ~EditRules /\ ~UNCHANGED vars
  BY DEF EditRules, vars, instances
<1>2. PICK e \in Deployments : \/ Schedule(e) \/ ScheduleFails(e) \/ List(e)
                              \/ DeleteInstance(e) \/ RemoveEntry(e) \/ RemoveInstance(e)
  BY <1>1 DEF Next
<1>3. ~ScheduleFails(e) /\ ~List(e) /\ ~DeleteInstance(e) /\ ~RemoveEntry(e)
  BY DEF ScheduleFails, List, DeleteInstance, RemoveEntry, instances
<1>4. ~RemoveInstance(e)
  BY DEF RemoveInstance, TypeOK
<1>5. Schedule(e)
  BY <1>2, <1>3, <1>4
<1>6. PICK c \in Configs : assigned' = [assigned EXCEPT ![e] = c]
  BY <1>5, ScheduleGives
<1>7. d = e
  BY <1>6 DEF TypeOK
<1>8. QED
  BY <1>5, <1>7

\* Only a scheduling that fails adds a failure.
LEMMA OnlyScheduleFailsFails ==
  ASSUME [Next]_vars, NEW d \in Deployments, d \in failed' \ failed
  PROVE  ScheduleFails(d)
BY DEF Next, vars, EditRules, Schedule, ScheduleFails, List, DeleteInstance, RemoveEntry,
       RemoveInstance

\* A scheduling that fails has a malformed rule, or no config.
LEMMA FailsForAReason ==
  ASSUME TypeOK, NEW d \in Deployments, ScheduleFails(d)
  PROVE  Documented(d) = {} \/ \E n \in DOMAIN rules : Malformed(rules[n], d)
<1>1. rules \in Seq(Rules)
  BY RulesAreRules
<1>2. CASE EvaluateRules(d).error
  <2>1. PICK k \in 1 .. Len(rules) : Malformed(rules[k], d)
    BY <1>1, <1>2, SoFarAll DEF SoFar, Justified
  <2>2. QED
    BY <1>1, <2>1
<1>3. CASE ~EvaluateRules(d).error
  <2>1. ConfigsFor(d) = {}
    BY <1>3 DEF ScheduleFails
  <2>2. QED
    BY <1>1, <1>3, <2>1, ConfigsForIsDocumented
<1>4. QED
  BY <1>2, <1>3

\* A deployment is given a config that the documentation chooses from, with
\* the highest number among them as long as no product overflows: for all
\* rules, terms, configs and lists of Instances.
THEOREM PicksAsDocumented == Spec => PickAsDocumented
<1> DEFINE Picks(d) ==
      assigned[d] = NoConfig /\ assigned'[d] # NoConfig =>
        /\ assigned'[d] \in Documented(d)
        /\ ~Overflow(Documented(d)) => assigned'[d] \in Highest(Documented(d))
<1>1. ASSUME TypeOK, [Next]_vars, NEW d \in Deployments PROVE Picks(d)
  <2> SUFFICES ASSUME assigned[d] = NoConfig, assigned'[d] # NoConfig
               PROVE  /\ assigned'[d] \in Documented(d)
                      /\ ~Overflow(Documented(d)) => assigned'[d] \in Highest(Documented(d))
    OBVIOUS
  <2>1. Schedule(d)
    BY <1>1, OnlyScheduleAssigns
  <2>2. ConfigsFor(d) = Documented(d)
    BY <1>1, <2>1, RulesAreRules, ConfigsForIsDocumented DEF Schedule
  <2>3. PICK c \in ConfigsFor(d) :
          /\ c \in Configs /\ assigned' = [assigned EXCEPT ![d] = c]
          /\ ~Overflow(ConfigsFor(d)) => c \in Highest(ConfigsFor(d))
    BY <1>1, <2>1, ScheduleGives
  <2>4. assigned'[d] = c
    BY <1>1, <2>3 DEF TypeOK
  <2>5. QED
    BY <2>2, <2>3, <2>4
<1>2. TypeOK /\ [Next]_vars => [\A d \in Deployments : Picks(d)]_vars
  <2> HIDE DEF Picks
  <2>1. QED
    BY <1>1
<1>3. QED
  BY <1>2, TypeCorrect, PTL DEF Spec, PickAsDocumented

\* A scheduling fails because of a malformed rule, or because there is no
\* config; and a deployment is only given a config if every malformed rule
\* comes after a rule of higher priority that matches.
THEOREM FailuresAreJustified == Spec => FailureJustified
<1> DEFINE Step(d) ==
      /\ d \in failed' \ failed =>
           \/ Documented(d) = {}
           \/ \E n \in DOMAIN rules : Malformed(rules[n], d)
      /\ assigned[d] = NoConfig /\ assigned'[d] # NoConfig =>
           \A n \in DOMAIN rules : Malformed(rules[n], d) =>
             \E m \in 1 .. n - 1 : /\ EvaluateSelectorList(rules[m].selector, d) = "match"
                                   /\ rules[m].priority > rules[n].priority
<1>1. ASSUME TypeOK, [Next]_vars, NEW d \in Deployments, d \in failed' \ failed
      PROVE  Documented(d) = {} \/ \E n \in DOMAIN rules : Malformed(rules[n], d)
  BY <1>1, OnlyScheduleFailsFails, FailsForAReason
<1>2. ASSUME TypeOK, [Next]_vars, NEW d \in Deployments,
             assigned[d] = NoConfig, assigned'[d] # NoConfig,
             NEW n \in DOMAIN rules, Malformed(rules[n], d)
      PROVE  \E m \in 1 .. n - 1 : /\ EvaluateSelectorList(rules[m].selector, d) = "match"
                                   /\ rules[m].priority > rules[n].priority
  <2>1. rules \in Seq(Rules)
    BY <1>2, RulesAreRules
  <2>2. ~EvaluateRules(d).error
    BY <1>2, OnlyScheduleAssigns DEF Schedule
  <2>3. OutdoneSoFar(Len(rules), d)
    BY <2>1, <2>2, SoFarAll DEF SoFar
  <2>4. Outdone(n, d)
    BY <1>2, <2>1, <2>3 DEF OutdoneSoFar
  <2>5. QED
    BY <2>4 DEF Outdone, Matching
<1>3. ASSUME TypeOK, [Next]_vars, NEW d \in Deployments PROVE Step(d)
  BY <1>1, <1>2, <1>3
<1>4. TypeOK /\ [Next]_vars => [\A d \in Deployments : Step(d)]_vars
  <2> HIDE DEF Step
  <2>1. QED
    BY <1>3
<1>5. QED
  BY <1>4, TypeCorrect, PTL DEF Spec, FailureJustified

\* With the webhook no scheduling fails as long as there is a config, unless
\* there is an empty list of terms in a rule.
THEOREM AcceptedRulesSchedule == Spec => AcceptedSchedules
<1> DEFINE Reason(d) ==
      checked /\ d \in failed' \ failed =>
        \/ Documented(d) = {}
        \/ \E n \in DOMAIN rules : \E i \in DOMAIN rules[n].selector :
             HasEmptyList[rules[n].selector[i]]
<1>1. ASSUME IInv, [Next]_vars, NEW d \in Deployments PROVE Reason(d)
  <2> SUFFICES ASSUME checked, d \in failed' \ failed, Documented(d) # {}
               PROVE  \E n \in DOMAIN rules : \E i \in DOMAIN rules[n].selector :
                        HasEmptyList[rules[n].selector[i]]
    OBVIOUS
  <2>1. TypeOK /\ Accepted(rules)
    BY <1>1 DEF IInv
  <2>2. PICK n \in DOMAIN rules : Malformed(rules[n], d)
    BY <1>1, <2>1, OnlyScheduleFailsFails, FailsForAReason
  <2>3. rules[n] \in Rules /\ ValidRule(rules[n])
    BY <2>1, RulesAreRules DEF Accepted
  <2>4. QED
    BY <2>2, <2>3, AcceptedRuleDecides
<1>2. IInv /\ [Next]_vars => [\A d \in Deployments : Reason(d)]_vars
  <2> HIDE DEF Reason
  <2>1. QED
    BY <1>1
<1>3. QED
  BY <1>2, Invariance, PTL DEF Spec, AcceptedSchedules

-----------------------------------------------------------------------------
(***************************************************************************)
(* The default scheduling shares out fairly.                               *)
(***************************************************************************)
\* What module FairShare sees, in the words of this one.
Load(c) == Cardinality(Serving(c))

Deleted(c) == {d \in leaving : assigned[d] = c}

\* These sets are finite and have nothing in common.
LEMMA ServingAndDeleted ==
  ASSUME TypeOK, NEW c \in Configs
  PROVE  /\ IsFiniteSet(Serving(c)) /\ IsFiniteSet(Deleted(c))
         /\ Cardinality(Serving(c)) \in Nat /\ Cardinality(Deleted(c)) \in Nat
         /\ Load(c) \in Nat /\ Lingering(c) \in Nat /\ stale[c] \in Nat
         /\ Lingering(c) = Cardinality(Deleted(c)) + stale[c]
         /\ removed[c] \in Nat
<1>1. Serving(c) \subseteq Deployments /\ Deleted(c) \subseteq Deployments
  BY DEF Serving, Deleted, TypeOK
<1>2. IsFiniteSet(Serving(c)) /\ IsFiniteSet(Deleted(c))
  BY <1>1, NamesAssumption, FS_Subset
<1>3. Cardinality(Serving(c)) \in Nat /\ Cardinality(Deleted(c)) \in Nat
  BY <1>2, FS_CardinalityType
<1>4. stale[c] \in Nat /\ removed[c] \in Nat
  BY DEF TypeOK
<1>5. Lingering(c) = Cardinality(Deleted(c)) + stale[c]
  BY DEF Lingering, Deleted
<1>6. QED
  BY <1>2, <1>3, <1>4, <1>5 DEF Load

\* A list that has all deployments counts at least those, and at most the
\* deleted ones with them.
LEMMA UsageIsBounded ==
  ASSUME TypeOK, Tracked, AllListed, NEW c \in Configs
  PROVE  Usage(c) \in Load(c) .. Load(c) + Lingering(c)
<1> DEFINE S == Serving(c)
           D == Deleted(c)
<1>1. refs[c] \subseteq Deployments
  BY DEF TypeOK
<1>2. S \subseteq refs[c] /\ refs[c] \subseteq S \cup D
  BY <1>1 DEF AllListed, Tracked, Serving, Deleted
<1>3. /\ IsFiniteSet(S) /\ IsFiniteSet(D) /\ Cardinality(S) \in Nat /\ Cardinality(D) \in Nat
      /\ Lingering(c) = Cardinality(D) + stale[c] /\ stale[c] \in Nat
  BY ServingAndDeleted
<1>4. Load(c) = Cardinality(S)
  BY DEF Load
<1> HIDE DEF S, D
<1>5. /\ IsFiniteSet(S \cup D) /\ IsFiniteSet(S \cap D)
      /\ Cardinality(S \cup D) = Cardinality(S) + Cardinality(D) - Cardinality(S \cap D)
  BY <1>3, FS_Union, FS_Intersection
<1>6. Cardinality(S \cap D) \in Nat
  BY <1>5, FS_CardinalityType
<1>7. IsFiniteSet(refs[c]) /\ Cardinality(refs[c]) \in Nat
  BY <1>2, <1>5, FS_Subset, FS_CardinalityType
<1>8. Cardinality(S) <= Cardinality(refs[c])
  BY <1>2, <1>7, FS_Subset
<1>9. Cardinality(refs[c]) <= Cardinality(S \cup D)
  BY <1>2, <1>5, FS_Subset
<1>10. QED
  BY <1>3, <1>4, <1>5, <1>6, <1>7, <1>8, <1>9 DEF Usage

\* The load of the config that is chosen grows by one, and no other.
LEMMA LoadGrows ==
  ASSUME TypeOK, Tracked, NEW d \in Deployments, assigned[d] = NoConfig,
         NEW c \in Configs, assigned' = [assigned EXCEPT ![d] = c],
         leaving' = leaving, stale' = stale
  PROVE  \A e \in Configs : /\ Load(e)' = IF e = c THEN Load(e) + 1 ELSE Load(e)
                            /\ Lingering(e)' = Lingering(e)
<1> TAKE e \in Configs
<1>1. \A a \in Deployments : assigned'[a] = IF a = d THEN c ELSE assigned[a]
  BY DEF TypeOK
<1>2. d \notin leaving /\ leaving \subseteq Deployments /\ e # NoConfig
  BY NamesAssumption DEF Tracked, TypeOK
<1>3. IsFiniteSet(Serving(e)) /\ d \notin Serving(e)
  BY <1>2, ServingAndDeleted DEF Serving
<1>4. Lingering(e)' = Lingering(e)
  <2>1. {a \in leaving : assigned[a] = e}' = {a \in leaving : assigned[a] = e}
    BY <1>1, <1>2
  <2>2. QED
    BY <2>1 DEF Lingering
<1>5. CASE e = c
  <2>1. Serving(e)' = Serving(e) \cup {d}
    BY <1>1, <1>2, <1>5 DEF Serving
  <2>2. QED
    BY <1>3, <1>4, <1>5, <2>1, FS_AddElement DEF Load
<1>6. CASE e # c
  <2>1. Serving(e)' = Serving(e)
    BY <1>1, <1>2, <1>6 DEF Serving
  <2>2. QED
    BY <1>4, <1>6, <2>1 DEF Load
<1>7. QED
  BY <1>5, <1>6

\* A deletion takes one from the load of a config and adds one to what lingers.
LEMMA LoadShrinks ==
  ASSUME TypeOK, NEW d \in Deployments, DeleteInstance(d)
  PROVE  /\ assigned[d] \in Configs /\ steady' = steady
         /\ \A e \in Configs :
              /\ Load(e)' = IF e = assigned[d] THEN Load(e) - 1 ELSE Load(e)
              /\ Lingering(e)' = IF e = assigned[d] THEN Lingering(e) + 1 ELSE Lingering(e)
              /\ removed'[e] = IF e = assigned[d] THEN removed[e] + 1 ELSE removed[e]
<1>1. assigned[d] \in Configs /\ steady' = steady
  BY DEF DeleteInstance, TypeOK
<1>2. ASSUME NEW e \in Configs
      PROVE  /\ Load(e)' = IF e = assigned[d] THEN Load(e) - 1 ELSE Load(e)
             /\ Lingering(e)' = IF e = assigned[d] THEN Lingering(e) + 1 ELSE Lingering(e)
             /\ removed'[e] = IF e = assigned[d] THEN removed[e] + 1 ELSE removed[e]
  <2>1. removed'[e] = IF e = assigned[d] THEN removed[e] + 1 ELSE removed[e]
    BY <1>1 DEF DeleteInstance, TypeOK
  <2>2. /\ assigned' = assigned /\ leaving' = leaving \cup {d} /\ d \notin leaving
        /\ stale' = stale
    BY DEF DeleteInstance, lists
  <2>3. /\ IsFiniteSet(Serving(e)) /\ IsFiniteSet(Deleted(e))
        /\ Cardinality(Serving(e)) \in Nat /\ Cardinality(Deleted(e)) \in Nat
        /\ Lingering(e) = Cardinality(Deleted(e)) + stale[e] /\ stale[e] \in Nat
    BY ServingAndDeleted
  <2>4. Lingering(e)' = Cardinality(Deleted(e)') + stale[e]
    BY <2>2 DEF Lingering, Deleted
  <2>5. CASE e = assigned[d]
    <3>1. Serving(e)' = Serving(e) \ {d} /\ d \in Serving(e)
      BY <2>2, <2>5 DEF Serving
    <3>2. Cardinality(Serving(e)') = Cardinality(Serving(e)) - 1
      BY <2>3, <3>1, FS_RemoveElement
    <3>3. Deleted(e)' = Deleted(e) \cup {d} /\ d \notin Deleted(e)
      BY <2>2, <2>5 DEF Deleted
    <3>4. Cardinality(Deleted(e)') = Cardinality(Deleted(e)) + 1
      BY <2>3, <3>3, FS_AddElement
    <3>5. QED
      BY <2>1, <2>3, <2>4, <2>5, <3>2, <3>4 DEF Load
  <2>6. CASE e # assigned[d]
    <3>1. Serving(e)' = Serving(e) /\ Deleted(e)' = Deleted(e)
      BY <2>2, <2>6 DEF Serving, Deleted
    <3>2. QED
      BY <2>1, <2>3, <2>4, <2>6, <3>1 DEF Load
  <2>7. QED
    BY <2>5, <2>6
<1>3. QED
  BY <1>1, <1>2

\* An Instance that is gone lingers no longer, unless its entry does.
LEMMA LingeringShrinks ==
  ASSUME TypeOK, Tracked, NEW d \in Deployments, RemoveInstance(d)
  PROVE  /\ assigned[d] \in Configs /\ steady' = steady /\ removed' = removed
         /\ \A e \in Configs :
              /\ Load(e)' = Load(e)
              /\ Lingering(e)' = IF e = assigned[d] /\ d \notin refs[e]
                                 THEN Lingering(e) - 1 ELSE Lingering(e)
<1>1. /\ assigned[d] \in Configs /\ steady' = steady /\ removed' = removed
      /\ assigned' = [assigned EXCEPT ![d] = NoConfig]
      /\ leaving' = leaving \ {d} /\ d \in leaving
  BY DEF RemoveInstance, TypeOK, Tracked
<1>2. ASSUME NEW e \in Configs
      PROVE  /\ Load(e)' = Load(e)
             /\ Lingering(e)' = IF e = assigned[d] /\ d \notin refs[e]
                                THEN Lingering(e) - 1 ELSE Lingering(e)
  <2>1. \A a \in Deployments : assigned'[a] = IF a = d THEN NoConfig ELSE assigned[a]
    BY <1>1 DEF TypeOK
  <2>2. e # NoConfig /\ leaving \subseteq Deployments
    BY NamesAssumption DEF TypeOK
  <2>3. Load(e)' = Load(e)
    <3>1. Serving(e)' = Serving(e)
      BY <1>1, <2>1, <2>2 DEF Serving
    <3>2. QED
      BY <3>1 DEF Load
  <2>4. Deleted(e)' = Deleted(e) \ {d} /\ (d \in Deleted(e) <=> e = assigned[d])
    BY <1>1, <2>1, <2>2 DEF Deleted
  <2>5. /\ IsFiniteSet(Deleted(e)) /\ Cardinality(Deleted(e)) \in Nat
        /\ Lingering(e) = Cardinality(Deleted(e)) + stale[e] /\ stale[e] \in Nat
    BY ServingAndDeleted
  <2>6. Lingering(e)' = Cardinality(Deleted(e)') + stale'[e]
    BY DEF Lingering, Deleted
  <2>7. stale'[e] = IF e = assigned[d] /\ d \in refs[e] THEN stale[e] + 1 ELSE stale[e]
    BY <1>1 DEF RemoveInstance, TypeOK
  <2>8. CASE e = assigned[d]
    <3>1. Cardinality(Deleted(e)') = Cardinality(Deleted(e)) - 1
      BY <2>4, <2>5, <2>8, FS_RemoveElement
    <3>2. QED
      BY <2>3, <2>5, <2>6, <2>7, <2>8, <3>1
  <2>9. CASE e # assigned[d]
    <3>1. Deleted(e)' = Deleted(e)
      BY <2>4, <2>9
    <3>2. QED
      BY <2>3, <2>5, <2>6, <2>7, <2>9, <3>1
  <2>10. QED
    BY <2>8, <2>9
<1>3. QED
  BY <1>1, <1>2

\* At first no config has a deployment.
LEMMA InitShares == Init => Share!Init
<1> SUFFICES ASSUME Init PROVE Share!Init
  OBVIOUS
<1>1. \A c \in Pool : Cardinality(Serving(c)) = 0 /\ Lingering(c) = 0 /\ removed[c] = 0
  <2> TAKE c \in Pool
  <2>1. Serving(c) = {} /\ {d \in leaving : assigned[d] = c} = {}
    BY NamesAssumption DEF Init, Pool, Serving
  <2>2. stale[c] = 0 /\ removed[c] = 0
    BY DEF Init, Pool
  <2>3. QED
    BY <2>1, <2>2, FS_EmptySet DEF Lingering
<1>2. steady = TRUE
  BY DEF Init
<1>3. QED
  BY <1>1, <1>2 DEF Share!Init

\* A step that changes no Instance and no stale entry.
LEMMA Unseen ==
  ASSUME UNCHANGED <<assigned, leaving, removed, stale, steady>>
  PROVE  UNCHANGED Share!vars
<1>1. \A c : Serving(c)' = Serving(c) /\ Lingering(c)' = Lingering(c)
  BY DEF Serving, Lingering
<1>2. QED
  BY <1>1 DEF Share!vars

\* c has the best claim to one more deployment.
BestClaim(c) ==
  \A e \in Pool :
    \E n \in Load(c) .. Load(c) + Lingering(c), m \in Load(e) .. Load(e) + Lingering(e) :
      Config[c].priority * (m + 1) >= Config[e].priority * (n + 1)

\* What a scheduling does to what FairShare sees.
LEMMA ScheduleGrows ==
  ASSUME TypeOK, Tracked, NEW d \in Deployments, Schedule(d)
  PROVE  \E c \in ConfigsFor(d) :
           /\ ~Overflow(ConfigsFor(d)) => c \in Highest(ConfigsFor(d))
           /\ \A e \in Configs : /\ Load(e)' = IF e = c THEN Load(e) + 1 ELSE Load(e)
                                 /\ Lingering(e)' = Lingering(e)
                                 /\ removed'[e] = removed[e]
<1>1. PICK c \in ConfigsFor(d) :
        /\ c \in Configs /\ assigned' = [assigned EXCEPT ![d] = c]
        /\ ~Overflow(ConfigsFor(d)) => c \in Highest(ConfigsFor(d))
  BY ScheduleGives
<1>2. assigned[d] = NoConfig /\ leaving' = leaving /\ stale' = stale /\ removed' = removed
  BY DEF Schedule, lists
<1>3. \A e \in Configs : /\ Load(e)' = IF e = c THEN Load(e) + 1 ELSE Load(e)
                         /\ Lingering(e)' = Lingering(e)
  BY <1>1, <1>2, LoadGrows
<1>4. QED
  BY <1>1, <1>2, <1>3

\* As long as the shares are fair, a deployment is given a config that has the
\* best claim to it, counting all that are assigned and not only those listed.
LEMMA ScheduleClaims ==
  ASSUME TypeOK, Tracked, NEW d \in Deployments, Schedule(d), steady'
  PROVE  \E c \in Pool :
           /\ BestClaim(c)
           /\ \A e \in Pool : /\ Load(e)' = IF e = c THEN Load(e) + 1 ELSE Load(e)
                              /\ Lingering(e)' = Lingering(e)
                              /\ removed'[e] = removed[e]
<1>1. steady /\ EvaluateRules(d).candidates = {} /\ AllListed /\ ~Overflow(Pool)
  BY DEF Schedule
<1>2. ConfigsFor(d) = Pool /\ Pool \subseteq Configs
  BY <1>1 DEF ConfigsFor, GetUnrestricted, Visible, Pool
<1>3. PICK c \in Pool :
        /\ c \in Highest(Pool)
        /\ \A e \in Configs : /\ Load(e)' = IF e = c THEN Load(e) + 1 ELSE Load(e)
                              /\ Lingering(e)' = Lingering(e)
                              /\ removed'[e] = removed[e]
  BY <1>1, <1>2, ScheduleGrows
<1>4. \A e \in Configs : Usage(e) \in Load(e) .. Load(e) + Lingering(e)
  BY <1>1, UsageIsBounded
<1>5. BestClaim(c)
  <2> SUFFICES ASSUME NEW e \in Pool
               PROVE  \E n \in Load(c) .. Load(c) + Lingering(c),
                         m \in Load(e) .. Load(e) + Lingering(e) :
                        Config[c].priority * (m + 1) >= Config[e].priority * (n + 1)
    BY DEF BestClaim
  <2>1. Config[c].priority * (Usage(e) + 1) >= Config[e].priority * (Usage(c) + 1)
    BY <1>3 DEF Highest
  <2>2. QED
    BY <1>2, <1>4, <2>1
<1>6. QED
  BY <1>2, <1>3, <1>5

\* A scheduling is an assignment of module FairShare, or ends the fair shares.
LEMMA ScheduleShares ==
  ASSUME TypeOK, Tracked, NEW d \in Deployments, Schedule(d)
  PROVE  Share!Next
<1>1. CASE steady'
  <2>1. steady' = steady
    BY <1>1 DEF Schedule, TypeOK
  <2>2. PICK c \in Pool :
          /\ BestClaim(c)
          /\ \A e \in Pool : /\ Load(e)' = IF e = c THEN Load(e) + 1 ELSE Load(e)
                             /\ Lingering(e)' = Lingering(e)
                             /\ removed'[e] = removed[e]
    BY <1>1, ScheduleClaims
  <2>3. \A e \in Pool : Share!Claims(c, e)
    BY <2>2 DEF BestClaim, Share!Claims, Share!Counts, Load
  <2>4. [e \in Pool |-> Load(e)]' = [[e \in Pool |-> Load(e)] EXCEPT ![c] = @ + 1]
    BY <2>2
  <2>5. /\ [e \in Pool |-> Lingering(e)]' = [e \in Pool |-> Lingering(e)]
        /\ [e \in Pool |-> removed[e]]' = [e \in Pool |-> removed[e]]
    BY <2>2
  <2>6. Share!Assign(c)
    BY <2>1, <2>3, <2>4, <2>5 DEF Share!Assign, Load
  <2>7. QED
    BY <2>6 DEF Share!Next
<1>2. CASE ~steady'
  <2>1. steady' = FALSE
    BY <1>2 DEF Schedule
  <2>2. PICK c : \A e \in Configs : /\ Load(e)' = IF e = c THEN Load(e) + 1 ELSE Load(e)
                                    /\ Lingering(e)' = Lingering(e)
                                    /\ removed'[e] = removed[e]
    BY ScheduleGrows
  <2>3. Pool \subseteq Configs
    BY DEF Pool
  <2>4. \A e \in Pool : Load(e)' \in Nat
    BY <2>2, <2>3, ServingAndDeleted
  <2>5. /\ [e \in Pool |-> Lingering(e)]' = [e \in Pool |-> Lingering(e)]
        /\ [e \in Pool |-> removed[e]]' = [e \in Pool |-> removed[e]]
    BY <2>2, <2>3
  <2>6. Share!Disturb
    BY <2>1, <2>4, <2>5 DEF Share!Disturb, Load
  <2>7. QED
    BY <2>6 DEF Share!Next
<1>3. QED
  BY <1>1, <1>2

\* So are the deletion of an Instance and its end, if FairShare sees them.
LEMMA DeleteInstanceShares ==
  ASSUME TypeOK, NEW d \in Deployments, DeleteInstance(d)
  PROVE  [Share!Next]_(Share!vars)
<1>1. PICK c \in Configs :
        /\ steady' = steady
        /\ \A e \in Configs :
             /\ Load(e)' = IF e = c THEN Load(e) - 1 ELSE Load(e)
             /\ Lingering(e)' = IF e = c THEN Lingering(e) + 1 ELSE Lingering(e)
             /\ removed'[e] = IF e = c THEN removed[e] + 1 ELSE removed[e]
  BY LoadShrinks
<1>2. Pool \subseteq Configs
  BY DEF Pool
<1>3. CASE c \in Pool
  <2>1. [e \in Pool |-> Load(e)]' = [[e \in Pool |-> Load(e)] EXCEPT ![c] = @ - 1]
    BY <1>1, <1>2, <1>3
  <2>2. [e \in Pool |-> Lingering(e)]' = [[e \in Pool |-> Lingering(e)] EXCEPT ![c] = @ + 1]
    BY <1>1, <1>2, <1>3
  <2>3. [e \in Pool |-> removed[e]]' = [[e \in Pool |-> removed[e]] EXCEPT ![c] = @ + 1]
    BY <1>1, <1>2, <1>3
  <2>4. Share!Remove(c)
    BY <1>1, <2>1, <2>2, <2>3 DEF Share!Remove, Load
  <2>5. QED
    BY <1>3, <2>4 DEF Share!Next
<1>4. CASE c \notin Pool
  <2>1. /\ [e \in Pool |-> Load(e)]' = [e \in Pool |-> Load(e)]
        /\ [e \in Pool |-> Lingering(e)]' = [e \in Pool |-> Lingering(e)]
        /\ [e \in Pool |-> removed[e]]' = [e \in Pool |-> removed[e]]
    BY <1>1, <1>2, <1>4
  <2>2. QED
    BY <1>1, <2>1 DEF Share!vars, Load
<1>5. QED
  BY <1>3, <1>4

LEMMA RemoveInstanceShares ==
  ASSUME TypeOK, Tracked, NEW d \in Deployments, RemoveInstance(d)
  PROVE  [Share!Next]_(Share!vars)
<1>1. PICK c \in Configs :
        /\ steady' = steady /\ removed' = removed
        /\ \A e \in Configs :
             /\ Load(e)' = Load(e)
             /\ Lingering(e)' = IF e = c /\ d \notin refs[e]
                                THEN Lingering(e) - 1 ELSE Lingering(e)
  BY LingeringShrinks
<1>2. Pool \subseteq Configs
  BY DEF Pool
<1>3. /\ [e \in Pool |-> Load(e)]' = [e \in Pool |-> Load(e)]
      /\ [e \in Pool |-> removed[e]]' = [e \in Pool |-> removed[e]]
  BY <1>1, <1>2
<1>4. CASE c \in Pool /\ d \notin refs[c]
  <2>1. [e \in Pool |-> Lingering(e)]' = [[e \in Pool |-> Lingering(e)] EXCEPT ![c] = @ - 1]
    BY <1>1, <1>2, <1>4
  <2>2. Share!Forget(c)
    BY <1>1, <1>3, <2>1 DEF Share!Forget, Load
  <2>3. QED
    BY <1>4, <2>2 DEF Share!Next
<1>5. CASE ~(c \in Pool /\ d \notin refs[c])
  <2>1. [e \in Pool |-> Lingering(e)]' = [e \in Pool |-> Lingering(e)]
    BY <1>1, <1>2, <1>5
  <2>2. QED
    BY <1>1, <1>3, <2>1 DEF Share!vars, Load
<1>6. QED
  BY <1>4, <1>5

\* Every step is one of module FairShare, or unseen by it.
LEMMA NextShares == IInv /\ [Next]_vars => [Share!Next]_(Share!vars)
<1> SUFFICES ASSUME TypeOK, Tracked, [Next]_vars PROVE [Share!Next]_(Share!vars)
  BY DEF IInv
<1>1. CASE UNCHANGED vars
  BY <1>1, Unseen DEF vars, lists, instances
<1>2. CASE EditRules
  BY <1>2, Unseen DEF EditRules, lists, instances
<1>3. ASSUME NEW d \in Deployments, ScheduleFails(d) PROVE [Share!Next]_(Share!vars)
  BY <1>3, Unseen DEF ScheduleFails, lists, instances
<1>4. ASSUME NEW d \in Deployments, List(d) PROVE [Share!Next]_(Share!vars)
  BY <1>4, Unseen DEF List, instances
<1>5. ASSUME NEW d \in Deployments, RemoveEntry(d) PROVE [Share!Next]_(Share!vars)
  BY <1>5, Unseen DEF RemoveEntry, instances
<1>6. QED
  BY <1>1, <1>2, <1>3, <1>4, <1>5, ScheduleShares, DeleteInstanceShares, RemoveInstanceShares
     DEF Next

\* The scheduling implements FairShare: while nothing but the default
\* scheduling assigns deployments, none gets a config that another one had a
\* better claim to, although it only sees lists that Instances are added to
\* late and taken from early, late or never.
THEOREM SharesAreFair == Spec => SharesFairly
<1>1. Spec => Share!Init /\ [][Share!Next]_(Share!vars)
  BY InitShares, NextShares, Invariance, PTL DEF Spec
<1>2. QED
  BY <1>1 DEF SharesFairly, Share!Spec

-----------------------------------------------------------------------------
(***************************************************************************)
(* What fair shares are worth.                                             *)
(***************************************************************************)
\* The deployments of t are due to it, as far as u is concerned.
Due(t, u) ==
  Load(t) > 0 =>
    Config[t].priority * (Load(u) + removed[u] + 1) >= Config[u].priority * Load(t)

\* Nothing lingers that was not removed.
Balanced ==
  /\ steady => \A t, u \in Pool : Due(t, u)
  /\ \A t \in Pool : Lingering(t) <= removed[t]

\* The shares in the words of this module.
LEMMA SharesBalanced == Balanced => Share!Balanced
BY DEF Balanced, Due, Load, Share!Balanced

\* Due deployments remain so if t has no more of them, and u no fewer counting
\* those that were removed.
LEMMA DueRemains ==
  ASSUME NEW p \in Nat, NEW q \in Nat, NEW l \in Nat, NEW k \in Nat,
         NEW m \in Nat, NEW n \in Nat, k <= l, m <= n,
         l > 0 => p * (m + 1) >= q * l
  PROVE  k > 0 => p * (n + 1) >= q * k
<1> SUFFICES ASSUME k > 0 PROVE p * (n + 1) >= q * k
  OBVIOUS
<1>1. p * (m + 1) >= q * l
  OBVIOUS
<1>2. k * q <= l * q /\ (m + 1) * p <= (n + 1) * p
  BY ProductMonotone
<1>3. /\ k * q = q * k /\ l * q = q * l
      /\ (m + 1) * p = p * (m + 1) /\ (n + 1) * p = p * (n + 1)
  OBVIOUS
<1>4. q * k \in Nat /\ q * l \in Nat /\ p * (m + 1) \in Nat /\ p * (n + 1) \in Nat
  OBVIOUS
<1>5. QED
  BY <1>1, <1>2, <1>3, <1>4

\* What all the numbers are.
LEMMA SharesAreNat ==
  ASSUME Share!PrioritiesAreNat, TypeOK, NEW t \in Pool
  PROVE  /\ Load(t) \in Nat /\ Lingering(t) \in Nat /\ removed[t] \in Nat
         /\ Config[t].priority \in Nat
<1>1. t \in Configs
  BY DEF Pool
<1>2. Config[t].priority \in Nat
  BY DEF Share!PrioritiesAreNat
<1>3. QED
  BY <1>1, <1>2, ServingAndDeleted

LEMMA NumbersAreNat == TypeOK => \A e \in Configs : Load(e) \in Nat /\ removed[e] \in Nat
BY ServingAndDeleted

\* A step that assigns nothing leaves every pair of configs due.
LEMMA OthersKeepDue ==
  ASSUME Share!PrioritiesAreNat, TypeOK, TypeOK', NEW t \in Pool, NEW u \in Pool,
         Load(t)' <= Load(t), Load(u) + removed[u] <= Load(u)' + removed'[u],
         Due(t, u)
  PROVE  Due(t, u)'
<1>1. /\ Load(t) \in Nat /\ Load(u) \in Nat /\ removed[u] \in Nat
      /\ Config[t].priority \in Nat /\ Config[u].priority \in Nat
  BY SharesAreNat
<1>2. Load(t)' \in Nat /\ Load(u)' \in Nat /\ removed'[u] \in Nat
  <2>1. t \in Configs /\ u \in Configs
    BY DEF Pool
  <2>2. (\A e \in Configs : Load(e) \in Nat /\ removed[e] \in Nat)'
    BY NumbersAreNat, PTL
  <2>3. QED
    BY <2>1, <2>2
<1>3. Load(t) > 0 => Config[t].priority * (Load(u) + removed[u] + 1)
                       >= Config[u].priority * Load(t)
  BY DEF Due
<1>4. Load(t)' > 0 => Config[t].priority * (Load(u)' + removed'[u] + 1)
                        >= Config[u].priority * Load(t)'
  <2> DEFINE m == Load(u) + removed[u]
             n == Load(u)' + removed'[u]
  <2>1. m \in Nat /\ n \in Nat /\ m <= n
    BY <1>1, <1>2
  <2>2. Load(t) > 0 => Config[t].priority * (m + 1) >= Config[u].priority * Load(t)
    BY <1>3
  <2> HIDE DEF m, n
  <2>3. Load(t)' > 0 => Config[t].priority * (n + 1) >= Config[u].priority * Load(t)'
    BY <1>1, <1>2, <2>1, <2>2, DueRemains
  <2>4. QED
    BY <2>3 DEF n
<1>5. QED
  BY <1>4 DEF Due

\* An assignment keeps every pair of configs due to one another.
LEMMA ScheduleKeepsDue ==
  ASSUME Share!PrioritiesAreNat, TypeOK, TypeOK',
         NEW c \in Pool, NEW t \in Pool, NEW u \in Pool,
         BestClaim(c), Lingering(u) <= removed[u],
         \A e \in Pool : /\ Load(e)' = IF e = c THEN Load(e) + 1 ELSE Load(e)
                         /\ removed'[e] = removed[e],
         Due(t, u)
  PROVE  Due(t, u)'
<1>1. /\ Load(t) \in Nat /\ Load(u) \in Nat /\ Lingering(t) \in Nat /\ Lingering(u) \in Nat
      /\ removed[u] \in Nat
      /\ Config[t].priority \in Nat /\ Config[u].priority \in Nat
  BY SharesAreNat
<1>2. Load(u)' >= Load(u) /\ removed'[u] = removed[u] /\ Load(u)' \in Nat
  BY <1>1
<1>3. CASE t # c
  BY <1>1, <1>2, <1>3, OthersKeepDue
<1>4. CASE t = c
  <2>1. PICK n \in Load(t) .. Load(t) + Lingering(t), m \in Load(u) .. Load(u) + Lingering(u) :
          Config[t].priority * (m + 1) >= Config[u].priority * (n + 1)
    BY <1>4 DEF BestClaim
  <2>2. n \in Nat /\ m \in Nat /\ Load(t) <= n /\ m <= Load(u)' + removed'[u]
    BY <1>1, <1>2
  <2>3. Config[t].priority * (Load(u)' + removed'[u] + 1) >= Config[u].priority * (Load(t) + 1)
    <3> DEFINE k == Load(u)' + removed'[u]
               l == Load(t) + 1
               o == n + 1
    <3>1. k \in Nat /\ m <= k /\ l \in Nat /\ o \in Nat /\ l <= o /\ l > 0
      BY <1>1, <1>2, <2>2
    <3>2. o > 0 => Config[t].priority * (m + 1) >= Config[u].priority * o
      BY <2>1
    <3> HIDE DEF k, l, o
    <3>3. l > 0 => Config[t].priority * (k + 1) >= Config[u].priority * l
      BY <1>1, <2>2, <3>1, <3>2, DueRemains
    <3>4. QED
      BY <3>1, <3>3 DEF k, l
  <2>4. Load(t)' = Load(t) + 1
    BY <1>4
  <2>5. QED
    BY <2>3, <2>4 DEF Due
<1>5. QED
  BY <1>3, <1>4

\* At first nothing is assigned.
LEMMA InitBalanced == Init => Balanced
<1> SUFFICES ASSUME Init, NEW t \in Pool PROVE Load(t) = 0 /\ Lingering(t) = 0 /\ removed[t] = 0
  BY DEF Balanced, Due
<1>1. Serving(t) = {} /\ {d \in leaving : assigned[d] = t} = {}
  BY NamesAssumption DEF Init, Pool, Serving
<1>2. stale[t] = 0 /\ removed[t] = 0
  BY DEF Init, Pool
<1>3. QED
  BY <1>1, <1>2, FS_EmptySet DEF Load, Lingering

\* Every step keeps the balance.
LEMMA NextBalanced ==
  ASSUME Share!PrioritiesAreNat, IInv, IInv', Balanced, [Next]_vars
  PROVE  Balanced'
<1> USE DEF IInv
<1>1. Pool \subseteq Configs
  BY DEF Pool
<1>2. \A t \in Pool : Load(t) \in Nat /\ Lingering(t) \in Nat /\ removed[t] \in Nat
  BY SharesAreNat
<1>3. CASE UNCHANGED <<assigned, leaving, removed, stale, steady>>
  <2>1. \A c : Load(c)' = Load(c) /\ Lingering(c)' = Lingering(c)
    BY <1>3 DEF Load, Serving, Lingering
  <2>2. QED
    BY <1>3, <2>1 DEF Balanced, Due
<1>4. ASSUME NEW d \in Deployments, Schedule(d) PROVE Balanced'
  <2>1. \A t \in Pool : Lingering(t)' <= removed'[t]
    BY <1>1, <1>4, ScheduleGrows DEF Balanced
  <2>2. ASSUME steady', NEW t \in Pool, NEW u \in Pool PROVE Due(t, u)'
    <3>1. PICK c \in Pool :
            /\ BestClaim(c)
            /\ \A e \in Pool : /\ Load(e)' = IF e = c THEN Load(e) + 1 ELSE Load(e)
                               /\ Lingering(e)' = Lingering(e)
                               /\ removed'[e] = removed[e]
      BY <1>4, <2>2, ScheduleClaims
    <3>2. Due(t, u) /\ Lingering(u) <= removed[u]
      BY <1>4, <2>2 DEF Schedule, Balanced
    <3>3. QED
      BY <3>1, <3>2, ScheduleKeepsDue
  <2>3. QED
    BY <2>1, <2>2 DEF Balanced, Pool
<1>5. ASSUME NEW d \in Deployments, DeleteInstance(d) PROVE Balanced'
  <2>1. /\ steady' = steady
        /\ \A e \in Pool :
             /\ Load(e)' = IF e = assigned[d] THEN Load(e) - 1 ELSE Load(e)
             /\ Lingering(e)' = IF e = assigned[d] THEN Lingering(e) + 1 ELSE Lingering(e)
             /\ removed'[e] = IF e = assigned[d] THEN removed[e] + 1 ELSE removed[e]
    BY <1>1, <1>5, LoadShrinks
  <2>2. \A t \in Pool : /\ Lingering(t)' <= removed'[t] /\ Load(t)' <= Load(t)
                        /\ Load(t) + removed[t] <= Load(t)' + removed'[t]
    BY <1>2, <2>1 DEF Balanced
  <2>3. steady' => \A t, u \in Pool : Due(t, u)'
    BY <2>1, <2>2, OthersKeepDue DEF Balanced
  <2>4. QED
    BY <2>2, <2>3 DEF Balanced, Pool
<1>6. ASSUME NEW d \in Deployments, RemoveInstance(d) PROVE Balanced'
  <2>1. /\ steady' = steady /\ removed' = removed
        /\ \A e \in Pool : Load(e)' = Load(e) /\ Lingering(e)' \in {Lingering(e), Lingering(e) - 1}
    BY <1>1, <1>6, LingeringShrinks
  <2>2. \A t \in Pool : /\ Lingering(t)' <= removed'[t] /\ Load(t)' <= Load(t)
                        /\ Load(t) + removed[t] <= Load(t)' + removed'[t]
    BY <1>2, <2>1 DEF Balanced
  <2>3. steady' => \A t, u \in Pool : Due(t, u)'
    BY <2>1, <2>2, OthersKeepDue DEF Balanced
  <2>4. QED
    BY <2>2, <2>3 DEF Balanced, Pool
<1>7. QED
  BY <1>3, <1>4, <1>5, <1>6
     DEF Next, vars, lists, instances, EditRules, ScheduleFails, List, RemoveEntry

\* While nothing disturbs the default scheduling, every config has the
\* deployments that are due to it, if no priority is negative: up to those that
\* were removed the shares are in proportion to the priorities, for any number
\* of configs, deployments and deletions, stale entries or not.
THEOREM SharesAreBalanced == Share!PrioritiesAreNat => (Spec => []Share!Balanced)
<1> SUFFICES ASSUME Share!PrioritiesAreNat PROVE Spec => []Share!Balanced
  OBVIOUS
<1>1. IInv /\ IInv' /\ Balanced /\ [Next]_vars => Balanced'
  BY NextBalanced
<1>2. QED
  BY <1>1, InitBalanced, SharesBalanced, Invariance, PTL DEF Spec

=============================================================================
