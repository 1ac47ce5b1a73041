------------------------------ MODULE Selectors ------------------------------
(***************************************************************************)
(* The terms that select LandscaperDeployments in a scheduling rule: what  *)
(* the webhook accepts, and what the scheduler makes of a term.            *)
(*                                                                         *)
(* A term is the set of its conditions that are not nil, whether its       *)
(* tenant or label condition has all its names, the deployments that meet  *)
(* it, and its subterms.  Left out: the names themselves.                  *)
(***************************************************************************)
EXTENDS Integers, Sequences, FiniteSets, FiniteSetsExt

CONSTANTS
  Deployments,  \* names of LandscaperDeployments
  Terms,        \* the terms that occur, with their subterms
  Nesting       \* how deep each is nested

Kinds == {"matchTenant", "matchLabel", "or", "and", "not"}

Term(kinds, named, meets, terms) ==
  [kinds |-> kinds, named |-> named, meets |-> meets, terms |-> terms]

Only(t, kind) == t.kinds = {kind}

\* Terms are finite, and "not" has a subterm, as it is a pointer.
ASSUME TermsAssumption ==
  /\ Terms \subseteq [kinds : SUBSET Kinds, named : BOOLEAN,
                      meets : SUBSET Deployments, terms : Seq(Terms)]
  /\ \A t \in Terms : Only(t, "not") => t.terms # <<>>
  /\ Nesting \in [Terms -> Nat]
  /\ \A t \in Terms : \A i \in DOMAIN t.terms : Nesting[t.terms[i]] < Nesting[t]

-----------------------------------------------------------------------------
(***************************************************************************)
(* The webhook.                                                            *)
(***************************************************************************)
\* Mutant: subterms are not looked at.
WellFormed_Shallow(t, subterms) ==
  /\ Cardinality(t.kinds) = 1
  /\ Only(t, "matchTenant") \/ Only(t, "matchLabel") => t.named

\* A term whose subterms are valid or not.  An empty list of alternatives or
\* conjuncts is accepted.
WellFormed(t, subterms) ==
  /\ Cardinality(t.kinds) = 1
  /\ Only(t, "matchTenant") \/ Only(t, "matchLabel") => t.named
  /\ \A i \in DOMAIN subterms : subterms[i]

Valid[t \in Terms] ==
  WellFormed(t, [i \in DOMAIN t.terms |-> Valid[t.terms[i]]])

-----------------------------------------------------------------------------
(***************************************************************************)
(* The scheduler.                                                          *)
(***************************************************************************)
Results == {"match", "noMatch", "error"}

\* Results are taken from left to right; the first that is not neutral ends.
Chain(results, neutral) ==
  LET decisive == {i \in DOMAIN results : results[i] # neutral} IN
  IF decisive = {} THEN neutral ELSE results[Min(decisive)]

Opposite(r) ==
  CASE r = "match" -> "noMatch" [] r = "noMatch" -> "match" [] OTHER -> "error"

\* Mutant: an alternative that fails is passed over.
Or_SkipsErrors(results) ==
  IF \E i \in DOMAIN results : results[i] = "match" THEN "match" ELSE "noMatch"

Or(results) == Chain(results, "noMatch")

And(results) == Chain(results, "match")

Not(r) == Opposite(r)

\* A term whose subterms have these results.
EvaluateSelector(t, d, results) ==
  CASE Only(t, "matchTenant") \/ Only(t, "matchLabel") ->
         (IF d \in t.meets THEN "match" ELSE "noMatch")
    [] Only(t, "or") /\ t.terms # <<>> -> Or(results)
    [] Only(t, "and") /\ t.terms # <<>> -> And(results)
    [] Only(t, "not") -> Not(results[1])
    [] OTHER -> "error"

Evaluate[t \in Terms] ==
  [d \in Deployments |->
     EvaluateSelector(t, d, [i \in DOMAIN t.terms |-> Evaluate[t.terms[i]][d]])]

\* The terms of a selector are taken together.
EvaluateSelectorList(terms, d) ==
  And([i \in DOMAIN terms |-> Evaluate[terms[i]][d]])

-----------------------------------------------------------------------------
(***************************************************************************)
(* What a term means.                                                      *)
(***************************************************************************)
LacksTerms(t) == (Only(t, "or") \/ Only(t, "and")) /\ t.terms = <<>>

HasEmptyList[t \in Terms] ==
  LacksTerms(t) \/ \E i \in DOMAIN t.terms : HasEmptyList[t.terms[i]]

\* What a term can mean in the words of the documentation, if a term that it
\* does not describe may mean either, and parts are what its subterms can mean.
MeaningsOf(t, d, parts) ==
  LET Some(r) == \E i \in DOMAIN parts : r \in parts[i]
      All(r) == \A i \in DOMAIN parts : r \in parts[i]
      Either == {"match", "noMatch"} IN
  CASE Only(t, "matchTenant") \/ Only(t, "matchLabel") ->
         {IF d \in t.meets THEN "match" ELSE "noMatch"}
    [] Only(t, "or") /\ t.terms # <<>> ->
         {r \in Either : IF r = "match" THEN Some(r) ELSE All(r)}
    [] Only(t, "and") /\ t.terms # <<>> ->
         {r \in Either : IF r = "match" THEN All(r) ELSE Some(r)}
    [] Only(t, "not") -> {r \in Either : Opposite(r) \in parts[1]}
    [] OTHER -> Either

Meanings[t \in Terms] ==
  [d \in Deployments |->
     MeaningsOf(t, d, [i \in DOMAIN t.terms |-> Meanings[t.terms[i]][d]])]

\* A term is only taken to match, or not to match, if it means that whatever
\* its malformed parts mean: they never decide where a customer is deployed.
NoGuess(t, d) ==
  Evaluate[t][d] # "error" => Meanings[t][d] = {Evaluate[t][d]}

\* A term the webhook has let pass does not fail the scheduling, and so has a
\* meaning, unless there is an empty list in it.
AcceptedIsDecided(t, d) ==
  Valid[t] /\ ~HasEmptyList[t] => Evaluate[t][d] # "error"
=============================================================================
