---------------------------- MODULE MCScheduling ----------------------------
(***************************************************************************)
(* An instance of module Scheduling for TLC.                               *)
(***************************************************************************)
EXTENDS Scheduling

CONSTANTS c1, c2, c3, c4, d1, d2, d3, d4

Four == {c1, c2, c3, c4}

ConfigOf(visible, restricted, priority) ==
  [visible |-> visible, restricted |-> restricted, priority |-> priority]

\* c3 is restricted, and its priority high; c4 is invisible.
FourConfigs ==
  c1 :> ConfigOf(TRUE, FALSE, 3) @@ c2 :> ConfigOf(TRUE, FALSE, 2)
  @@ c3 :> ConfigOf(TRUE, TRUE, 8) @@ c4 :> ConfigOf(FALSE, FALSE, 3)

RuleOf(priority, configs, selector) ==
  [priority |-> priority, configs |-> configs, selector |-> selector]

-----------------------------------------------------------------------------
\* Terms without subterms: good ones, one without a name, one with no and one
\* with two conditions.
Leaves ==
  {Term({k}, TRUE, m, <<>>) : k \in {"matchTenant", "matchLabel"},
                              m \in {{}, Deployments}}
  \cup {Term({"matchLabel"}, FALSE, {}, <<>>), Term({}, FALSE, {}, <<>>),
        Term({"matchTenant", "or"}, TRUE, Deployments, <<>>)}

Lists(terms) ==
  {<<>>} \cup {<<t>> : t \in terms} \cup {<<t, u>> : t \in terms, u \in terms}

\* The terms that are nested no deeper than n.
TermsUpTo[n \in Nat] ==
  IF n = 0 THEN Leaves
  ELSE LET less == TermsUpTo[n - 1] IN
       less \cup {Term({k}, FALSE, {}, s) : k \in {"or", "and"}, s \in Lists(less)}
            \cup {Term({"not"}, FALSE, {}, <<t>>) : t \in less}

Tenant(d) == Term({"matchTenant"}, TRUE, d, <<>>)
NotTwo == Term({"matchTenant", "matchLabel"}, TRUE, {d1}, <<>>)
Alternatives(terms) == Term({"or"}, FALSE, {}, terms)
Negation(t) == Term({"not"}, FALSE, {}, <<t>>)

TermsInRules ==
  {Tenant({d1, d2}), Tenant({d1, d3}), Tenant({d1, d2, d3}), NotTwo,
   Negation(Tenant({d1, d2, d3})), Alternatives(<<Tenant({d1, d2}), NotTwo>>)}

AllTerms == TermsUpTo[2] \cup TermsInRules

NestingOf[t \in AllTerms] ==
  IF t.terms = <<>> THEN 0
  ELSE 1 + Max({NestingOf[t.terms[i]] : i \in DOMAIN t.terms})

\* A good rule for d1 and d2, one for all of them, one for invisible configs
\* only and no deployment but d4; and malformed ones, of which the second is
\* well-formed for d1 and d2 and the last accepted by the webhook.
SomeRules ==
  {RuleOf(2, {c3, c4}, <<Tenant({d1, d2})>>),
   RuleOf(2, {c1, c2}, <<>>),
   RuleOf(1, {c4}, <<Negation(Tenant({d1, d2, d3}))>>),
   RuleOf(2, {}, <<>>), RuleOf(-1, {c1}, <<>>),
   RuleOf(1, {c2}, <<Alternatives(<<Tenant({d1, d2}), NotTwo>>)>>),
   RuleOf(0, {c1}, <<Tenant({d1, d3}), Alternatives(<<>>)>>)}

RuleListsUpTo2 ==
  {<<>>} \cup {<<r>> : r \in SomeRules} \cup {<<r, s>> : r, s \in SomeRules}
=============================================================================
