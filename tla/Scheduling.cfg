SPECIFICATION Spec
CONSTANTS
  c1 = c1  c2 = c2  c3 = c3  c4 = c4  d1 = d1  d2 = d2  d3 = d3  d4 = d4
  Configs <- Four
  Config <- FourConfigs
  Deployments = {d1, d2, d3, d4}
  Terms <- AllTerms
  Nesting <- NestingOf
  NoConfig = none
  RuleLists <- RuleListsUpTo2
  IntBound = 20
  MaxEdits = 1
  MaxRemovals = 1
INVARIANT EvaluatedAsMeant
PROPERTIES PickAsDocumented FailureJustified AcceptedSchedules SharesFairly
CHECK_DEADLOCK FALSE
