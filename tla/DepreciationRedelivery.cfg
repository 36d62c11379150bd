SPECIFICATION Spec
CONSTANTS
  Assets = {a1, a2}
  Costs = {4}
  Residuals = {0}
  Lives = {1}
  LastMonth = 0
  Posters = {user, system}
  System = system
  Workers = {v1, v2}
  MaxCrashes = 2
CHECK_DEADLOCK FALSE
INVARIANTS CompletedTotalsAgree StartedRunIsCarried
PROPERTIES CompletedRunPostedAll FinishedRunIsFinal DeliveredRunFinishes
