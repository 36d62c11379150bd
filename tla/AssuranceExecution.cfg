SPECIFICATION Spec
CONSTANTS
  Runs = {r1}
  Workers = {v1, v2}
  Subjects = {1, 2}
  MaxRetries = 1
  MaxMessages = 2
  MaxFaults = 3
CHECK_DEADLOCK FALSE
INVARIANTS RunTypeOK PublishedWhole
PROPERTIES LateFailureIsIgnored StartedRunEnds
