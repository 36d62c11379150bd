SPECIFICATION BooksSpec
CONSTANTS
  Assets = {a1}
  Costs = {6, 10, 11}
  Residuals = {0, 6}
  Lives = {1, 3, 4}
  LastMonth = 4
  Posters = {user}
CHECK_DEADLOCK FALSE
INVARIANTS LedgerRollsForward ScheduleKeepsBasis DisposalTakesLedgerBalance RemainderIsBounded
PROPERTIES BooksAreFinal
