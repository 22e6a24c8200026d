SPECIFICATION FairSpec
CONSTANTS
  Windows = {"initial", "renew"}
  ServePort80 = TRUE
  MaxMishaps = 1
  MaxRestarts = 1
CHECK_DEADLOCK FALSE
PROPERTY LoopRetriesFailures
