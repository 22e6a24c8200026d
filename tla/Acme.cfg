SPECIFICATION FairSpec
CONSTANTS
  Windows = {"initial", "renew"}
  ServePort80 = TRUE
  MaxMishaps = 1
  MaxRestarts = 1
CHECK_DEADLOCK FALSE
INVARIANTS TypeOK ListenerBounded OpenWindowsServed ChallengesCleared
PROPERTIES BackoffRespected CertificateArrives RenewalArrives
