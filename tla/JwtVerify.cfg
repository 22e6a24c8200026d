SPECIFICATION SpecVerify
CONSTANTS
  c1 = c1  c2 = c2  k1 = k1  k2 = k2  u1 = u1  None = None
  Callers = {c1, c2}
  Urls = {u1}
  Kids = {k1, k2}
  TTLs = {1}
  MaxClock = 2
  Skew = 1
  Requests <- MCRequests
INVARIANTS TypeVerify FetchOnlyWhenStale
PROPERTIES MissingIsCurrent VerifyReturns AcceptedIsGenuine
