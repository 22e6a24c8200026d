SPECIFICATION FairSpec
CONSTANTS
  g1 = g1  g2 = g2  x1 = x1  x2 = x2
  a1 = a1  a2 = a2  k1 = k1  k2 = k2  b1 = b1  b2 = b2
  v1 = v1  v2 = v2  t1 = t1  t2 = t2  ipf = ipf  tp = tp
  NoCert = NoCert  NoTLS = NoTLS  Absent = Absent  None = None
  Contents <- MCContents
  Addrs = {a1, a2}
  CertPaths = {k1, k2}
  AcmeBlocks = {b1, b2}
  VHosts = {v1, v2}
  TLSBlocks = {t1, t2}
  Lists = {ipf, tp}
  Goroutines = {g1, g2}
  Timers = {x1, x2}
  MaxEdits = 2
  MaxRotations = 1
  MaxSignals = 1
CHECK_DEADLOCK FALSE
INVARIANTS TypeOK NoTriggerLost RefreshersMatchServed
PROPERTIES LiveCertUsable ImplementsConfigService TriggerReachesReload ReloadFinishes
