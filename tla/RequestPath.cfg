SPECIFICATION Spec
CONSTANTS
  Addrs = {"a", "b"}
  Scenarios <- MCScenarios
  Configs <- MCConfigs
  Reloads <- MCReloads
  Inputs <- MCInputs
  MaxRefreshes = 3
  MaxReloads = 1
INVARIANTS
  TypeOK
  FilterDecisionStands
  AnsweredAsConfigured
  ForwardedAsTrusted
  TrustedHops
PROPERTY
  RequestsAnswered
