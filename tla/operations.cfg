\* The guard's runs beside a new revision, and the deploy workflow's beside
\* an operator's edits.
SPECIFICATION Spec
CONSTANTS
  e1 = e1
  e2 = e2
  s1 = s1
  s2 = s2
  x = x
  y = y
  Ids = {e1, e2}
  Services = {s1, s2}
  Deployed = s1
  Shown <- MCShown
  Configs <- MCConfigs
  Scenarios <- MCScenarios
  ExplicitJobs = {}
  Modes = {"on"}
  CheckScheduler = TRUE
  IgnorePreReady = TRUE
  Lookback = 1
  Limit = 1
  Tolerance = 0
  Reminder = 2
  Retention = 2
  Commits = {c1, c2}
  ServingSha = c1
  Diagnostic = diag
  OldDiagnostic = oldDiag
  Envs = {x, y}
  Bound = {x}
  MaxTime = 2
CHECK_DEADLOCK FALSE
SYMMETRY Symmetry
INVARIANTS
  TypeOK
  NothingIsSilenced
  ReportsAreTrue
PROPERTY MonitoringIsKept
