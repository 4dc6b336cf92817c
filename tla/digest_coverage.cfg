\* Two cycles of one target, and the heartbeat workflow or the publisher.
SPECIFICATION Spec
CONSTANTS
  r1 = r1
  r2 = r2
  t1 = t1
  job1 = job1
  Runs = {r1, r2}
  Targets = {t1}
  TargetOf <- AllOfOne
  KindsOf <- MixedKinds
  Jobs = {job1}
  Attempts = 2
  MaxReports = 2
CHECK_DEADLOCK FALSE
INVARIANTS
  TypeOK
  RoutineCycleIsAccountedFor
  HealthyIsEarned
  EmissionIsAccountedFor
PROPERTY CandidatesOnlyWorsen
