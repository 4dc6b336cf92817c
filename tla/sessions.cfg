\* Two instances, each with its file: one is renewed and checked, the other
\* serves the readers.  The provider ends sessions and refuses logins at will.
SPECIFICATION FairSpec
CONSTANTS
  i1 = i1
  i2 = i2
  c1 = c1
  c2 = c2
  Instances = {i1, i2}
  Callers = {c1, c2}
  InstanceOf <- Apart
  Kinds <- RenewedAndReading
  Shared = TRUE
  MaxSessions = 2
INVARIANTS
  TypeOK
  CachedSessionIsVerified
  RenewalAnswerIsTrue
  MarkerMeansChecked
  SharedStaysUsable
PROPERTIES
  InstancesHeal
