\* Two requests, a session check, a dispatching script and a backfill.
SPECIFICATION Spec
CONSTANTS
  c1 = c1
  c2 = c2
  Calls = {c1, c2}
  Checks = {k1}
  Scripts = {s1}
  Backfills = {b1}
  None = None
  Accounts = {a1, a2}
  Listings = {{a1}, {a2}}
  Selected = a1
  Archiving = TRUE
  MaxTime = 1
  DayLength = 1
CHECK_DEADLOCK FALSE
SYMMETRY CallSymmetry
INVARIANTS
  TypeOK
  ConsoleHoldsOnlyArchived
  ClaimsAreTrue
  CompletedMeansFresh
