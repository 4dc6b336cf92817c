SPECIFICATION Spec
CONSTANTS
  Workers = {w1, w2}
  Periods = {"m1"}
  CycleModes = {"live"}
  Persistence = {TRUE}
  OldClaims = {"none"}
  MarketBlocks = {"blocked"}
  StoreFaults = FALSE
  Crashes = FALSE
  Unified = FALSE
  MaxActive = 1
  MaxNotices = 0
INVARIANTS
  UncertainSubmissionStaysOpen
