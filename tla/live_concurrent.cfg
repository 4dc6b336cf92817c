\* Two cycles at once, with and without a store, any store failure, crash and
\* broker answer.
SPECIFICATION Spec
CONSTANTS
  Workers = {w1, w2}
  Periods = {"m1"}
  CycleModes = {"live"}
  Persistence = {TRUE, FALSE}
  OldClaims = {"none"}
  MarketBlocks = {"funding", "blocked"}
  StoreFaults = TRUE
  Crashes = TRUE
  Unified = FALSE
  MaxActive = 2
  MaxNotices = 0
SYMMETRY WorkerSymmetry
INVARIANTS
  TypeOK
  ClaimHeldByItsSender
  ClaimPrecedesRequest
  RetryStatusMeansNothingSent
  ReceiptNeverHidesLiveOrder
PROPERTIES
  AtMostOneSubmitter
  ImplementsSubmissionRight
