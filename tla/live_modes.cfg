\* One cycle after another: live and dry-run, every block, unified
\* notifications, and a scheduler that keeps calling.
SPECIFICATION FairSpec
CONSTANTS
  Workers = {w1, w2}
  Periods = {"m1"}
  CycleModes = {"live", "dry"}
  Persistence = {TRUE}
  OldClaims = {"none"}
  MarketBlocks = {"funding", "blocked", "deferred"}
  StoreFaults = TRUE
  Crashes = TRUE
  Unified = TRUE
  MaxActive = 1
  MaxNotices = 2
INVARIANTS
  FundingBlockNotifiesOnce
  DuplicateIsJustified
PROPERTIES
  PeriodEventuallySettled
  ClaimStrandedOnlyByFault
