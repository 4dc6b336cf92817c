---------------------------- MODULE CycleOutcome ----------------------------
(***************************************************************************)
(* What one strategy cycle reports, as functions of what happened in it.   *)
(* run_strategy_cycle reduces the orders it submitted and skipped to a     *)
(* stage, an ok flag and a few evidence fields; main.py reduces those to   *)
(* an HTTP status (500 makes Cloud Scheduler call again), to an execution  *)
(* receipt and to a kind of notification.  A result keeps only the fields  *)
(* these reductions read.                                                  *)
(***************************************************************************)
EXTENDS Naturals

Modes == {"live", "dry"}

(* Stages of a strategy-run record.  "SUBMITTED" stands for the terminal   *)
(* stages of the shared library that earlier releases wrote.               *)
Stages == {"ORDERS_PLANNED", "NO_ACTION", "SUBMITTED", "PENDING_RECONCILIATION",
           "EXECUTION_BLOCKED", "FUNDING_BLOCKED", "DRY_RUN_COMPLETED"}

LiveTerminalStages == {"SUBMITTED", "NO_ACTION"}

(* Reasons for an order the cycle did not place, by what they do to the    *)
(* outcome: "funding" (insufficient_cash, insufficient_cash_for_whole_     *)
(* share), "rejected" (broker_rejected, fractional_trading_disclosure_     *)
(* required), "blocked" (quote_unavailable, buy_quantity_zero, ...) and    *)
(* "deferred" (pending_sell_release: blocks nothing, yet is not routine).  *)
(* Reasons that change nothing (below_trade_threshold) are left out.       *)
SkipReasons == {"funding", "rejected", "blocked", "deferred"}

(* Statuses of the orders a cycle recorded as submitted. *)
OrderStatuses == {"submitted", "unknown", "previewed"}

Outcomes == {"completed", "skipped", "raised"}

Results ==
  [outcome : Outcomes, mode : Modes, stage : Stages \cup {"PENDING_SUBMISSION", "ERROR"},
   orders : SUBSET OrderStatuses, skips : SUBSET SkipReasons,
   claimed : BOOLEAN, persistError : BOOLEAN]

-----------------------------------------------------------------------------
Blocking(skips) == skips \ {"deferred"}

(* The shared library's funding block: there are blockers, all about funds.*)
IsFundingBlock(skips) == Blocking(skips) = {"funding"}

PendingReconciliation(orders) == orders \cap {"submitted", "unknown"} # {}

ActionDone(orders) == orders = {"previewed"}

(* resolve_strategy_run_stage of the shared library. *)
ResolveStage(mode, blocked, fundingBlock, actionDone) ==
  CASE mode = "dry" -> "DRY_RUN_COMPLETED"
    [] mode = "live" /\ blocked -> IF fundingBlock THEN "FUNDING_BLOCKED"
                                                   ELSE "EXECUTION_BLOCKED"
    [] mode = "live" /\ ~blocked /\ actionDone -> "SUBMITTED"
    [] OTHER -> "NO_ACTION"

CycleStage(mode, orders, skips) ==
  IF PendingReconciliation(orders)
    THEN "PENDING_RECONCILIATION"
    ELSE ResolveStage(mode, Blocking(skips) # {},
                      IsFundingBlock(skips) /\ ~ActionDone(orders),
                      ActionDone(orders))

CompletedResult(mode, orders, skips, claimed, persistError) ==
  [outcome |-> "completed", mode |-> mode, stage |-> CycleStage(mode, orders, skips),
   orders |-> orders, skips |-> skips, claimed |-> claimed,
   persistError |-> persistError]

(* Fault: the stage that was read is repeated without the fallback. *)
SkippedResultVerbatim(seen, persistError) ==
  [outcome |-> "skipped", mode |-> "live", stage |-> seen,
   orders |-> {}, skips |-> {}, claimed |-> FALSE, persistError |-> persistError]

(* A cycle that stopped because the period already has its submission:     *)
(* it repeats the stage it read, or PENDING_SUBMISSION when none was there.*)
SkippedResult(seen, persistError) ==
  [outcome |-> "skipped", mode |-> "live",
   stage |-> IF seen = "none" THEN "PENDING_SUBMISSION" ELSE seen,
   orders |-> {}, skips |-> {}, claimed |-> FALSE, persistError |-> persistError]

RaisedResult(mode) ==
  [outcome |-> "raised", mode |-> mode, stage |-> "ERROR",
   orders |-> {}, skips |-> {}, claimed |-> FALSE, persistError |-> FALSE]

-----------------------------------------------------------------------------
Blocked(r) == r.outcome = "completed" /\ Blocking(r.skips) # {}

(* The cycle's own view of a funding-only skip: it decides ok and error. *)
FundingOnlySkip(r) ==
  /\ r.outcome = "completed"
  /\ IsFundingBlock(r.skips)
  /\ r.orders = {}

ResultOk(r) == r.outcome # "raised" /\ (Blocked(r) => FundingOnlySkip(r))

(* Fault: a block is retryable whether or not the claim was acquired. *)
BlockRetryableAlways(r) == Blocked(r)

BlockRetryable(r) == Blocked(r) /\ ~r.claimed

HasError(r) == r.persistError \/ ~ResultOk(r)

(* The receipt adapter's stricter reading of the same result. *)
IsExpectedFundingSkip(r) ==
  /\ FundingOnlySkip(r)
  /\ r.stage = "FUNDING_BLOCKED"
  /\ ~HasError(r)

HttpStatus(r) ==
  IF r.outcome = "raised" \/ (BlockRetryable(r) /\ ~IsExpectedFundingSkip(r) /\ r.mode = "live")
    THEN 500
    ELSE 200

SubmissionAttempted(r) == r.orders # {}

ReconciliationRequired(r) ==
  \/ r.stage \in {"PENDING_RECONCILIATION", "PENDING_SUBMISSION"}
  \/ PendingReconciliation(r.orders)

RiskBlocked(r) ==
  /\ ~SubmissionAttempted(r)
  /\ ~IsExpectedFundingSkip(r)
  /\ r.stage \in {"EXECUTION_BLOCKED", "FUNDING_BLOCKED"} \/ Blocked(r)

(* The receipt's outcome.  The precedence is the shared resolver's: a dry  *)
(* run is no_action, uncertainty precedes submission.  An exception that   *)
(* escaped the cycle is failed in both modes.                              *)
ReceiptOutcome(r) ==
  IF r.outcome = "raised" THEN "failed"
  ELSE IF r.mode = "dry" THEN "no_action"
  ELSE IF ReconciliationRequired(r) THEN "reconciliation_required"
  ELSE IF SubmissionAttempted(r) THEN "submitted"
  ELSE IF RiskBlocked(r) THEN "risk_blocked"
  ELSE IF ~ResultOk(r) THEN "failed"
  ELSE "no_action"

(* Pending orders are "known" when every one was accepted with a broker id *)
(* and nothing else in the cycle needs attention.                          *)
KnownPendingOrders(r) == r.orders = {"submitted"} /\ r.skips = {} /\ ~HasError(r)

CycleKind(r) ==
  IF Blocked(r) THEN "blocked_run"
  ELSE IF PendingReconciliation(r.orders) /\ ~KnownPendingOrders(r) THEN "order_status_unknown"
  ELSE IF HasError(r) THEN "real_error"
  ELSE IF KnownPendingOrders(r) THEN "order_submitted"
  ELSE "routine_cycle"
=============================================================================
