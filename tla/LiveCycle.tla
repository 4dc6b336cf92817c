----------------------------- MODULE LiveCycle ------------------------------
(***************************************************************************)
(* Strategy cycles running concurrently against one account and profile.   *)
(*                                                                         *)
(* A worker is a gunicorn thread of some Cloud Run instance serving /run   *)
(* (a live cycle) or /dry-run.  A worker serves one cycle after another,   *)
(* so a retry, a later scheduled run and a second instance are all just    *)
(* another cycle of some worker.  Cycles share only objects of the GCS     *)
(* state store: the latest record of a run period, and the create-only     *)
(* submission claim of the period.  One action is one access to the store  *)
(* or to the broker together with the computation up to the next access.   *)
(***************************************************************************)
EXTENDS CycleOutcome, FiniteSets

CONSTANTS
  Workers,        \* threads serving requests, over all instances
  Periods,        \* run periods (months) cycles may resolve to
  CycleModes,     \* which endpoints are called: a subset of Modes
  Persistence,    \* values of persist_strategy_runs (with a store) in use
  OldClaims,      \* claims an earlier release may have left: within {"none", "legacy"}
  MarketBlocks,   \* skip reasons market and account may cause
  StoreFaults,    \* whether a store access may fail while the system is troubled
  Crashes,        \* whether a worker may be killed while the system is troubled
  Unified,        \* FIRSTRADE_UNIFIED_NOTIFICATION_ENABLED
  MaxActive,      \* bound on the cycles in progress at once
  MaxNotices      \* bound: funding notices are counted up to here

ASSUME ModesAssumption == CycleModes \subseteq Modes
ASSUME PersistenceAssumption == Persistence \subseteq BOOLEAN
ASSUME OldClaimsAssumption == OldClaims \subseteq {"none", "legacy"}
ASSUME BlocksAssumption == MarketBlocks \subseteq SkipReasons \ {"rejected"}
ASSUME SwitchesAssumption == StoreFaults \in BOOLEAN /\ Crashes \in BOOLEAN /\ Unified \in BOOLEAN
ASSUME BoundsAssumption == MaxActive \in Nat /\ MaxNotices \in Nat
ASSUME PeriodsAssumption == Periods # {}
ASSUME WorkersAssumption == {"nobody", "past", "free", "used"} \cap Workers = {}

VARIABLES
  latest,     \* latest[m][p]: stage in latest.json of mode m and period p
  claim,      \* claim[p]: the live submission claim object of p
  cyc,        \* cyc[w]: the cycle worker w is serving
  incident,   \* the blocked-run incident marker is active (unified notifications)
  healthy,    \* from here on the store works, funds and quotes are there
  sender,     \* history: who has sent live broker requests for p
  atBroker,   \* history: periods for which the broker may hold a live order
  quiet,      \* history: periods a live cycle completed with NO_ACTION
  notices     \* history: funding notices sent for p

vars == <<latest, claim, cyc, incident, healthy, sender, atBroker, quiet, notices>>
store == <<latest, claim>>
history == <<sender, atBroker, quiet, notices>>

StoredStages == Stages \cup {"none"}
Claims == {"none", "legacy", "v2"}

Steps == {"idle", "readLatest", "readClaim", "writeDuplicate", "writePlanned",
          "execute", "claim", "submit", "readBlocked", "writeCompleted",
          "notify", "respond"}

(* The locals of run_strategy_cycle that outlive a store or broker access. *)
(* sent and alive are history: the cycle made a live broker request, and   *)
(* the broker may hold an order of it.                                     *)
Cycle ==
  [step : Steps, mode : Modes, period : Periods, persist : BOOLEAN,
   seen : StoredStages, acquired : BOOLEAN, orders : SUBSET OrderStatuses,
   skips : SUBSET SkipReasons, persistError : BOOLEAN, result : Results,
   sent : BOOLEAN, alive : BOOLEAN]

FreshCycle(m, p, persist) ==
  [step |-> "idle", mode |-> m, period |-> p, persist |-> persist,
   seen |-> "none", acquired |-> FALSE, orders |-> {}, skips |-> {},
   persistError |-> FALSE, result |-> RaisedResult(m), sent |-> FALSE, alive |-> FALSE]

IdleCycle == FreshCycle("live", CHOOSE p \in Periods : TRUE, TRUE)

Active == {w \in Workers : cyc[w].step # "idle"}

(* Store, locals of run_strategy_cycle and histories have their types: in  *)
(* particular a result is one of the results main.py can answer with, a    *)
(* skipped one carrying a stage the code knows.                            *)
TypeOK ==
  /\ latest \in [Modes -> [Periods -> StoredStages]]
  /\ claim \in [Periods -> Claims]
  /\ cyc \in [Workers -> Cycle]
  /\ incident \in BOOLEAN
  /\ healthy \in BOOLEAN
  /\ sender \in [Periods -> Workers \cup {"nobody", "past"}]
  /\ atBroker \in SUBSET Periods
  /\ quiet \in SUBSET Periods
  /\ notices \in [Periods -> 0 .. MaxNotices]

Init ==
  /\ latest = [m \in Modes |-> [p \in Periods |-> "none"]]
  /\ claim \in [Periods -> OldClaims]
  /\ cyc = [w \in Workers |-> IdleCycle]
  /\ incident = FALSE
  /\ healthy = FALSE
  /\ sender = [p \in Periods |-> "nobody"]
  /\ atBroker = {}
  /\ quiet = {}
  /\ notices = [p \in Periods |-> 0]

-----------------------------------------------------------------------------
At(w, step) == cyc[w].step = step

Become(w, c) == cyc' = [cyc EXCEPT ![w] = c]

Go(w, step) == Become(w, [cyc[w] EXCEPT !.step = step])

(* The cycle's locals end with it; what main.py goes on with is its result.*)
(* acquired stays until the worker is free: the claim is held that long.   *)
Ended(c, step, result) ==
  [c EXCEPT !.step = step, !.result = result, !.seen = "none",
            !.orders = {}, !.skips = {}, !.persistError = FALSE]

(* The cycle returns a result; main.py then notifies and answers. *)
Return(w, result) == Become(w, Ended(cyc[w], "notify", result))

(* An exception leaves run_strategy_cycle: main.py answers 500. *)
Raise(w) == Become(w, Ended(cyc[w], "respond", RaisedResult(cyc[w].mode)))

StoreMayFail == StoreFaults /\ ~healthy

(* Faults: a funding block, or any record at all, uses the period up. *)
IsDuplicateWhenFundingBlocked(stage) == stage \in LiveTerminalStages \cup {"FUNDING_BLOCKED"}
IsDuplicateOnAnyRecord(stage) == stage # "none"

(* is_duplicate_live_run; the record read is a live one by its key. *)
IsDuplicateLiveRun(stage) == stage \in LiveTerminalStages

(* has_effective_live_submission_claim *)
HasEffectiveClaim(c) == c = "v2"

(* Connection, snapshot, market data and evaluation happen before anything *)
(* is stored; any of them may raise, which ends the cycle at once.         *)
StartCycle(w, m, p, persist) ==
  /\ At(w, "idle")
  /\ Cardinality(Active) < MaxActive
  /\ Become(w, [FreshCycle(m, p, persist) EXCEPT !.step =
                  IF m = "live" /\ persist THEN "readLatest"
                  ELSE IF persist THEN "writePlanned" ELSE "execute"])
  /\ UNCHANGED <<store, incident, healthy, history>>

ReadLatest(w) ==
  /\ At(w, "readLatest")
  /\ \/ Become(w, [cyc[w] EXCEPT !.step = "readClaim",
                                  !.seen = latest["live"][cyc[w].period]])
     \/ StoreMayFail /\ Raise(w)
  /\ UNCHANGED <<store, incident, healthy, history>>

ReadClaim(w) ==
  /\ At(w, "readClaim")
  /\ \/ LET blocks == HasEffectiveClaim(claim[cyc[w].period]) IN
          \/ blocks /\ Return(w, SkippedResult(cyc[w].seen, FALSE))
          \/ ~blocks /\ IsDuplicateLiveRun(cyc[w].seen) /\ Go(w, "writeDuplicate")
          \/ ~blocks /\ ~IsDuplicateLiveRun(cyc[w].seen) /\ Go(w, "writePlanned")
     \/ StoreMayFail /\ Raise(w)
  /\ UNCHANGED <<store, incident, healthy, history>>

(* persist_strategy_run_state writes latest.json, then a history object.   *)
(* Either write may fail: the stage is stored with or without an error, or *)
(* not stored.  Nothing checks what the record held.                       *)
Persisted(w, stage, failed) ==
  LET m == cyc[w].mode  p == cyc[w].period IN
  \/ ~failed /\ latest' = [latest EXCEPT ![m][p] = stage]
  \/ failed /\ StoreMayFail /\ latest' \in {latest, [latest EXCEPT ![m][p] = stage]}

WriteDuplicate(w) ==
  /\ At(w, "writeDuplicate")
  /\ \E failed \in BOOLEAN :
       /\ Persisted(w, cyc[w].seen, failed)
       /\ Return(w, SkippedResult(cyc[w].seen, failed))
  /\ UNCHANGED <<claim, incident, healthy, history>>

WritePlanned(w) ==
  /\ At(w, "writePlanned")
  /\ \E failed \in BOOLEAN :
       /\ Persisted(w, "ORDERS_PLANNED", failed)
       /\ Become(w, [cyc[w] EXCEPT !.step = "execute", !.persistError = failed])
  /\ UNCHANGED <<claim, incident, healthy, history>>

-----------------------------------------------------------------------------
(* execute_value_target_plan, as a sequence of orders skipped, previewed   *)
(* or submitted, in any number and order.                                  *)

SkipOrder(w, reason) ==
  /\ At(w, "execute")
  /\ ~healthy
  /\ reason \notin cyc[w].skips
  /\ Become(w, [cyc[w] EXCEPT !.skips = @ \cup {reason}])
  /\ UNCHANGED <<store, incident, healthy, history>>

PreviewOrder(w) ==
  /\ At(w, "execute")
  /\ cyc[w].mode = "dry"
  /\ Become(w, [cyc[w] EXCEPT !.orders = @ \cup {"previewed"}])
  /\ UNCHANGED <<store, incident, healthy, history>>

(* Faults: the claim is not asked for, or is skipped without persistence. *)
PlaceOrderUnclaimed(w) ==
  /\ At(w, "execute")
  /\ cyc[w].mode = "live"
  /\ Go(w, "submit")
  /\ UNCHANGED <<store, incident, healthy, history>>

PlaceOrderWithoutStore(w) ==
  /\ At(w, "execute")
  /\ cyc[w].mode = "live"
  /\ Go(w, IF cyc[w].persist /\ ~cyc[w].acquired THEN "claim" ELSE "submit")
  /\ UNCHANGED <<store, incident, healthy, history>>

(* A live order first passes acquire_submission_claim: it raises without   *)
(* persistence, and asks the store only until the claim is acquired.       *)
PlaceOrder(w) ==
  /\ At(w, "execute")
  /\ cyc[w].mode = "live"
  /\ \/ ~cyc[w].persist /\ Raise(w)
     \/ cyc[w].persist /\ cyc[w].acquired /\ Go(w, "submit")
     \/ cyc[w].persist /\ ~cyc[w].acquired /\ Go(w, "claim")
  /\ UNCHANGED <<store, incident, healthy, history>>

(* Faults: the claim is written without a precondition, or a failed        *)
(* creation counts as a claim.                                             *)
AcquireClaimOverwriting(w) ==
  /\ At(w, "claim")
  /\ claim' = [claim EXCEPT ![cyc[w].period] = "v2"]
  /\ Become(w, [cyc[w] EXCEPT !.step = "submit", !.acquired = TRUE])
  /\ UNCHANGED <<latest, incident, healthy, history>>

AcquireClaimFailOpen(w) ==
  LET p == cyc[w].period IN
  /\ At(w, "claim")
  /\ \/ /\ claim[p] = "none" \/ StoreMayFail
        /\ claim' = IF claim[p] = "none" THEN [claim EXCEPT ![p] = "v2"] ELSE claim
        /\ Become(w, [cyc[w] EXCEPT !.step = "submit", !.acquired = TRUE])
     \/ claim[p] # "none" /\ Go(w, "readBlocked") /\ UNCHANGED claim
  /\ UNCHANGED <<latest, incident, healthy, history>>

(* Fault: the claim is taken first and the order decided on afterwards.    *)
AcquireClaimEarly(w) ==
  LET p == cyc[w].period IN
  /\ At(w, "claim")
  /\ \/ /\ claim[p] = "none"
        /\ claim' = [claim EXCEPT ![p] = "v2"]
        /\ Become(w, [cyc[w] EXCEPT !.step = "execute", !.acquired = TRUE])
     \/ claim[p] # "none" /\ Go(w, "readBlocked") /\ UNCHANGED claim
  /\ UNCHANGED <<latest, incident, healthy, history>>

(* create_json with if_generation_match=0.  A failed call may have created *)
(* the object; a call the storage client repeated may find its own object  *)
(* and report that it exists.                                              *)
AcquireClaim(w) ==
  LET p == cyc[w].period
      free == claim[p] = "none"
      Create == claim' = [claim EXCEPT ![p] = "v2"]
  IN
  /\ At(w, "claim")
  /\ \/ /\ free
        /\ Create
        /\ Become(w, [cyc[w] EXCEPT !.step = "submit", !.acquired = TRUE])
     \/ ~free /\ Go(w, "readBlocked") /\ UNCHANGED claim
     \/ free /\ StoreMayFail /\ Create /\ Go(w, "readBlocked")
     \/ free /\ StoreMayFail /\ Create /\ Raise(w)
     \/ StoreMayFail /\ UNCHANGED claim /\ Raise(w)
  /\ UNCHANGED <<latest, incident, healthy, history>>

(* The claim was not acquired: report the record as it now stands. *)
ReadBlocked(w) ==
  /\ At(w, "readBlocked")
  /\ \/ Return(w, SkippedResult(latest["live"][cyc[w].period], cyc[w].persistError))
     \/ StoreMayFail /\ Raise(w)
  /\ UNCHANGED <<store, incident, healthy, history>>

(* One broker request.  The adapter sees it accepted, rejected or unknown, *)
(* or the call raises; an unknown or raised request may be alive.          *)
Request(w, alive) ==
  LET p == cyc[w].period IN
  /\ sender' = [sender EXCEPT ![p] = w]
  /\ atBroker' = IF alive THEN atBroker \cup {p} ELSE atBroker

Sent(w, alive) ==
  [cyc[w] EXCEPT !.sent = TRUE, !.alive = @ \/ alive]

(* Fault: an accepted order is not recorded. *)
OrderAcceptedUnrecorded(w) ==
  /\ At(w, "submit")
  /\ Request(w, TRUE)
  /\ Become(w, [Sent(w, TRUE) EXCEPT !.step = "execute"])
  /\ UNCHANGED <<store, incident, healthy, quiet, notices>>

OrderAccepted(w) ==
  /\ At(w, "submit")
  /\ Request(w, TRUE)
  /\ Become(w, [Sent(w, TRUE) EXCEPT !.step = "execute", !.orders = @ \cup {"submitted"}])
  /\ UNCHANGED <<store, incident, healthy, quiet, notices>>

OrderRejected(w) ==
  /\ At(w, "submit")
  /\ Request(w, FALSE)
  /\ Become(w, [Sent(w, FALSE) EXCEPT !.step = "execute", !.skips = @ \cup {"rejected"}])
  /\ UNCHANGED <<store, incident, healthy, quiet, notices>>

(* Fault: an unknown answer counts as a rejection. *)
OrderUnknownAsRejected(w) ==
  /\ At(w, "submit")
  /\ \E alive \in BOOLEAN :
       /\ Request(w, alive)
       /\ Become(w, [Sent(w, alive) EXCEPT !.step = "execute", !.skips = @ \cup {"rejected"}])
  /\ UNCHANGED <<store, incident, healthy, quiet, notices>>

(* An unknown order ends the execution at once. *)
OrderUnknown(w) ==
  /\ At(w, "submit")
  /\ \E alive \in BOOLEAN :
       /\ Request(w, alive)
       /\ Become(w, [Sent(w, alive) EXCEPT !.step = "writeCompleted",
                                           !.orders = @ \cup {"unknown"}])
  /\ UNCHANGED <<store, incident, healthy, quiet, notices>>

OrderRaises(w) ==
  /\ At(w, "submit")
  /\ \E alive \in BOOLEAN :
       /\ Request(w, alive)
       /\ Become(w, Ended(Sent(w, alive), "respond", RaisedResult("live")))
  /\ UNCHANGED <<store, incident, healthy, quiet, notices>>

(* place_stock_order validates before it sends: it may raise unsent. *)
OrderRefusedLocally(w) ==
  /\ At(w, "submit")
  /\ ~healthy
  /\ Raise(w)
  /\ UNCHANGED <<store, incident, healthy, history>>

(* After the sells their status is asked for; nothing catches a failure.   *)
StatusQueryRaises(w) ==
  /\ At(w, "execute")
  /\ "submitted" \in cyc[w].orders
  /\ ~healthy
  /\ Raise(w)
  /\ UNCHANGED <<store, incident, healthy, history>>

FinishExecution(w) ==
  /\ At(w, "execute")
  /\ Go(w, "writeCompleted")
  /\ UNCHANGED <<store, incident, healthy, history>>

-----------------------------------------------------------------------------
WriteCompleted(w) ==
  LET c == cyc[w]
      stage == CycleStage(c.mode, c.orders, c.skips)
      Finish(failed) ==
        Return(w, CompletedResult(c.mode, c.orders, c.skips, c.acquired,
                                  c.persistError \/ failed))
  IN
  /\ At(w, "writeCompleted")
  /\ \/ ~c.persist /\ Finish(FALSE) /\ UNCHANGED latest
     \/ c.persist /\ \E failed \in BOOLEAN : Persisted(w, stage, failed) /\ Finish(failed)
  /\ quiet' = IF c.mode = "live" /\ stage = "NO_ACTION" THEN quiet \cup {c.period} ELSE quiet
  /\ UNCHANGED <<claim, incident, healthy, sender, atBroker, notices>>

(* Fault: the incident of a blocked run is not remembered. *)
NotifyUntracked(w) ==
  LET r == cyc[w].result
      p == cyc[w].period
  IN
  /\ At(w, "notify")
  /\ Go(w, "respond")
  /\ notices' = IF IsFundingBlock(r.skips) /\ notices[p] < MaxNotices
                  THEN [notices EXCEPT ![p] = @ + 1] ELSE notices
  /\ UNCHANGED <<store, incident, healthy, sender, atBroker, quiet>>

(* notify_cycle for /run; /dry-run asks for no notification.  Without the  *)
(* unified contract every kind that is not routine is sent; with it, a     *)
(* blocked run is sent when its incident opens, and a routine cycle whose  *)
(* candidate was stored closes the incident.  The result's own             *)
(* notification_suppressed_by_policy field is not looked at.               *)
Notify(w) ==
  LET r == cyc[w].result
      p == cyc[w].period
      kind == CycleKind(r)
      funding == IsFundingBlock(r.skips)
      Send == notices' = IF funding /\ notices[p] < MaxNotices
                           THEN [notices EXCEPT ![p] = @ + 1] ELSE notices
  IN
  /\ At(w, "notify")
  /\ Go(w, "respond")
  /\ \/ /\ r.mode = "live" /\ kind = "blocked_run"
        /\ \/ ~Unified /\ Send /\ UNCHANGED incident
           \/ Unified /\ ~incident /\ incident' = TRUE /\ Send
           \/ Unified /\ incident /\ UNCHANGED <<incident, notices>>
     \/ /\ r.mode = "live" /\ kind = "routine_cycle"
        /\ incident' = FALSE
        /\ UNCHANGED notices
     \/ /\ r.mode = "dry" \/ kind \notin {"blocked_run", "routine_cycle"} \/ StoreMayFail
        /\ UNCHANGED <<incident, notices>>
  /\ UNCHANGED <<store, healthy, sender, atBroker, quiet>>

(* The worker is free again: its locals, the acquired claim's memory among *)
(* them, are gone.                                                         *)
Forget(w) ==
  /\ Become(w, IdleCycle)
  /\ sender' = [p \in Periods |-> IF sender[p] = w THEN "past" ELSE sender[p]]
  /\ UNCHANGED <<store, incident, healthy, atBroker, quiet, notices>>

Respond(w) == At(w, "respond") /\ Forget(w)

(* The instance or the worker process is killed (gunicorn timeout, scale-  *)
(* down, deploy) between any two accesses.                                 *)
Crash(w) ==
  /\ Crashes /\ ~healthy
  /\ cyc[w].step \notin {"idle", "respond"}
  /\ Forget(w)

(* The environment settles: funds arrive, quotes and the store work. *)
Recover ==
  /\ ~healthy
  /\ healthy' = TRUE
  /\ UNCHANGED <<store, cyc, incident, history>>

-----------------------------------------------------------------------------
Start(w) ==
  \E m \in CycleModes, p \in Periods, persist \in Persistence : StartCycle(w, m, p, persist)

Broker(w) ==
  \/ OrderAccepted(w) \/ OrderRejected(w) \/ OrderUnknown(w)
  \/ OrderRaises(w) \/ OrderRefusedLocally(w) \/ StatusQueryRaises(w)

(* What the program does next in a cycle, left alone. *)
Proceed(w) ==
  \/ ReadLatest(w) \/ ReadClaim(w) \/ WriteDuplicate(w) \/ WritePlanned(w)
  \/ PlaceOrder(w) \/ AcquireClaim(w) \/ ReadBlocked(w) \/ Broker(w)
  \/ FinishExecution(w) \/ WriteCompleted(w) \/ Notify(w) \/ Respond(w)

Next ==
  \/ \E w \in Workers :
       \/ Start(w) \/ Proceed(w) \/ PreviewOrder(w) \/ Crash(w)
       \/ \E reason \in MarketBlocks : SkipOrder(w, reason)
  \/ Recover

Spec == Init /\ [][Next]_vars

(* gunicorn ends a request that does not progress, so a cycle progresses   *)
(* or dies; inside the strategy window Cloud Scheduler keeps calling /run  *)
(* for the same period, and a call that keeps finding every worker busy is *)
(* taken in the end.  Trouble ends eventually.                             *)
Fairness ==
  /\ \A w \in Workers : WF_vars(Proceed(w))
  /\ \A w \in Workers, p \in Periods : SF_vars(StartCycle(w, "live", p, TRUE))
  /\ WF_vars(Recover)

FairSpec == Spec /\ Fairness

-----------------------------------------------------------------------------
(* Safety of the live retry boundary (README.md, "Live retry boundary").   *)

(* Once one cycle has sent a live broker request for a period, no other    *)
(* cycle ever sends one for it: not a concurrent one, not a scheduler      *)
(* retry, not the next scheduled run, whatever the store lost, whichever   *)
(* worker died and however the first request ended.  This is what the      *)
(* claim taken in acquire_submission_claim is for.                         *)
AtMostOneSubmitter ==
  [][\A p \in Periods :
       sender[p] # "nobody" => sender'[p] \in {sender[p], "past"}]_vars

(* A live request is never ahead of its durable claim: wherever a cycle    *)
(* stands right before a request, and ever after one, the period's claim   *)
(* object is there and has_effective_live_submission_claim accepts it, so  *)
(* a crash at any point leaves the evidence a later cycle reads first.     *)
ClaimPrecedesRequest ==
  /\ \A p \in Periods : sender[p] # "nobody" => HasEffectiveClaim(claim[p])
  /\ \A w \in Workers : At(w, "submit") => HasEffectiveClaim(claim[cyc[w].period])

(* The answer that makes Cloud Scheduler call again for a blocked cycle    *)
(* (_strategy_result_http_status with execution_block_retryable) is only   *)
(* given when that cycle sent nothing.                                     *)
RetryStatusMeansNothingSent ==
  \A w \in Workers :
    LET r == cyc[w].result IN
    (At(w, "respond") /\ r.mode = "live" /\ r.outcome = "completed" /\ HttpStatus(r) = 500)
      => ~cyc[w].sent

(* A cycle whose execution receipt says nothing is open (no_action) or     *)
(* that risk rules stopped it (risk_blocked) left no order of its own at   *)
(* the broker, rejected and unknown answers and failed writes included.    *)
ReceiptNeverHidesLiveOrder ==
  \A w \in Workers :
    (At(w, "respond") /\ ReceiptOutcome(cyc[w].result) \in {"no_action", "risk_blocked"})
      => ~cyc[w].alive

(* A cycle skips itself as a duplicate only when some live cycle claimed   *)
(* the period or completed with nothing to do.  The records of blocks,     *)
(* dry runs, crashed cycles and failed writes alone never use up a period; *)
(* a claim does, whatever became of its cycle.                             *)
DuplicateIsJustified ==
  \A w \in Workers :
    (cyc[w].step \in {"notify", "respond"} /\ cyc[w].result.outcome = "skipped")
      => HasEffectiveClaim(claim[cyc[w].period]) \/ cyc[w].period \in quiet

(* The docstring of has_effective_live_submission_claim: claims written    *)
(* before the current boundary are non-blocking.                           *)
LegacyClaimDoesNotBlock ==
  \A w \in Workers :
    (cyc[w].step \in {"notify", "respond"} /\ cyc[w].result.outcome = "skipped")
      => claim[cyc[w].period] # "legacy"

(* README.md: uncertain submissions retain their failure or reconciliation *)
(* status.  While the broker may hold an order of the period, no later     *)
(* cycle's receipt calls the period's state no_action.                     *)
UncertainSubmissionStaysOpen ==
  \A w \in Workers :
    LET r == cyc[w].result IN
    (At(w, "respond") /\ r.mode = "live" /\ cyc[w].period \in atBroker)
      => ReceiptOutcome(r) # "no_action"

(* README.md: funding blocks notify once. *)
FundingBlockNotifiesOnce == \A p \in Periods : notices[p] <= 1

(* What a period must come to: a live request was sent for it, or a live   *)
(* cycle found nothing to do.  A claim alone does not settle it.           *)
Settled(p) == sender[p] # "nobody" \/ p \in quiet

(* The period's claim is stored, nothing was sent under it and no cycle is *)
(* about to send: every later cycle is skipped as a duplicate, and the     *)
(* period is lost.                                                         *)
Stranded(p) ==
  /\ claim[p] = "v2" /\ sender[p] = "nobody"
  /\ \A w \in Workers : ~(At(w, "submit") /\ cyc[w].period = p)

(* The three faults that strand it: the worker dies between its claim and  *)
(* its request, the order is refused before it is sent, or the claim is    *)
(* created by a call that raises or says that it exists, so that the cycle *)
(* does not know it for its own.                                           *)
LosesClaim(p) ==
  \E w \in Workers :
    /\ cyc[w].period = p
    /\ \/ At(w, "submit") /\ Crash(w)
       \/ OrderRefusedLocally(w)
       \/ At(w, "claim") /\ claim[p] = "none" /\ StoreMayFail /\ ~cyc'[w].acquired

(* Once the trouble is over the scheduler's next calls send the period's   *)
(* orders or find nothing to do: no block, no crash before the claim, no   *)
(* failed read, write or status query locks a period out.  A period whose  *)
(* claim was stranded is exempt; how that comes about is the property      *)
(* below.                                                                  *)
PeriodEventuallySettled == \A p \in Periods : <>(Settled(p) \/ Stranded(p))

(* acquire_submission_claim is asked for right before the first request    *)
(* and not earlier, so a claim without a request is left only by the three *)
(* faults of LosesClaim: no block, skipped order, empty execution, failed  *)
(* write or concurrent cycle strands a period.                             *)
ClaimStrandedOnlyByFault ==
  [][\A p \in Periods : Stranded(p)' /\ ~Stranded(p) => LosesClaim(p)]_vars

(* What AtMostOneSubmitter rests on, as an inductive invariant: a cycle    *)
(* about to send remembers its claim; a remembered claim is in the store,  *)
(* belongs to one cycle and nobody else has sent for its period; whoever   *)
(* is sending remembers the claim of that period.                          *)
ClaimHeldByItsSender ==
  /\ \A w \in Workers : At(w, "submit") => cyc[w].acquired
  /\ \A w \in Workers : At(w, "idle") => ~cyc[w].acquired
  /\ \A w \in Workers : cyc[w].acquired =>
       /\ claim[cyc[w].period] = "v2"
       /\ sender[cyc[w].period] \in {"nobody", w}
  /\ \A v, w \in Workers :
       (cyc[v].acquired /\ cyc[w].acquired /\ cyc[v].period = cyc[w].period) => v = w
  /\ \A p \in Periods : sender[p] # "nobody" => claim[p] = "v2"
  /\ \A w \in Workers, p \in Periods :
       sender[p] = w => cyc[w].acquired /\ cyc[w].period = p

-----------------------------------------------------------------------------
(* The cycles implement the one-shot submission right of SubmissionRight:  *)
(* an acquired claim in a cycle's locals is the right in its hands, the    *)
(* claim object without such a cycle is the right used up.                 *)
Holders(p) == {w \in Workers : cyc[w].acquired /\ cyc[w].period = p}

rightBar ==
  [p \in Periods |-> IF Holders(p) # {} THEN CHOOSE w \in Workers : w \in Holders(p)
                     ELSE IF claim[p] = "none" THEN "free" ELSE "used"]

Right == INSTANCE SubmissionRight WITH right <- rightBar

ImplementsSubmissionRight == Right!Spec
=============================================================================
