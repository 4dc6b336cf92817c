# FirstradePlatform: TLA+ models, checks and proofs

FirstradePlatform executes target-value trading strategies in a Firstrade
account. It is a Flask service on Cloud Run (one gunicorn worker process with
eight threads and a 120 s timeout per instance, `gunicorn.conf.py:1-3`), called
by Cloud Scheduler, with jobs and scripts beside it. What it remembers is in
JSON objects of a GCS bucket, in one local file per instance, and at the
broker; nothing is locked, and the only atomic operation is a conditional
write of one object.

This directory models the parts in which several calls, a crash or a late
answer can go wrong: the strategy cycle and its live retry boundary, the
execution of orders, the notification tracker, the broker session caches, the
daily digest and its heartbeat, the account facts and their archive, the
deployment scripts and the runtime guard.
Paths below are relative to the repository.

To check: `tlc -config live_concurrent.cfg MCLiveCycle.tla` for a run, `tlapm
LiveCycleProofs.tla` for the proofs. `PROJECT.json` lists components, runs,
the code each definition stands for, hazards, findings and theorems.

## 1. The system

| Component | State it keeps | Operations | Modelled by |
|---|---|---|---|
| Strategy cycle and live retry boundary (`application/rebalance_service.py`, `strategy_run_persistence.py`, `state_persistence.py`) | per account, profile, mode and run period: `latest.json`, history, the create-only submission claim | `run_strategy_cycle` | `LiveCycle`, `SubmissionRight` |
| Cycle result, receipt, HTTP status (`execution_receipt_adapter.py`, `main.py`) | none: functions of a result | stage, ok, retryable, status, receipt outcome, notification kind | `CycleOutcome` |
| Order execution (`execution_service.py`, `runtime_broker_adapters.py`) | locals of one execution; orders at the broker | `execute_value_target_plan` | `OrderSizing`, `OrderExecution` |
| Unified notifications and incident tracker (`notifications/unified.py`, `notifications/digest_snapshot/unified_contract.py`) | one marker per incident key; digest candidates | `notify_cycle`, `notify_heartbeat`, `_tracked`, `_merge` | `IncidentTracker`; the routing of a cycle in `LiveCycle`; candidates and coverage failures in `DigestCoverage` |
| Broker client and session cache (`firstrade_client.py`) | a session file per instance, one shared session object | `connect`, `connect_read_only`, saves, `place_stock_order` | `SessionCache`; order request in `LiveCycle` |
| Session maintenance (`session_check_service.py`) | period marker, funds snapshot (latest and history) | `run_session_check`, `run_forced_session_renewal`, archive | `SessionCache` (marker, renewal), `AccountFacts` (funds snapshot) |
| HTTP service (`main.py`) | none of its own | `/run`, `/dry-run`, `/session-check`, `/session-renew`, `/account-facts-sync`, `/reconcile`, `/paper-command-consumer`, ... | the first five by the models above and below; the rest in section 5 and the plan |
| Digest and heartbeat scripts (`notifications/digest_snapshot/`, `scripts/execution_report_heartbeat.py`, `scripts/publish_digest_before_read.py`) | archived reports, one candidate object per target and day | judge the reports, project them, merge | `HeartbeatVerdict`, `DigestCoverage` |
| Account facts (`account_facts_readonly.py`, `account_facts_publisher.py`, `scripts/sync_cached_account_facts.py`, `scripts/publish_archived_account_history.py`) | funds archive (latest, history), the console's facts | collect with the cached session, archive, publish, dispatch, backfill | `AccountFacts` |
| Runtime guard and alert dedupe (`scripts/cloud_run_runtime_guard.py`, `scripts/runtime_guard_alert_dedupe.py`) | alert state in a workflow cache | query logs, decide, alert | `RuntimeGuard` |
| Deployment scripts (`scripts/reconcile_cloud_runtime.py`, `scripts/account_facts_config_sync.py`, `scripts/verify_cached_diagnostic_stage.py`, `.github/workflows/sync-cloud-run-env.yml`) | the service's revisions, traffic, tag; the scheduler jobs | deploy, sync, reconcile, stage, clean up | `Deployment` |
| Paper execution (`paper_execution_admission.py`, `paper_execution_command_consumer.py`) | commands and their receipts | admit, consume, reconcile | not modelled (section 5) |
| Reconciliation (`broker_reconciliation.py`, `statement_reconciliation.py`) | none | match broker rows and statements with the ledger | not modelled (section 5) |
| Configuration resolution, decision mapping, rendering | configuration | resolve, compare, render | not: sequential or text |

How they interact. `/run` connects through the session cache, reads account and
market data, reads `latest.json` and the claim of the period, plans, and hands
the plan to the order execution, which calls back to acquire the claim before
its first live order (`rebalance_service.py:761-769`). The result goes back
through `main.py`, which derives notification, receipt and HTTP status; a 500
makes Cloud Scheduler call again. The notification goes through the incident
tracker, which heartbeat jobs also use. `/session-check` and `/session-renew`
write the same session object that cycles and the account-facts reader use.
A cycle archives its report and merges its row into the day's candidate object;
the heartbeat and the publisher read the reports later and merge into the same
object. The guard reads the logs of the service the deployment scripts change,
from the creation of its latest ready revision on.

What is hard in it, and the properties that make each part correct:

* **Cycle**: a retry overlaps a slow cycle; a worker dies between claim and
  request, or between request and record; a store write fails. Correct means:
  one cycle per period sends orders; its claim is durable first; retries are
  asked for only when nothing was sent; receipts do not hide live orders; a
  period is used up only by a claim or by a cycle that found nothing to do; in
  the end its orders are sent or there are none to send. One exemption is the
  code's own: a claim left without a request loses the period for good, which
  three faults can bring about and nothing else.
* **Execution**: answers are accepted, rejected, unknown or an exception, and
  sells fill late or never. Correct means: buys never spend unconfirmed
  proceeds; nothing is sent after an unknown outcome; no half rebalancing
  behind an open sell; limits of cap and holding; a result that covers every
  order that may be live.
* **Tracker**: conflicting compare-and-sets, writes applied although they
  raised, observations out of order. Correct means: an alert is sent at most
  once per reservation, never credited with another's receipt, never rolled
  back by an older observation, and not lost when nothing fails.
* **Session caches**: two caches written one after the other without a
  condition, instances with stale files, renewals next to reuse. Correct means:
  only verified sessions are cached; an ok renewal is stored; a failed check is
  not counted; a renewal on one instance is enough for all.
* **Digest**: the same row is merged by a cycle and by a job that reads its
  report; uploads and markers fail. Correct means: rows only get worse; a
  routine cycle, which says nothing itself, is in the digest or announced when it
  has run to its end, or kept back by an incident whose opener announces it; and
  a day is called healthy only on the newest reports. What is stopped promises
  nothing: a stopped cycle, a stopped job, an incident whose opener was stopped
  before it sent. Nor does a candidates step its binding refuses, nor a failed
  publication; those two are only seen in the workflow run.
* **Account facts**: an archive, a console, a log and a script that reads it,
  every answer of which may be lost or belong to another call. Correct means:
  the console holds nothing whose account and second the archive lacks, no answer claims more than was
  done, an old success is not taken for a new one.
* **Deployment**: every command may fail and an operator may edit between two of
  them. Correct means: success is reported of the service as it was read, and
  once a job calls the service's monitors one always does, through every
  half-made change, until a sync of another service takes the one dispatcher.
* **Guard**: alerts are recorded before they are sent, and the record may be
  lost. Correct means: nothing but an alert, or a named exemption, silences a
  failure.

## 2. Modules

`Proofs` modules extend the module they prove about; `MC` modules add only the
constants and symmetry TLC needs.

**CycleOutcome** (no state) has the reductions of what happened in a cycle:
`ResolveStage`/`CycleStage` (`rebalance_service.py:856`), `CompletedResult`,
`HttpStatus` (`main.py:378`), `ReceiptOutcome`
(`execution_receipt_adapter.py`), `CycleKind` (`unified.py:426`). Skip reasons
are grouped by what they do to the outcome.

**LiveCycle** runs cycles of several workers concurrently. One action is one
access to store or broker with the computation up to the next one:
`StartCycle`, `ReadLatest`, `ReadClaim`, `WriteDuplicate` or `WritePlanned`,
`SkipOrder`/`PreviewOrder`/`PlaceOrder`, `AcquireClaim`, the broker's answers
(`OrderAccepted`, `OrderRejected`, `OrderUnknown`, `OrderRaises`,
`OrderRefusedLocally`), `StatusQueryRaises`, `FinishExecution`, `ReadBlocked`,
`WriteCompleted`, `Notify`, `Respond`, and `Crash`, `Recover` from outside.
`latest[m][p]` and `claim[p]` are the store, `cyc[w]` the locals of
`run_strategy_cycle`, `incident` the blocked-run marker as one boolean;
`sender`, `atBroker`, `quiet` and `notices` are history.

**SubmissionRight** is what the claim promises: a right per period that is
free, held by one worker or used; only its holder sends; it may be lost unused.
`LiveCycle` defines the mapping (claim object and who remembers acquiring it)
and `ImplementsSubmissionRight` is the refinement, checked and proved.

**OrderSizing** has the pure sizes: investable cash, sell budget, whole-share
and dollar buys with top-up, cap and cash, in cents and half-share units.
It also has the targets a small account can hold: a share retained for a target
close to it, a first share, else cash. `RetainRatio` is the smaller of the general
85 % and a symbol's own (0 where retention is unconditional), `BootstrapRatio` a
symbol's own (above 100 where a first share is never bought).
**OrderExecution** is `execute_value_target_plan`: adjust the targets, quote all,
sell symbol by symbol, ask which sells are filled, decide whether buys wait, buy
symbol by symbol, build the result. The plan is chosen freely in `Init`. Targets
are adjusted at a first quote and orders sized at a second one, which may
differ or fail.

**IncidentTracker** is one marker and its observers: read, reserve by
compare-and-set on the version read, send, read back, record the delivery.
`version` is the GCS generation, `generation` the incident's. The transition
key, a digest of the reservation, is represented by the generation.

**HeartbeatVerdict** (no state) is the judgement of
`scripts/execution_report_heartbeat.py`: which of the listed objects count for a
due target, the newest accepted one, issues newer than it, and what an
unreadable object makes of the verdict.
**DigestCoverage** is the business day: `Report` (the archived report, confirmed
or not), `ReadCandidates`/`WriteCandidate`/`CandidateStoreRaises` (`_merge`),
`Recover`, `Coverage` and `SendFailure` (the incident
`notification_candidate_write_failure` and the fallback without it) for a cycle;
for a job `Evaluate`, `List`, `ReadDigest`, `WriteDigest`, the conclusion and its
message. `archive` is the order reports were written in, `digest[t]` the
candidate object with its generation, `opener[t]` who opened the target's active
incident. `announced` (who attempted a coverage message) and `heldBy` (whose
incident kept a run's message back) are history. `Killed` and `Interrupted` stop
a process and record nothing but that (`stopped`, `cut`); `Refused` is the
candidates step that `with_heartbeat_digest_binding.py` turns away; `noted` is
the file by which the heartbeat step tells the candidates step of its message.

**AccountFacts** has the funds archive (`latest`, `history` with the generation of
each object), the console, and Cloud Logging's rows. Requests to
`/account-facts-sync` and session checks both write the archive; the dispatching
script runs a scheduler job and reads its outcome from the rows; the backfill
selects one archived object of a past day, reads it at the generation listed and
posts it. The posted payload stands for the archived observation: the script sets
its finish time to the instant and its currency to USD and leaves the positions
out (`publish_archived_account_history.py:40-46`), and no property turns on these.
`claims` is history: what was answered to whom. An observation counts as
archived when one of its account and second is: an object's path has no more.

**Deployment** is one Cloud Run service: revisions in the order of their creation,
`traffic` (spec) and `status` (what requests reach), the diagnostic tag, the
scheduler jobs. `flow` is the workflow that runs, with the views of the service
its scripts keep between two commands; `Converge` and `BecomeReady` are Cloud
Run, `Edit` an operator, who may also remove a legacy job. A location has one
dispatcher job. A sync lists in its service only that service's own target
(`sync-cloud-run-env.yml:1206-1236`) and points the job to it (`:1535-1553`), so
with several targets each sync takes the dispatcher from the service it called
before: `SyncOther` is such a sync seen from this service, and leaves the job
`"elsewhere"`. A sync also sets or removes the facts variables and the token's
secret (`AliasesAfter`). The target is enabled. The workflow's shell is external to `src/` scripts but
in the repository, and is modelled from `.github/workflows/sync-cloud-run-env.yml`.
**RuntimeGuard** extends it with the guard's runs: `GuardStart` restores the
cache and resolves the targets, `QueryService` and `QueryScheduler` read the
logs, `Decide` is `runtime_guard_alert_dedupe.decide` or `clear_issues`, then
`Send` and `SaveState`; `Die` ends a run anywhere. `alerts` is history.

**SessionCache** has the session file of each instance, the shared object, the
session-check marker, and calls of four kinds: `connect` (cycles), `check`,
`renew`, `readOnly` (account facts). A session is a number the provider has
issued; the provider ends sessions and refuses logins at any time. The order of
writes is the code's: `_save_session_cache` writes the file, then the object,
and ignores both failures; `save_verified_session_cache` writes the object,
fails unless acknowledged, then the file. `connect` unlinks the file when a
restored session is rejected, whichever cache it came from.

## 3. Runs

| Run | Question | Result |
|---|---|---|
| `live_concurrent` | two live cycles of a period at once, with and without a store, all faults: who sends, what do status, receipt and duplicate skip say, is the claim a right | holds |
| `live_modes` | live and dry-run cycles one after another, every block, unified notifications: is a period used up or hidden by a dry run, a funding block announced twice; once the trouble is over, are the period's orders sent or found unnecessary, unless its claim was left without a request, and what can leave it so | holds (fairness) |
| `orders` | live and dry, whole and dollar, cash-only and margin, stale values, cap, reserve, debit, targets below a share: cash, limits, the retained share, all or none, the result | holds |
| `incidents` | two observers, raising stores, lost acknowledgements, crashes: what is sent twice, falsely delivered, overwritten, never announced | holds |
| `digest_coverage` | two cycles and the jobs after the day, processes stopped: who is in the digest, who is announced and by whom, what a job's end says, what is healthy | holds |
| `sessions` | two instances, calls of four kinds, all faults; stale files after a renewal | holds (fairness) |
| `account_facts` | requests, a check, a dispatch and a backfill with every write and answer lost | holds |
| `operations` | two workflows, or one under edits, with failing commands: is a reported success true, are the monitors called through a migration and back and beside the sync of another service; two or three runs of the guard beside entries and revisions: is a failure silenced | holds |
| `legacy_claim` | a claim of an earlier release | violated, finding 1 |
| `funding_default` | is a funding block announced once by default | violated, finding 2 |
| `uncertain_submission` | is an uncertain submission still reported by the next cycle | violated, finding 3 |
| `reserved_cash` | do buys stay within the investable cash | violated, finding 4 |

Each property of a passing run comes with a mutant in `PROJECT.json`: a
plausible bug in one definition (an operator marked "Fault" next to it) under
which TLC finds the property violated in the same run.

### Findings

1. A claim object written by an earlier release is documented as non-blocking
   (`strategy_run_persistence.py:172`), and is read so, but it occupies the key
   at which the new claim is created, so every cycle of that period ends
   `idempotency_blocked`.
2. Without unified notifications `/run` announces the same funding block on
   every retry: `notify_cycle` does not look at the suppression the cycle
   decided. `README.md:36` says funding blocks notify once.
3. When a broker request raises, `latest.json` keeps `ORDERS_PLANNED`; the next
   cycle repeats that stage as a duplicate and its receipt is `no_action`,
   although the broker may hold the order. `README.md:43` says uncertain
   submissions retain their status.
4. An investable cash of exactly 0 is falsy in
   `execution.get("investable_cash") or portfolio.get("liquid_cash")`
   (`execution_service.py:594`): with a reserve at least as large as the cash,
   the whole cash is spent on buys.

### Bounds, and why they are enough

* *Cycles*: one period, as periods share no object; two workers, which take new
  cycles as they finish, so retries, later runs and other instances are all
  there; at most two cycles at once (`MaxActive`), the least that can race.
  `live_modes` and `funding_default` have one at a time: two concurrent funding
  blocks may both announce before either has set the marker, which nothing
  promises otherwise.
* *Executions*: three symbols (two for the reserve), the least at which a first buy can take
  what a second needs behind a sell, the last of them a safe haven; two prices,
  so that the second quote may be above or below the first; six positions: a
  value without shares, one to sell, one to buy, one to top up, a first share,
  and two shares one of which is retained; cash on both sides of zero and of a share.
* *Digest*: two runs of one target, the least that can merge into one object at
  the same time; `MixedKinds` makes the first a routine cycle and the second one
  of every other kind, so a routine cycle meets each other way (two routine
  cycles are not run together: an order cycle takes the same way but for
  `Recover`; the proofs cover all pairs); two attempts and two inspected reports
  make giving up and passing over an older report happen; one job, since jobs meet a cycle's write and not each
  other (the workflow's concurrency group).
* *Account facts*: two requests beside one check, one script, one backfill; two
  ticks, each a day, for one observation before and one after the script began;
  `Listings` has the selected account alone and another account alone, which is
  the case in which the selector is none of the session's accounts.
* *Tracker*: two severities; two attempts for the code's eight: the property
  that depends on the number is that giving up raises, and it is reached with
  two; four observations, enough for alert, recovery, new alert and a
  late one; a clock of one tick orders observations. These runs switch the
  deadlock check off because the bound on observations ends a behaviour, as
  do `digest_coverage`, `account_facts` and `operations`, where every call ends.
* *Sessions*: two sessions are an old and a renewed one, which is what can be
  confused; two instances are one that is checked and renewed and one that
  connects and reads, so that the second has a stale file after a renewal of the
  first. Calls are repeated without bound, the number of logins is bounded by
  `MaxSessions`. There is no clock: a payload may be too old at any load until
  trouble is over (`settled`), which covers every time to live.
  The run has a shared object; without one (`Shared = FALSE`) only the files
  are left, and the safety theorems cover both.
* *Operations*: `Scenarios` bound what may begin, so that one run covers them
  without their product: two runs of the guard beside two entries, or one entry
  and a new revision, with one tick; three runs without entries over two ticks;
  two workflows one after the other, for a plan of one target and for one of
  several (a migration to the direct jobs and back, or beside another service's
  sync), and one workflow beside one edit. `Limit` 1 lets an entry crowd another
  out, `Lookback` 1 lets one fall out of the window, `Reminder` 2 lets a repeat
  come before and after it is due, `Tolerance` 0 makes a request and a job of the
  same tick one failure and of two ticks two. The guard's mode is `on`, the only
  one that suppresses; `off` and `dry_run` always send. Entries and ticks between
  a decision and the end of its run are postponed to that end (`Attentive`): the
  run reads neither in between.

### Fairness

`live_modes` assumes that a cycle progresses or is ended (gunicorn's timeout) and
that trouble ends (`Recover`: funds and the store are back), by weak fairness;
and, by strong fairness, that Cloud Scheduler calls `/run` again in the period
whatever dry runs come between. Nothing is assumed of the broker's or the store's
choices. `sessions` assumes weak fairness of a
call's steps and strong fairness of starting a `connect`, since scheduled runs
keep coming whatever other calls are made. It assumes nothing of logins, which may be refused for
ever: the claim is that none is needed. `settled` there means that the provider
ends no more sessions and the shared object holds a good one with nothing in
progress; whether that moment comes is not claimed.

## 4. Proofs

For all values of the constants (any number of workers, periods, symbols,
observers, instances, requests, runs, revisions; any bounds), from the named
assumptions of each module, which give the constants their types and the bounds
their signs. A theorem that needs more says so as its hypothesis. Each invariant
was first checked by TLC on the module's run.

| Module | Theorems | Argument |
|---|---|---|
| `LiveCycleProofs` | `TypeCorrect`, `ClaimHeld`, `ClaimIsDurable`, `OneSubmitter` | That at most one cycle sends is an action property and says nothing of who may send next. `ClaimHeldByItsSender` is inductive: a cycle about to send remembers its claim; a remembered claim is in the store, belongs to one cycle, and nobody else has sent for its period. The create-only write makes a claim the only way to start remembering. |
| | `ClaimsStrandedByFaults` | Action by action: a period becomes stranded when its claim appears without a cycle about to send, or when the cycle about to send stops being so without having sent. A cycle that asks for a free claim does not remember one (`ClaimHeld`), so where it does not send afterwards its call had failed. Only `AcquireClaim` creates a claim, only a request, a local refusal or a crash leaves that step. |
| `LiveOutcomeProofs` | `RequestsRecorded`, `RetryRepeatsNothing`, `ReceiptsTellOfOrders` | Status and receipt are read off the result, so the invariant must follow an order into it: a cycle sends only under a claim it acquired, and until it has reported an order that may be alive that order is among its statuses (`Recorded`). It speaks of one cycle at a time. |
| | `RecordsEarned`, `DuplicatesAreJustified` | A skip is decided on a record read earlier, so the invariant is about the reader and the record both: a terminal stage in `latest.json`, a stage a cycle has seen and a claim it gives way to are found only in periods that were claimed or found quiet (`RecordsAreEarned`). Hypothesis: no claim of an earlier release, which finding 1 shows to be needed. |
| | `FundingNotifiesOnce` | `TurnsFit`: a live cycle works only in a period with no terminal record, no claim but its own, and no incident closed after a notice, and a routine end leaves a terminal record, so that an incident closed in a period is not opened there again. Hypothesis `OneAtATime`: the unified contract (finding 2 otherwise), a store, no legacy claim, and one cycle at a time in one period. These are the conditions under which the code can be said to promise it: two blocked cycles at once may both announce, and the incident of two periods is one object. |
| | `CyclesImplementRight` | `LiveCycle` implements `SubmissionRight`: with `ClaimHeld`, creating the claim takes the right, a request is a send by its holder, the end of a cycle or its crash gives it up, a claim stored by a write that raised is a right lost, and every other step stutters. |
| `OrderExecutionProofs` | `ExecutionInvariant`, `CashCoversBuys` | That buys are covered is not inductive without what the execution still believes it may spend. `CashIsThere`: cash left plus cash committed is at most the liquid cash and the confirmed proceeds, and each phase only looks at its own symbols. Fills are confirmed one at a time, so no fact about sums over sets is needed. |
| | `OrdersStayWithinLimits` | An order is within its limits when it is sized (`SellLimits`, `BuyCapped`, about the rounding of `OrderSizing`), and plan and quotes do not change once there are orders (`OrdersAreSized`). That a retained share stays is arithmetic about what the sell leaves (`ShareIsLeft`). |
| | `ResultsCoverLiveOrders`, `NothingAfterUnknown` | `AnswersAreHeeded`: an unknown or lost answer is only found when the execution is over, a dry run has previews only, and nothing is sent live without the claim. |
| | `BuysGoAllOrNone` | `BuysGoTogether`: from the decision on, no buy is made or every buy fits the cash at the start and the estimated costs of those to come fit the cash left (`Paid`). So the next buy, sized with the cash left, is the one planned at the start (`SameBuyShares`). The estimate is a sum over a set, which the library computes by recursion in an order of its own; `SumWithout` shows that any element may be taken out first. The induction theorems cannot be used, so the induction is by a smallest counterexample (`MinimalSet`): that there is a function with the recursion (`SumExists`), that it is unique, and that the order is irrelevant. |
| | `ReserveRespected` | The complement of finding 4, with its exclusion as the hypothesis `ReserveLeavesCash`: then the plan's cash is the investable cash, and the argument of `CashIsThere` holds for that. |
| `IncidentTrackerProofs` | `ReservationHeld`, `SentOnce` | One send per reservation needs that reservations in hand differ from each other and from those sent, which needs that an unchanged version means an unchanged marker. |
| | `IncidentsAreAnnounced`, `DeliveriesAreReceipted` | `AlertsAreEarned`: an observer that bears a receipt has sent its own reservation, and records only on a marker of that reservation's generation (`Bears`), since the marker may have moved on when the answer to an alert returns. |
| | `LaterStands` | An observer about to write has read nothing later than itself (`Timely`), and an unchanged version means that the marker is still the one it read. |
| `SessionCacheProofs` | `SessionInvariant`, `TypeCorrect`, `CachesAreVerified`, `RenewalIsTrue`, `MarkerIsEarned` | The caches are verified because what a call restores was verified, and a call at a save step holds a verified session: `Knows` states what each step knows of its session, of the shared write and of the kind of call that can be there. |
| | `SharedKeepsWorking` | Once settled, every call that is about to write holds a session the provider accepts (`SettledIsSound`), because it has read the account with it since. |
| `DigestCoverageProofs` | `TypeCorrect`, `DigestOnlyWorsens` | A merge may only worsen the object it read: `Prior` (an unchanged generation means unchanged rows) turns the precondition of the write into that. |
| | `RoutineCyclesAccountedFor`, `EmissionsAccountedFor`, `HealthyEarned` | `CyclesFit` says what a cycle in each step has put into the digest or announced, or by whom it was kept back; `JobsFit` the same of what a job has projected so far, binding by binding, and of its note: who noted a message has attempted it or was cut before it could. `OpenersAnswer` carries this over to another's incident: who opened an active one, or one that kept a message back, has said it, is about to, or was stopped. Rows are never removed and messages not unsaid, so all survive the other writers. Nothing is recorded for a stopped process: the statements exempt it by its own step. `Earned` keeps with a verdict the part of the archive it was reached from, which only grows behind it. |
| `AccountFactsProofs` | `TypeCorrect`, `ArchivedFirst`, `ClaimsHold`, `CompletionIsFresh` | One invariant in parts, each about one record: an archived object is at its own path and stays; a request that publishes has archived what it publishes; a backfill holds what it read; a row that says ok, and a script that completed, have an observation at the console not older than themselves. |
| `RuntimeGuardProofs` | `MonitoredThroughout`, `ReportsHold` | `DInv`. That the monitors are called needs what each workflow has left of its job plan (`Planned`): the old job is only let go when the new one is live. A dispatcher that calls another service is found only in a plan of several targets, in which none is deleted. That reports are true needs that revisions are only added, templates stay and a ready one stays ready (`Grows`), so that what was read of them remains true while the service is edited. |
| | `TypeCorrect`, `NothingSilenced` | `GInv` adds the guard: what its window holds and what it failed to see (`Searched`), and that the cached state remembers only what an alert had, or the alert about to be sent (`AlertsFit`). The alert of a run killed while sending counts in `alerts` as one lost on the way, so the claim is about what is remembered, not about Telegram. |

Every safety property of a passing run is stated by one of these theorems.
The type invariant of an execution is proved only (`ExecutionInvariant`).
`BuysWithinInvestableCash`, which `reserved_cash` finds violated, is proved where
finding 4 does not apply, and `DuplicateIsJustified` and
`FundingBlockNotifiesOnce` where findings 1 and 2 do not. Beyond the prover and left to TLC:
liveness (`PeriodEventuallySettled`, `InstancesHeal`), which needs fairness and
ENABLED; what exempts a period from the first, a stranded claim, is proved to come
from three faults only (`ClaimsStrandedByFaults`). No module declares a recursive operator.

## 5. Not modelled, and why

* Strategy evaluation, market data and snapshot parsing happen before the first
  access to shared state; in `LiveCycle` they are one step that may end a cycle.
* What the platform kit's `apply_small_account_cash_compatibility` makes of the
  safe havens when no target is left is a choice of `OrderExecution` (`MaySweep`);
  the drift notes and projected orders of an execution are text.
* Text, rendering, routes, formatting of keys. One account is modelled; keys of
  several accounts are planned (`state_persistence.py:15` masks the id).
* Digest: candidate objects of an older format (`unified.py:232-245`), dry-run
  rows, and several targets in the checked instance (the module has them).
* Account facts: the native history page (`scripts/archive_account_history_page.py`)
  and the projection of one day's runtime reports.
* Deployment: building the environment plan
  (`build_cloud_run_env_sync_plan.py`, a sequential computation without state),
  `diagnose_cached_stage_failure.py` (reports only), the adoption of a facts
  revision, a first staging without a tag, the jobs of a disabled target, the
  cleanup of old revisions; the aliases of secrets are four cases, and container
  shapes one value. Logs and revisions of services other than the deployed one
  have no readiness window in the guard's model.
* Paper execution: commands, claims and receipts are kept by the platform kit
  (`paper_execution_command_consumer.py:16-21`); what is here computes one
  proposal from one command and snapshot, and keeps nothing. Reconciliation only
  reads (`broker_reconciliation.py:3-8`) and reports; its candidate stays blocked
  for want of executions, and nothing acts on it.
* Session reuse switched off (no cache at all), and the session-check policies
  `skip` and `always` (no marker is read).
* A period whose claim was stranded stays lost: nothing in the code releases a
  claim or tells one without a request from one with (`rebalance_service.py:635`).
  The model shows how it comes about, and claims no recovery.
* Digest: what a stopped cycle or job would have announced, a refused candidates
  step and a failed publication are exempt, as the code says nothing there.
* Deployment: the monitors of a service from which another's sync took the
  dispatcher, until its own next sync; the configuration lists of the others.
* `latest.json` is written without a condition (`strategy_run_persistence.py:271`);
  `LiveCycle` does so too, and claims nothing about its keeping a stage under
  concurrency.
* With a call in progress that restored an older session, a renewal's shared
  session can be overwritten (`firstrade_client.py:659`); `SessionCache` allows
  it, and `SharedStaysUsable` is claimed only once no call is in progress.

## 6. Plan

In this order. A new module gets one run for its faults; runs that ask the same
module related questions are merged, so that the list stays at about a dozen:

1. **Native account history** (create-only, read back) in `AccountFacts`; the
   adoption of a facts revision in `Deployment`.
2. **Endpoint gates** of `main.py` and routing/classification of notifications.

Theorems next: for each of these its invariant. A condition under which an
uncertain submission stays reported (finding 3) is not stated yet.
