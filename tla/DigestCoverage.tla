--------------------------- MODULE DigestCoverage ---------------------------
(***************************************************************************)
(* How the cycles of one business day get into the daily digest.  A cycle  *)
(* archives its report and merges its row into the candidate object of its *)
(* target; after the day's end the heartbeat workflow and the publisher    *)
(* project the archived reports and merge them into the same objects.  The *)
(* merge is a compare-and-set loop.  A routine cycle sends no message of   *)
(* its own, so one that is not merged must be announced.                   *)
(*                                                                         *)
(* One action is one access to the archive, the candidate store, the       *)
(* marker of the incident notification_candidate_write_failure or the      *)
(* message transport.  Unified notifications are switched on.              *)
(***************************************************************************)
EXTENDS HeartbeatVerdict, FiniteSets, Sequences

CONSTANTS
  Runs,        \* cycles of the day
  Targets,     \* runtime targets, each with its own candidate object
  TargetOf,    \* the target of a run
  KindsOf,     \* the kinds a run may turn out to be of, all of them or some
  Jobs,        \* executions of the heartbeat workflow or the publisher
  Attempts,    \* compare-and-set attempts of one merge (8)
  MaxReports   \* reports one heartbeat reads

(* What cycle_kind makes of a cycle, as far as its way differs: "order" is *)
(* order_submitted or fill, "unnamed" such a cycle whose orders have no    *)
(* broker ids, "misbound" a routine cycle whose report carries an identity *)
(* no binding has, "raised" a cycle that raised.                           *)
Kinds == {"routine", "order", "unnamed", "urgent", "misbound", "raised"}

ASSUME TargetsAssumption == TargetOf \in [Runs -> Targets] /\ IsFiniteSet(Targets)
ASSUME NamesAssumption == Runs \cap Jobs = {} /\ "nobody" \notin Runs \cup Jobs
ASSUME KindsAssumption == KindsOf \in [Runs -> SUBSET Kinds]
ASSUME LimitsAssumption == Attempts \in Nat \ {0} /\ MaxReports \in Nat \ {0}

RoutineKinds == {"routine", "order", "misbound"}

(* A row of the candidate object: "alert" as merged by the cycle itself,   *)
(* "sourceAlert" as projected from its report, "conflict" for two rows     *)
(* that differ.                                                            *)
RowStates == {"none", "ok", "alert", "sourceAlert", "conflict"}

VARIABLES
  archive,   \* runs in the order their reports were archived
  report,    \* report[r]: what a heartbeat would make of r's report
  digest,    \* digest[t]: generation and rows of the candidate object of t
  opener,    \* opener[t]: who opened t's active candidate-write-failure incident
  cyc,       \* cyc[r]: the cycle of run r
  job,       \* job[j]: what scheduled job j is doing
  dueFrom,   \* reports of t archived from this position on count as due
  closed,    \* the business day is over
  announced, \* history: runs and jobs that attempted a coverage failure message
  heldBy     \* history: whose active incident kept the message of a run back

vars == <<archive, report, digest, opener, cyc, job, dueFrom, closed, announced, heldBy>>

Actors == Runs \cup Jobs

Digests == [version : Nat, rows : [Runs -> RowStates]]
NoRows == [r \in Runs |-> "none"]
NoDigest == [version |-> 0, rows |-> NoRows]

CycleSteps == {"ready", "read", "write", "recover", "coverage", "send", "done", "stopped"}
Cycles == [step : CycleSteps, kind : Kinds, seen : Digests, attempt : Nat]

JobSteps == {"idle", "evaluate", "list", "read", "write", "emitted", "failed", "send",
             "done", "refused", "stopped"}
Phases == {"heartbeat", "candidates", "publish"}
Verdicts == {"none", "notDue", "healthy", "attention", "unacceptable"}

(* basis: length of the archive the verdict is about; todo: targets still  *)
(* to project, listed: runs projected so far; noted: the file of the run   *)
(* says that the heartbeat step attempted a coverage message; ok: the last *)
(* emission succeeded; cut (history): a process of the job was stopped.    *)
JobRecords ==
  [step : JobSteps, phase : Phases, verdict : Verdicts, basis : Nat, todo : SUBSET Targets,
   listed : SUBSET Runs, seen : Digests, attempt : Nat,
   noted : BOOLEAN, ok : BOOLEAN, cut : BOOLEAN]

IdleJob ==
  [step |-> "idle", phase |-> "heartbeat", verdict |-> "none",
   basis |-> 0, todo |-> {}, listed |-> {}, seen |-> NoDigest, attempt |-> 0,
   noted |-> FALSE, ok |-> FALSE, cut |-> FALSE]

TypeOK ==
  /\ archive \in Seq(Runs)
  /\ report \in [Runs -> Classes \cup {"none"}]
  /\ digest \in [Targets -> Digests]
  /\ opener \in [Targets -> Actors \cup {"nobody"}] /\ closed \in BOOLEAN
  /\ cyc \in [Runs -> Cycles]
  /\ job \in [Jobs -> JobRecords]
  /\ dueFrom \in [Targets -> Nat]
  /\ announced \subseteq Actors /\ heldBy \in [Runs -> Actors \cup {"nobody"}]

Init ==
  /\ archive = <<>>
  /\ report = [r \in Runs |-> "none"]
  /\ digest = [t \in Targets |-> NoDigest]
  /\ opener = [t \in Targets |-> "nobody"]
  /\ cyc = [r \in Runs |-> [step |-> "ready", kind |-> "routine", seen |-> NoDigest, attempt |-> 0]]
  /\ job = [j \in Jobs |-> IdleJob]
  /\ dueFrom = [t \in Targets |-> 0]
  /\ closed = FALSE
  /\ announced = {} /\ heldBy = [r \in Runs |-> "nobody"]

-----------------------------------------------------------------------------
At(r, step) == cyc[r].step = step
Go(r, step) == cyc' = [cyc EXCEPT ![r] = [@ EXCEPT !.step = step, !.seen = NoDigest, !.attempt = 0]]
Become(j, record) == job' = [job EXCEPT ![j] = record]

(* The row the cycle merges, and the row its archived report projects to.  *)
CycleRow(kind) == IF kind \in {"routine", "order"} THEN "ok" ELSE "alert"

(* Fault: a report of orders without ids projects to a status no reader knows. *)
ReportRowUnlisted(kind) == IF kind = "unnamed" THEN "warning" ELSE "ok"

ReportRow(kind) == IF kind \in {"routine", "order", "unnamed"} THEN "ok" ELSE "sourceAlert"

(* Fault: the later row replaces the one observed. *)
MergedTakingLater(old, row) == IF row = "none" THEN old ELSE row

(* An observed alert, or rows that contradict each other, stay visible. *)
Merged(old, row) ==
  IF row = "none" THEN old
  ELSE IF old \in {"none", row} THEN row ELSE "conflict"

(* Fault: the upload has no generation precondition. *)
UnchangedAssumed(t, seen) == TRUE

Unchanged(t, seen) == digest[t].version = seen.version

Write(t, seen, rows) ==
  digest' = [digest EXCEPT ![t] =
    [version |-> @.version + 1, rows |-> [r \in Runs |-> Merged(seen.rows[r], rows[r])]]]

RowOf(r, row) == [NoRows EXCEPT ![r] = row]

(* Rows projected from the reports of t among the runs listed. *)
Projected(t, runs) ==
  [r \in Runs |-> IF r \in runs /\ TargetOf[r] = t THEN ReportRow(cyc[r].kind) ELSE "none"]

Archived == {archive[i] : i \in DOMAIN archive}

(* Reports the projector takes for a binding: those of its very identity. *)
Bound(runs) == {r \in runs : cyc[r].kind # "misbound"}

-----------------------------------------------------------------------------
(* The cycle. *)

ClassesOf(kind) ==
  CASE kind = "routine" -> {"quiet", "visible"}
    [] kind \in {"order", "unnamed"} -> {"quiet", "visible"}
    [] kind = "urgent" -> {"visible", "rejected"}
    [] kind = "misbound" -> {"conflicting"}
    [] kind = "raised" -> {"rejected"}

(* Fault: an unconfirmed report does not stop the cycle from being quiet. *)
AfterReportUnchecked(kind, confirmed) == IF kind = "raised" \/ ~confirmed THEN "done" ELSE "read"

(* _run_strategy_cycle_with_report, after the report: a cycle that raised  *)
(* is not notified; a routine one becomes a candidate only when its report *)
(* is archived for certain; notify_cycle refuses an unknown identity.      *)
AfterReport(kind, confirmed) ==
  IF kind = "raised" THEN "done"
  ELSE IF kind = "misbound" THEN "send"
  ELSE IF kind \in RoutineKinds \cup {"unnamed"} /\ ~confirmed THEN "send"
  ELSE "read"

(* The cycle is over and its report has been persisted, or not, or nobody  *)
(* knows: the upload raised, or answered with another path.                *)
Report(r) ==
  /\ At(r, "ready") /\ ~closed
  /\ \E kind \in KindsOf[r], confirmed, written \in BOOLEAN :
       /\ confirmed => written
       /\ IF written
            THEN /\ archive' = Append(archive, r)
                 /\ \E class \in ClassesOf(kind) : report' = [report EXCEPT ![r] = class]
            ELSE UNCHANGED <<archive, report>>
       /\ cyc' = [cyc EXCEPT ![r] = [@ EXCEPT !.kind = kind, !.step = AfterReport(kind, confirmed)]]
  /\ UNCHANGED <<digest, opener, job, dueFrom, closed, announced, heldBy>>

(* notify_cycle reads the candidate object. *)
ReadCandidates(r) ==
  /\ At(r, "read")
  /\ cyc' = [cyc EXCEPT ![r] = [@ EXCEPT !.step = "write", !.seen = digest[TargetOf[r]]]]
  /\ UNCHANGED <<archive, report, digest, opener, job, dueFrom, closed, announced, heldBy>>

AfterMerge(kind) ==
  IF kind \in {"routine", "order"} THEN "recover" ELSE "done"

AfterFailedMerge(kind) == IF kind \in {"routine", "order"} THEN "coverage" ELSE "done"

(* One attempt of _merge; a lost compare-and-set is read and merged again. *)
WriteCandidate(r) ==
  LET t == TargetOf[r]  seen == cyc[r].seen  row == CycleRow(cyc[r].kind) IN
  /\ At(r, "write")
  /\ \/ /\ Unchanged(t, seen)
        /\ Write(t, seen, RowOf(r, row))
        /\ Go(r, AfterMerge(cyc[r].kind))
     \/ /\ ~Unchanged(t, seen)
        /\ IF cyc[r].attempt + 1 < Attempts
             THEN cyc' = [cyc EXCEPT ![r] =
                    [@ EXCEPT !.step = "read", !.seen = NoDigest, !.attempt = cyc[r].attempt + 1]]
             ELSE Go(r, AfterFailedMerge(cyc[r].kind))
        /\ UNCHANGED digest
  /\ UNCHANGED <<archive, report, opener, job, dueFrom, closed, announced, heldBy>>

(* The read or the write raises; a write may have been applied. *)
CandidateStoreRaises(r) ==
  LET t == TargetOf[r]  seen == cyc[r].seen IN
  /\ cyc[r].step \in {"read", "write"}
  /\ \/ UNCHANGED digest
     \/ At(r, "write") /\ Unchanged(t, seen) /\ Write(t, seen, RowOf(r, CycleRow(cyc[r].kind)))
  /\ Go(r, AfterFailedMerge(cyc[r].kind))
  /\ UNCHANGED <<archive, report, opener, job, dueFrom, closed, announced, heldBy>>

(* A routine cycle in the digest ends the coverage incident; a marker that *)
(* cannot be read or written is left as it is.  Orders end their own       *)
(* incident, and an error there is reported as a failure.                  *)
Recover(r) ==
  /\ At(r, "recover")
  /\ \/ /\ cyc[r].kind = "routine"
        /\ opener' \in {opener, [opener EXCEPT ![TargetOf[r]] = "nobody"]}
        /\ Go(r, "done")
     \/ /\ cyc[r].kind = "order"
        /\ Go(r, "done") \/ Go(r, "send")
        /\ UNCHANGED opener
  /\ UNCHANGED <<archive, report, digest, job, dueFrom, closed, announced, heldBy>>

Active(t) == opener[t] # "nobody"

(* Fault: the marker's failure silences the message too. *)
CoverageSilenced(r) ==
  LET t == TargetOf[r]  opened == [opener EXCEPT ![t] = r] IN
  /\ At(r, "coverage")
  /\ \/ /\ Active(t) /\ Go(r, "done")
        /\ heldBy' = [heldBy EXCEPT ![r] = opener[t]] /\ UNCHANGED opener
     \/ ~Active(t) /\ Go(r, "send") /\ opener' = opened /\ UNCHANGED heldBy
     \/ Go(r, "done") /\ opener' \in {opener, IF Active(t) THEN opener ELSE opened} /\ UNCHANGED heldBy
  /\ UNCHANGED <<archive, report, digest, job, dueFrom, closed, announced>>

(* The candidate was not written: the failure is reserved in the target's  *)
(* incident, which sends nothing while it is active.  When the marker      *)
(* raises, the message is sent without it.                                 *)
Coverage(r) ==
  LET t == TargetOf[r]  opened == [opener EXCEPT ![t] = r] IN
  /\ At(r, "coverage")
  /\ \/ /\ Active(t) /\ Go(r, "done")
        /\ heldBy' = [heldBy EXCEPT ![r] = opener[t]] /\ UNCHANGED opener
     \/ ~Active(t) /\ Go(r, "send") /\ opener' = opened /\ UNCHANGED heldBy
     \/ Go(r, "send") /\ opener' \in {opener, IF Active(t) THEN opener ELSE opened} /\ UNCHANGED heldBy
  /\ UNCHANGED <<archive, report, digest, job, dueFrom, closed, announced>>

(* send_failure: the message is handed to the transport, which may raise. *)
SendFailure(r) ==
  /\ At(r, "send")
  /\ announced' = announced \cup {r}
  /\ Go(r, "done")
  /\ UNCHANGED <<archive, report, digest, opener, job, dueFrom, closed, heldBy>>

(* The process is stopped; what it had not said yet is never said. *)
Killed(r) ==
  /\ cyc[r].step \notin {"ready", "done", "stopped"}
  /\ Go(r, "stopped")
  /\ UNCHANGED <<archive, report, digest, opener, job, dueFrom, closed, announced, heldBy>>

-----------------------------------------------------------------------------
(* The scheduled jobs. *)

(* The schedule of t was due: reports from here on answer it. *)
DueAt(t) ==
  /\ ~closed /\ dueFrom[t] = 0
  /\ dueFrom' = [dueFrom EXCEPT ![t] = Len(archive) + 1]
  /\ UNCHANGED <<archive, report, digest, opener, cyc, job, closed, announced, heldBy>>

(* 06:00 in Singapore: the window of the day is complete. *)
Close ==
  /\ ~closed /\ \A r \in Runs : cyc[r].step # "ready"
  /\ closed' = TRUE
  /\ UNCHANGED <<archive, report, digest, opener, cyc, job, dueFrom, announced, heldBy>>

JobAt(j, step) == job[j].step = step
Emit(record, targets) ==
  [record EXCEPT !.step = "list", !.todo = targets, !.listed = {}, !.seen = NoDigest, !.attempt = 0]

(* After the heartbeat step the workflow runs emit_unified_digest_candidates. *)
Candidates(record) ==
  [Emit(record, Targets) EXCEPT !.phase = "candidates", !.verdict = "none", !.basis = 0, !.ok = FALSE]

(* The workflow starts with the heartbeat of all targets, which            *)
(* with_heartbeat_digest_binding may refuse; the publisher has one target. *)
StartJob(j) ==
  /\ JobAt(j, "idle") /\ closed
  /\ \/ Become(j, [job[j] EXCEPT !.step = "evaluate"])
     \/ Become(j, Candidates(job[j]))
     \/ \E t \in Targets : Become(j, [Emit(job[j], {t}) EXCEPT !.phase = "publish"])
  /\ UNCHANGED <<archive, report, digest, opener, cyc, dueFrom, closed, announced, heldBy>>

DueTargets == {t \in Targets : dueFrom[t] # 0}

(* The listing, newest first; the objects in bad cannot be read. *)
Listing(bad) ==
  [i \in DOMAIN archive |->
    LET p == Len(archive) + 1 - i IN
    [target |-> TargetOf[archive[p]], class |-> report[archive[p]], readable |-> p \notin bad,
     due |-> dueFrom[TargetOf[archive[p]]] \in 1 .. p]]

(* main of execution_report_heartbeat up to its verdict.  Without a due    *)
(* target nothing is emitted or sent.                                      *)
Evaluate(j) ==
  /\ JobAt(j, "evaluate")
  /\ \E bad \in SUBSET DOMAIN archive, listed \in BOOLEAN :
       LET verdict == Verdict(Listing(bad), DueTargets, MaxReports, listed)
           judged == [job[j] EXCEPT !.verdict = verdict, !.basis = Len(archive)]
       IN  Become(j, IF verdict = "notDue" THEN Candidates(judged) ELSE Emit(judged, Targets))
  /\ UNCHANGED <<archive, report, digest, opener, cyc, dueFrom, closed, announced, heldBy>>

(* The binding that is projected next; they have a fixed order. *)
Current(j) == CHOOSE t \in job[j].todo : TRUE
ArchivedOf(t) == {r \in Bound(Archived) : TargetOf[r] = t}

(* digest_archive.emit lists and reads the day's reports of the binding.   *)
(* A due target without one is an error, an idle one a candidate.          *)
List(j) ==
  /\ JobAt(j, "list")
  /\ IF job[j].todo = {}
       THEN Become(j, [job[j] EXCEPT !.step = "emitted", !.ok = TRUE])
       ELSE LET t == Current(j) IN
            \/ Become(j, [job[j] EXCEPT !.step = "failed", !.ok = FALSE])
            \/ /\ ArchivedOf(t) # {} \/ dueFrom[t] = 0
               /\ Become(j, [job[j] EXCEPT !.step = "read", !.listed = @ \cup ArchivedOf(t)])
  /\ UNCHANGED <<archive, report, digest, opener, cyc, dueFrom, closed, announced, heldBy>>

ReadDigest(j) ==
  /\ JobAt(j, "read")
  /\ Become(j, [job[j] EXCEPT !.step = "write", !.seen = digest[Current(j)]])
  /\ UNCHANGED <<archive, report, digest, opener, cyc, dueFrom, closed, announced, heldBy>>

(* One attempt of _merge for the binding. *)
WriteDigest(j) ==
  LET t == Current(j)  seen == job[j].seen
      next == [job[j] EXCEPT !.step = "list", !.todo = @ \ {t}, !.seen = NoDigest, !.attempt = 0]
      again == [job[j] EXCEPT !.step = "read", !.seen = NoDigest, !.attempt = @ + 1]
  IN  /\ JobAt(j, "write")
      /\ \/ /\ Unchanged(t, seen)
            /\ Write(t, seen, Projected(t, job[j].listed))
            /\ Become(j, next)
         \/ /\ ~Unchanged(t, seen)
            /\ Become(j, IF again.attempt < Attempts THEN again
                           ELSE [again EXCEPT !.step = "failed", !.ok = FALSE])
            /\ UNCHANGED digest
      /\ UNCHANGED <<archive, report, opener, cyc, dueFrom, closed, announced, heldBy>>

(* The read or the write raises; a write may have been applied. *)
DigestStoreRaises(j) ==
  LET t == Current(j)  seen == job[j].seen IN
  /\ job[j].step \in {"read", "write"}
  /\ \/ UNCHANGED digest
     \/ JobAt(j, "write") /\ Unchanged(t, seen) /\ Write(t, seen, Projected(t, job[j].listed))
  /\ Become(j, [job[j] EXCEPT !.step = "failed", !.ok = FALSE])
  /\ UNCHANGED <<archive, report, opener, cyc, dueFrom, closed, announced, heldBy>>

(* notify_heartbeat of a healthy verdict that was emitted ends the         *)
(* coverage incidents of the targets one after the other; an error there   *)
(* is announced as a coverage failure.                                     *)
Confirm(j) ==
  LET Ended(T) == [t \in Targets |-> IF t \in T THEN "nobody" ELSE opener[t]] IN
  /\ JobAt(j, "emitted") /\ job[j].phase = "heartbeat" /\ job[j].verdict = "healthy"
  /\ \/ opener' = Ended(Targets) /\ Become(j, Candidates(job[j]))
     \/ /\ \E T \in SUBSET Targets : opener' = Ended(T)
        /\ Become(j, [job[j] EXCEPT !.step = "send"])
  /\ UNCHANGED <<archive, report, digest, cyc, dueFrom, closed, announced, heldBy>>

(* A healthy verdict that was not emitted becomes a coverage failure of    *)
(* every target: one message, unless all their incidents are active; it is *)
(* sent too when a marker raises.                                          *)
Reserve(j) ==
  LET Opened(T) == [t \in Targets |-> IF t \in T /\ ~Active(t) THEN j ELSE opener[t]]
      allActive == \A t \in Targets : Active(t)
  IN
  /\ JobAt(j, "failed") /\ job[j].phase = "heartbeat" /\ job[j].verdict = "healthy"
  /\ \/ allActive /\ Become(j, Candidates(job[j])) /\ UNCHANGED opener
     \/ /\ ~allActive /\ opener' = Opened(Targets)
        /\ Become(j, [job[j] EXCEPT !.step = "send"])
     \/ /\ \E T \in SUBSET Targets : opener' = Opened(T)
        /\ Become(j, [job[j] EXCEPT !.step = "send"])
  /\ UNCHANGED <<archive, report, digest, cyc, dueFrom, closed, announced, heldBy>>

(* Any other verdict is an alert of its own, whatever was emitted.         *)
Attend(j) ==
  /\ job[j].step \in {"emitted", "failed"} /\ job[j].phase = "heartbeat" /\ job[j].verdict # "healthy"
  /\ Become(j, Candidates(job[j]))
  /\ UNCHANGED <<archive, report, digest, opener, cyc, dueFrom, closed, announced, heldBy>>

(* The coverage message.  The heartbeat step notes it for the step that    *)
(* follows, before it sends; the note's failure is ignored.                *)
SendCoverage(j) ==
  /\ JobAt(j, "send")
  /\ announced' = announced \cup {j}
  /\ \/ /\ job[j].phase = "heartbeat"
        /\ \E noted \in BOOLEAN : Become(j, [Candidates(job[j]) EXCEPT !.noted = noted])
     \/ job[j].phase # "heartbeat" /\ Become(j, [job[j] EXCEPT !.step = "done"])
  /\ UNCHANGED <<archive, report, digest, opener, cyc, dueFrom, closed, heldBy>>

(* with_heartbeat_digest_binding refuses the candidates step: it prints    *)
(* its reason and fails, and no message is sent.                           *)
Refused(j) ==
  /\ JobAt(j, "list") /\ job[j].phase = "candidates" /\ job[j].todo = Targets
  /\ Become(j, [IdleJob EXCEPT !.step = "refused", !.cut = job[j].cut])
  /\ UNCHANGED <<archive, report, digest, opener, cyc, dueFrom, closed, announced, heldBy>>

(* Fault: the emitter leaves the announcement of failures to the heartbeat. *)
ConcludeSilently(j) ==
  /\ job[j].step \in {"emitted", "failed"} /\ job[j].phase = "candidates"
  /\ Become(j, [job[j] EXCEPT !.step = "done"])
  /\ UNCHANGED <<archive, report, digest, opener, cyc, dueFrom, closed, announced, heldBy>>

(* emit_unified_digest_candidates: a failure is announced, unless the file *)
(* of the run can be read and says that the heartbeat step already tried.  *)
Conclude(j) ==
  /\ job[j].phase = "candidates"
  /\ \/ JobAt(j, "emitted") /\ Become(j, [job[j] EXCEPT !.step = "done"])
     \/ JobAt(j, "failed") /\ job[j].noted /\ Become(j, [job[j] EXCEPT !.step = "done"])
     \/ JobAt(j, "failed") /\ Become(j, [job[j] EXCEPT !.step = "send"])
  /\ UNCHANGED <<archive, report, digest, opener, cyc, dueFrom, closed, announced, heldBy>>

(* publish_digest_before_read reads its candidate back and says published  *)
(* or failed; it is interrupted when its time is over.                     *)
Publish(j) ==
  /\ job[j].step \in {"emitted", "failed"} /\ job[j].phase = "publish"
  /\ \E timely \in BOOLEAN : Become(j, [job[j] EXCEPT !.step = "done", !.ok = @ /\ timely])
  /\ UNCHANGED <<archive, report, digest, opener, cyc, dueFrom, closed, announced, heldBy>>

(* A process of the job is stopped.  Either the workflow run ends with it, *)
(* or it was the heartbeat's, and the candidates step still runs: what the *)
(* heartbeat noted it may not have sent.                                   *)
Interrupted(j) ==
  /\ job[j].step \notin {"idle", "done", "refused", "stopped"}
  /\ \/ Become(j, [IdleJob EXCEPT !.step = "stopped", !.cut = TRUE])
     \/ /\ job[j].phase = "heartbeat"
        /\ \E noted \in {FALSE, JobAt(j, "send")} :
             Become(j, [Candidates(job[j]) EXCEPT !.noted = noted, !.cut = TRUE])
  /\ UNCHANGED <<archive, report, digest, opener, cyc, dueFrom, closed, announced, heldBy>>

-----------------------------------------------------------------------------
Cycle(r) ==
  \/ Report(r) \/ ReadCandidates(r) \/ WriteCandidate(r) \/ CandidateStoreRaises(r) \/ Recover(r)
  \/ Coverage(r) \/ SendFailure(r) \/ Killed(r)

Job(j) ==
  \/ StartJob(j) \/ Evaluate(j) \/ List(j) \/ ReadDigest(j) \/ WriteDigest(j) \/ DigestStoreRaises(j)
  \/ Confirm(j) \/ Reserve(j) \/ Attend(j) \/ SendCoverage(j) \/ Refused(j) \/ Conclude(j)
  \/ Publish(j) \/ Interrupted(j)

Next == Close \/ (\E t \in Targets : DueAt(t)) \/ (\E r \in Runs : Cycle(r)) \/ (\E j \in Jobs : Job(j))

Spec == Init /\ [][Next]_vars

-----------------------------------------------------------------------------
(* A run that is in the digest stays in it, and what was not ok never      *)
(* becomes ok again, whichever of the cycle, the heartbeat workflow and    *)
(* the publisher merges last, or at the same time.                         *)
CandidatesOnlyWorsen ==
  [][\A r \in Runs :
       LET old == digest[TargetOf[r]].rows[r]  new == digest'[TargetOf[r]].rows[r]
       IN  /\ old # "none" => new # "none"
           /\ old \in {"alert", "sourceAlert", "conflict"} => new # "ok"]_vars

(* A coverage message was attempted by q, or q is about to, or a process   *)
(* of q was stopped before it could.                                       *)
Answered(q) ==
  \/ q \in announced
  \/ q \in Runs /\ cyc[q].step \in {"send", "stopped"}
  \/ q \in Jobs /\ (job[q].step = "send" \/ job[q].cut)

(* A routine cycle says nothing of itself.  When it has run to its end it  *)
(* is in the digest, or it attempted the coverage message, or the incident *)
(* of its target kept that back, which was active because another run or   *)
(* job opened it to say the same: and that one said it, is about to, or    *)
(* was stopped first.  A cycle that was stopped itself promises nothing.   *)
RoutineCycleIsAccountedFor ==
  \A r \in Runs : At(r, "done") /\ cyc[r].kind \in RoutineKinds =>
    \/ digest[TargetOf[r]].rows[r] # "none"
    \/ r \in announced
    \/ heldBy[r] # "nobody" /\ Answered(heldBy[r])

(* The heartbeat calls the day healthy only when the newest report of      *)
(* every target that was due is a quiet one, written since it was due.     *)
HealthyIsEarned ==
  \A j \in Jobs : job[j].verdict = "healthy" =>
    \A t \in DueTargets : \E p \in dueFrom[t] .. job[j].basis :
      /\ TargetOf[archive[p]] = t /\ report[archive[p]] = "quiet"
      /\ \A q \in p + 1 .. job[j].basis : TargetOf[archive[q]] # t

(* A job that emitted has every run it listed in the digest, and the       *)
(* candidates step listed every archived run of its bindings.  When that   *)
(* step fails, the workflow run attempted the coverage message, unless its *)
(* heartbeat step was stopped between noting the message and sending it.   *)
(* A stopped job, a candidates step refused by its binding and a failed    *)
(* publication end without one: only the workflow run shows them.          *)
EmissionIsAccountedFor ==
  \A j \in Jobs : JobAt(j, "done") =>
    /\ job[j].ok => \A r \in job[j].listed : digest[TargetOf[r]].rows[r] # "none"
    /\ job[j].ok /\ job[j].phase = "candidates" => Bound(Archived) \subseteq job[j].listed
    /\ ~job[j].ok /\ job[j].phase = "candidates" =>
         j \in announced \/ (job[j].noted /\ job[j].cut)
=============================================================================
