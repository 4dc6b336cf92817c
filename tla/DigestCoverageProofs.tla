------------------------ MODULE DigestCoverageProofs ------------------------
(***************************************************************************)
(* What becomes of the day's cycles in the digest, and what the heartbeat  *)
(* says of the day, for any runs, targets, kinds, jobs and bounds.         *)
(***************************************************************************)
EXTENDS DigestCoverage, SequenceTheorems, TLAPS

USE TargetsAssumption, KindsAssumption, LimitsAssumption

(* A copy of a candidate object d that was read before: while its          *)
(* generation is the object's, so are its rows.                            *)
Prior(seen, d) == seen.version <= d.version /\ (seen.version = d.version => seen = d)

(* The row of r in the digests D is there.                                 *)
Covered(r, D) == D[TargetOf[r]].rows[r] # "none"

(* The runs whose failure was announced, or held back by an incident.      *)
Excused == announced \cup {r \in Runs : heldBy[r] # "nobody"}

(* What a cycle c of r has done, from the digests D and the runs A excused.*)
CycleFits(r, c, D, A) ==
  /\ c.step \in {"read", "write"} => c.kind # "misbound"
  /\ c.step = "write" => Prior(c.seen, D[TargetOf[r]])
  /\ c.step = "recover" => Covered(r, D)
  /\ c.step = "done" /\ c.kind \in RoutineKinds => Covered(r, D) \/ r \in A

(* What job j has projected and said when it is at x, from the digests D,  *)
(* the reports B of every binding and those A who attempted a message.     *)
NextBinding(x) == CHOOSE t \in x.todo : TRUE
JobFits(j, x, D, B, A) ==
  /\ x.step \in {"read", "write"} => x.todo # {} /\ B[NextBinding(x)] \subseteq x.listed
  /\ x.step = "write" => Prior(x.seen, D[NextBinding(x)])
  /\ \A r \in x.listed : TargetOf[r] \notin x.todo => Covered(r, D)
  /\ x.phase = "candidates" => \A t \in Targets \ x.todo : B[t] \subseteq x.listed
  /\ x.ok => x.todo = {} /\ x.step \in {"emitted", "send", "done"}
  /\ x.step = "emitted" => x.ok
  /\ x.noted => j \in A \/ x.cut
  /\ x.step = "done" /\ x.phase = "candidates" /\ ~x.ok => j \in A \/ (x.noted /\ x.cut)

(* A healthy verdict about the archive a, of the classes rep.              *)
Earned(x, a, rep, due) ==
  x.verdict = "healthy" =>
    \A t \in {u \in Targets : due[u] # 0} : \E p \in due[t] .. x.basis :
      /\ TargetOf[a[p]] = t /\ rep[a[p]] = "quiet"
      /\ \A q \in p + 1 .. x.basis : TargetOf[a[q]] # t

(* The reports of every binding.                                           *)
Bindings == [t \in Targets |-> ArchivedOf(t)]

(* No job begins before the day is over, and none has done anything before *)
(* it begins.                                                              *)
Idles ==
  /\ \A j \in Jobs : job[j].step = "idle" => job[j] = IdleJob
  /\ ~closed => \A j \in Jobs : job[j].step = "idle"

CyclesFit == \A r \in Runs : CycleFits(r, cyc[r], digest, Excused)
JobsFit ==
  \A j \in Jobs : /\ JobFits(j, job[j], digest, Bindings, announced)
                  /\ Earned(job[j], archive, report, dueFrom)

(* Whoever opened an active incident, or one that kept a message back, has *)
(* said it, is about to, or was stopped first.                             *)
OpenersAnswer ==
  /\ \A t \in Targets : opener[t] # "nobody" => Answered(opener[t])
  /\ \A r \in Runs : heldBy[r] # "nobody" => Answered(heldBy[r])

Inv == TypeOK /\ Idles /\ CyclesFit /\ JobsFit /\ OpenersAnswer

LEMMA PartsOfInv == Inv => RoutineCycleIsAccountedFor /\ HealthyIsEarned /\ EmissionIsAccountedFor
<1> SUFFICES ASSUME Inv
             PROVE  RoutineCycleIsAccountedFor /\ HealthyIsEarned /\ EmissionIsAccountedFor
  OBVIOUS
<1>1. RoutineCycleIsAccountedFor
  BY DEF Inv, CyclesFit, CycleFits, OpenersAnswer, Excused, Covered,
         RoutineCycleIsAccountedFor, At
<1>2. HealthyIsEarned
  BY DEF Inv, JobsFit, Earned, HealthyIsEarned, DueTargets
<1>3. ASSUME NEW j \in Jobs, JobAt(j, "done"), job[j].ok, job[j].phase = "candidates"
      PROVE  Bound(Archived) \subseteq job[j].listed
  <2>1. /\ job[j].todo = {}
        /\ \A t \in Targets \ job[j].todo : Bindings[t] \subseteq job[j].listed
    BY <1>3 DEF Inv, JobsFit, JobFits
  <2>2. ASSUME NEW r \in Bound(Archived) PROVE r \in job[j].listed
    <3>1. r \in Runs
      BY LenProperties DEF Inv, TypeOK, Bound, Archived
    <3>2. r \in Bindings[TargetOf[r]]
      BY <3>1 DEF Bindings, ArchivedOf
    <3> QED BY <2>1, <3>1, <3>2
  <2> QED BY <2>2
<1>4. EmissionIsAccountedFor
  BY <1>3 DEF Inv, JobsFit, JobFits, Covered, EmissionIsAccountedFor, JobAt
<1> QED BY <1>1, <1>2, <1>4

-----------------------------------------------------------------------------
(* Records *)

LEMMA NothingType ==
  NoRows \in [Runs -> RowStates] /\ NoDigest \in Digests /\ IdleJob \in JobRecords
<1>1. NoRows \in [Runs -> RowStates]
  BY DEF NoRows, RowStates
<1>2. NoDigest \in Digests
  BY <1>1 DEF NoDigest, Digests
<1> QED BY <1>1, <1>2 DEF IdleJob, JobRecords, JobSteps, Phases, Verdicts

(* One field of a cycle or of a job set: the others keep their values.     *)
LEMMA CycleField ==
  ASSUME NEW x \in Cycles
  PROVE  /\ \A v \in CycleSteps : LET y == [x EXCEPT !.step = v] IN
              /\ y \in Cycles /\ y.step = v /\ y.kind = x.kind /\ y.seen = x.seen
              /\ y.attempt = x.attempt
         /\ \A v \in Kinds : LET y == [x EXCEPT !.kind = v] IN
              /\ y \in Cycles /\ y.step = x.step /\ y.kind = v /\ y.seen = x.seen
              /\ y.attempt = x.attempt
         /\ \A v \in Digests : LET y == [x EXCEPT !.seen = v] IN
              /\ y \in Cycles /\ y.step = x.step /\ y.kind = x.kind /\ y.seen = v
              /\ y.attempt = x.attempt
         /\ \A v \in Nat : LET y == [x EXCEPT !.attempt = v] IN
              /\ y \in Cycles /\ y.step = x.step /\ y.kind = x.kind /\ y.seen = x.seen
              /\ y.attempt = v
<1>1. \A v \in CycleSteps : LET y == [x EXCEPT !.step = v] IN
      /\ y \in Cycles /\ y.step = v /\ y.kind = x.kind /\ y.seen = x.seen
      /\ y.attempt = x.attempt
  BY DEF Cycles
<1>2. \A v \in Kinds : LET y == [x EXCEPT !.kind = v] IN
      /\ y \in Cycles /\ y.step = x.step /\ y.kind = v /\ y.seen = x.seen
      /\ y.attempt = x.attempt
  BY DEF Cycles
<1>3. \A v \in Digests : LET y == [x EXCEPT !.seen = v] IN
      /\ y \in Cycles /\ y.step = x.step /\ y.kind = x.kind /\ y.seen = v
      /\ y.attempt = x.attempt
  BY DEF Cycles
<1>4. \A v \in Nat : LET y == [x EXCEPT !.attempt = v] IN
      /\ y \in Cycles /\ y.step = x.step /\ y.kind = x.kind /\ y.seen = x.seen
      /\ y.attempt = v
  BY DEF Cycles
<1> QED BY <1>1, <1>2, <1>3, <1>4

LEMMA JobField ==
  ASSUME NEW x \in JobRecords
  PROVE  /\ \A v \in JobSteps : LET y == [x EXCEPT !.step = v] IN
              /\ y \in JobRecords /\ y.step = v /\ y.phase = x.phase
              /\ y.verdict = x.verdict /\ y.basis = x.basis /\ y.todo = x.todo
              /\ y.listed = x.listed /\ y.seen = x.seen /\ y.attempt = x.attempt
              /\ y.noted = x.noted /\ y.ok = x.ok /\ y.cut = x.cut
         /\ \A v \in Phases : LET y == [x EXCEPT !.phase = v] IN
              /\ y \in JobRecords /\ y.step = x.step /\ y.phase = v
              /\ y.verdict = x.verdict /\ y.basis = x.basis /\ y.todo = x.todo
              /\ y.listed = x.listed /\ y.seen = x.seen /\ y.attempt = x.attempt
              /\ y.noted = x.noted /\ y.ok = x.ok /\ y.cut = x.cut
         /\ \A v \in Verdicts : LET y == [x EXCEPT !.verdict = v] IN
              /\ y \in JobRecords /\ y.step = x.step /\ y.phase = x.phase
              /\ y.verdict = v /\ y.basis = x.basis /\ y.todo = x.todo
              /\ y.listed = x.listed /\ y.seen = x.seen /\ y.attempt = x.attempt
              /\ y.noted = x.noted /\ y.ok = x.ok /\ y.cut = x.cut
         /\ \A v \in Nat : LET y == [x EXCEPT !.basis = v] IN
              /\ y \in JobRecords /\ y.step = x.step /\ y.phase = x.phase
              /\ y.verdict = x.verdict /\ y.basis = v /\ y.todo = x.todo
              /\ y.listed = x.listed /\ y.seen = x.seen /\ y.attempt = x.attempt
              /\ y.noted = x.noted /\ y.ok = x.ok /\ y.cut = x.cut
         /\ \A v \in SUBSET Targets : LET y == [x EXCEPT !.todo = v] IN
              /\ y \in JobRecords /\ y.step = x.step /\ y.phase = x.phase
              /\ y.verdict = x.verdict /\ y.basis = x.basis /\ y.todo = v
              /\ y.listed = x.listed /\ y.seen = x.seen /\ y.attempt = x.attempt
              /\ y.noted = x.noted /\ y.ok = x.ok /\ y.cut = x.cut
         /\ \A v \in SUBSET Runs : LET y == [x EXCEPT !.listed = v] IN
              /\ y \in JobRecords /\ y.step = x.step /\ y.phase = x.phase
              /\ y.verdict = x.verdict /\ y.basis = x.basis /\ y.todo = x.todo
              /\ y.listed = v /\ y.seen = x.seen /\ y.attempt = x.attempt
              /\ y.noted = x.noted /\ y.ok = x.ok /\ y.cut = x.cut
         /\ \A v \in Digests : LET y == [x EXCEPT !.seen = v] IN
              /\ y \in JobRecords /\ y.step = x.step /\ y.phase = x.phase
              /\ y.verdict = x.verdict /\ y.basis = x.basis /\ y.todo = x.todo
              /\ y.listed = x.listed /\ y.seen = v /\ y.attempt = x.attempt
              /\ y.noted = x.noted /\ y.ok = x.ok /\ y.cut = x.cut
         /\ \A v \in Nat : LET y == [x EXCEPT !.attempt = v] IN
              /\ y \in JobRecords /\ y.step = x.step /\ y.phase = x.phase
              /\ y.verdict = x.verdict /\ y.basis = x.basis /\ y.todo = x.todo
              /\ y.listed = x.listed /\ y.seen = x.seen /\ y.attempt = v
              /\ y.noted = x.noted /\ y.ok = x.ok /\ y.cut = x.cut
         /\ \A v \in BOOLEAN : LET y == [x EXCEPT !.noted = v] IN
              /\ y \in JobRecords /\ y.step = x.step /\ y.phase = x.phase
              /\ y.verdict = x.verdict /\ y.basis = x.basis /\ y.todo = x.todo
              /\ y.listed = x.listed /\ y.seen = x.seen /\ y.attempt = x.attempt
              /\ y.noted = v /\ y.ok = x.ok /\ y.cut = x.cut
         /\ \A v \in BOOLEAN : LET y == [x EXCEPT !.ok = v] IN
              /\ y \in JobRecords /\ y.step = x.step /\ y.phase = x.phase
              /\ y.verdict = x.verdict /\ y.basis = x.basis /\ y.todo = x.todo
              /\ y.listed = x.listed /\ y.seen = x.seen /\ y.attempt = x.attempt
              /\ y.noted = x.noted /\ y.ok = v /\ y.cut = x.cut
         /\ \A v \in BOOLEAN : LET y == [x EXCEPT !.cut = v] IN
              /\ y \in JobRecords /\ y.step = x.step /\ y.phase = x.phase
              /\ y.verdict = x.verdict /\ y.basis = x.basis /\ y.todo = x.todo
              /\ y.listed = x.listed /\ y.seen = x.seen /\ y.attempt = x.attempt
              /\ y.noted = x.noted /\ y.ok = x.ok /\ y.cut = v
<1>1. \A v \in JobSteps : LET y == [x EXCEPT !.step = v] IN
      /\ y \in JobRecords /\ y.step = v /\ y.phase = x.phase
      /\ y.verdict = x.verdict /\ y.basis = x.basis /\ y.todo = x.todo
      /\ y.listed = x.listed /\ y.seen = x.seen /\ y.attempt = x.attempt
      /\ y.noted = x.noted /\ y.ok = x.ok /\ y.cut = x.cut
  BY DEF JobRecords
<1>2. \A v \in Phases : LET y == [x EXCEPT !.phase = v] IN
      /\ y \in JobRecords /\ y.step = x.step /\ y.phase = v
      /\ y.verdict = x.verdict /\ y.basis = x.basis /\ y.todo = x.todo
      /\ y.listed = x.listed /\ y.seen = x.seen /\ y.attempt = x.attempt
      /\ y.noted = x.noted /\ y.ok = x.ok /\ y.cut = x.cut
  BY DEF JobRecords
<1>3. \A v \in Verdicts : LET y == [x EXCEPT !.verdict = v] IN
      /\ y \in JobRecords /\ y.step = x.step /\ y.phase = x.phase
      /\ y.verdict = v /\ y.basis = x.basis /\ y.todo = x.todo
      /\ y.listed = x.listed /\ y.seen = x.seen /\ y.attempt = x.attempt
      /\ y.noted = x.noted /\ y.ok = x.ok /\ y.cut = x.cut
  BY DEF JobRecords
<1>4. \A v \in Nat : LET y == [x EXCEPT !.basis = v] IN
      /\ y \in JobRecords /\ y.step = x.step /\ y.phase = x.phase
      /\ y.verdict = x.verdict /\ y.basis = v /\ y.todo = x.todo
      /\ y.listed = x.listed /\ y.seen = x.seen /\ y.attempt = x.attempt
      /\ y.noted = x.noted /\ y.ok = x.ok /\ y.cut = x.cut
  BY DEF JobRecords
<1>5. \A v \in SUBSET Targets : LET y == [x EXCEPT !.todo = v] IN
      /\ y \in JobRecords /\ y.step = x.step /\ y.phase = x.phase
      /\ y.verdict = x.verdict /\ y.basis = x.basis /\ y.todo = v
      /\ y.listed = x.listed /\ y.seen = x.seen /\ y.attempt = x.attempt
      /\ y.noted = x.noted /\ y.ok = x.ok /\ y.cut = x.cut
  BY DEF JobRecords
<1>6. \A v \in SUBSET Runs : LET y == [x EXCEPT !.listed = v] IN
      /\ y \in JobRecords /\ y.step = x.step /\ y.phase = x.phase
      /\ y.verdict = x.verdict /\ y.basis = x.basis /\ y.todo = x.todo
      /\ y.listed = v /\ y.seen = x.seen /\ y.attempt = x.attempt
      /\ y.noted = x.noted /\ y.ok = x.ok /\ y.cut = x.cut
  BY DEF JobRecords
<1>7. \A v \in Digests : LET y == [x EXCEPT !.seen = v] IN
      /\ y \in JobRecords /\ y.step = x.step /\ y.phase = x.phase
      /\ y.verdict = x.verdict /\ y.basis = x.basis /\ y.todo = x.todo
      /\ y.listed = x.listed /\ y.seen = v /\ y.attempt = x.attempt
      /\ y.noted = x.noted /\ y.ok = x.ok /\ y.cut = x.cut
  BY DEF JobRecords
<1>8. \A v \in Nat : LET y == [x EXCEPT !.attempt = v] IN
      /\ y \in JobRecords /\ y.step = x.step /\ y.phase = x.phase
      /\ y.verdict = x.verdict /\ y.basis = x.basis /\ y.todo = x.todo
      /\ y.listed = x.listed /\ y.seen = x.seen /\ y.attempt = v
      /\ y.noted = x.noted /\ y.ok = x.ok /\ y.cut = x.cut
  BY DEF JobRecords
<1>9. \A v \in BOOLEAN : LET y == [x EXCEPT !.noted = v] IN
      /\ y \in JobRecords /\ y.step = x.step /\ y.phase = x.phase
      /\ y.verdict = x.verdict /\ y.basis = x.basis /\ y.todo = x.todo
      /\ y.listed = x.listed /\ y.seen = x.seen /\ y.attempt = x.attempt
      /\ y.noted = v /\ y.ok = x.ok /\ y.cut = x.cut
  BY DEF JobRecords
<1>10. \A v \in BOOLEAN : LET y == [x EXCEPT !.ok = v] IN
      /\ y \in JobRecords /\ y.step = x.step /\ y.phase = x.phase
      /\ y.verdict = x.verdict /\ y.basis = x.basis /\ y.todo = x.todo
      /\ y.listed = x.listed /\ y.seen = x.seen /\ y.attempt = x.attempt
      /\ y.noted = x.noted /\ y.ok = v /\ y.cut = x.cut
  BY DEF JobRecords
<1>11. \A v \in BOOLEAN : LET y == [x EXCEPT !.cut = v] IN
      /\ y \in JobRecords /\ y.step = x.step /\ y.phase = x.phase
      /\ y.verdict = x.verdict /\ y.basis = x.basis /\ y.todo = x.todo
      /\ y.listed = x.listed /\ y.seen = x.seen /\ y.attempt = x.attempt
      /\ y.noted = x.noted /\ y.ok = x.ok /\ y.cut = v
  BY DEF JobRecords
<1> QED BY <1>1, <1>2, <1>3, <1>4, <1>5, <1>6, <1>7, <1>8, <1>9, <1>10, <1>11

(* A new emission of the job x, for the bindings T.                        *)
LEMMA EmitFields ==
  ASSUME NEW x \in JobRecords, NEW T \in SUBSET Targets
  PROVE  LET y == Emit(x, T) IN
           /\ y \in JobRecords /\ y.step = "list" /\ y.todo = T /\ y.listed = {}
           /\ y.phase = x.phase /\ y.verdict = x.verdict /\ y.basis = x.basis
           /\ y.noted = x.noted /\ y.ok = x.ok /\ y.cut = x.cut
<1> DEFINE y1 == [x EXCEPT !.step = "list"]
           y2 == [y1 EXCEPT !.todo = T]
           y3 == [y2 EXCEPT !.listed = {}]
           y4 == [y3 EXCEPT !.seen = NoDigest]
           y5 == [y4 EXCEPT !.attempt = 0]
<1>1. Emit(x, T) = y5
  BY DEF Emit
<1>2. /\ y1 \in JobRecords /\ y1.step = "list"
      /\ y1.phase = x.phase /\ y1.verdict = x.verdict /\ y1.basis = x.basis
      /\ y1.noted = x.noted /\ y1.ok = x.ok /\ y1.cut = x.cut
  <2>1. "list" \in JobSteps
    BY DEF JobSteps
  <2> QED BY <2>1, JobField
<1> HIDE DEF y1
<1>3. /\ y2 \in JobRecords /\ y2.step = "list" /\ y2.todo = T
      /\ y2.phase = x.phase /\ y2.verdict = x.verdict /\ y2.basis = x.basis
      /\ y2.noted = x.noted /\ y2.ok = x.ok /\ y2.cut = x.cut
  BY <1>2, JobField
<1> HIDE DEF y2
<1>4. /\ y3 \in JobRecords /\ y3.step = "list" /\ y3.todo = T /\ y3.listed = {}
      /\ y3.phase = x.phase /\ y3.verdict = x.verdict /\ y3.basis = x.basis
      /\ y3.noted = x.noted /\ y3.ok = x.ok /\ y3.cut = x.cut
  <2>1. {} \in SUBSET Runs
    OBVIOUS
  <2> QED BY <1>3, <2>1, JobField
<1> HIDE DEF y3
<1>5. /\ y4 \in JobRecords /\ y4.step = "list" /\ y4.todo = T /\ y4.listed = {}
      /\ y4.phase = x.phase /\ y4.verdict = x.verdict /\ y4.basis = x.basis
      /\ y4.noted = x.noted /\ y4.ok = x.ok /\ y4.cut = x.cut
  BY <1>4, NothingType, JobField
<1> HIDE DEF y4
<1>6. /\ y5 \in JobRecords /\ y5.step = "list" /\ y5.todo = T /\ y5.listed = {}
      /\ y5.phase = x.phase /\ y5.verdict = x.verdict /\ y5.basis = x.basis
      /\ y5.noted = x.noted /\ y5.ok = x.ok /\ y5.cut = x.cut
  BY <1>5, JobField
<1> HIDE DEF y5
<1> QED BY <1>1, <1>6

(* The step that follows the heartbeat step of the workflow.               *)
LEMMA CandidatesFields ==
  ASSUME NEW x \in JobRecords
  PROVE  LET y == Candidates(x) IN
           /\ y \in JobRecords /\ y.step = "list" /\ y.todo = Targets /\ y.listed = {}
           /\ y.phase = "candidates" /\ y.verdict = "none" /\ y.ok = FALSE
           /\ y.noted = x.noted /\ y.cut = x.cut
<1> DEFINE y0 == Emit(x, Targets)
           y1 == [y0 EXCEPT !.phase = "candidates"]
           y2 == [y1 EXCEPT !.verdict = "none"]
           y3 == [y2 EXCEPT !.basis = 0]
           y4 == [y3 EXCEPT !.ok = FALSE]
<1>1. Candidates(x) = y4
  BY DEF Candidates
<1>2. "candidates" \in Phases /\ "none" \in Verdicts
  BY DEF Phases, Verdicts
<1>3. /\ y0 \in JobRecords /\ y0.step = "list" /\ y0.todo = Targets /\ y0.listed = {}
      /\ y0.noted = x.noted /\ y0.cut = x.cut
  BY EmitFields
<1> HIDE DEF y0
<1>4. /\ y1 \in JobRecords /\ y1.step = "list" /\ y1.todo = Targets /\ y1.listed = {}
      /\ y1.noted = x.noted /\ y1.cut = x.cut /\ y1.phase = "candidates"
  BY <1>2, <1>3, JobField
<1> HIDE DEF y1
<1>5. /\ y2 \in JobRecords /\ y2.step = "list" /\ y2.todo = Targets /\ y2.listed = {}
      /\ y2.noted = x.noted /\ y2.cut = x.cut /\ y2.phase = "candidates" /\ y2.verdict = "none"
  BY <1>2, <1>4, JobField
<1> HIDE DEF y2
<1>6. /\ y3 \in JobRecords /\ y3.step = "list" /\ y3.todo = Targets /\ y3.listed = {}
      /\ y3.noted = x.noted /\ y3.cut = x.cut /\ y3.phase = "candidates" /\ y3.verdict = "none"
  BY <1>5, JobField
<1> HIDE DEF y3
<1>7. /\ y4 \in JobRecords /\ y4.step = "list" /\ y4.todo = Targets /\ y4.listed = {}
      /\ y4.noted = x.noted /\ y4.cut = x.cut /\ y4.phase = "candidates" /\ y4.verdict = "none" /\ y4.ok = FALSE
  BY <1>6, JobField
<1> HIDE DEF y4
<1> QED BY <1>1, <1>7

-----------------------------------------------------------------------------
(* The digest only goes forward                                            *)

Worse(old, new) ==
  /\ old # "none" => new # "none"
  /\ old \in {"alert", "sourceAlert", "conflict"} => new # "ok"

Forward(D, E) ==
  \A t \in Targets :
    /\ D[t].version <= E[t].version /\ (E[t].version = D[t].version => E[t] = D[t])
    /\ \A r \in Runs : Worse(D[t].rows[r], E[t].rows[r])

LEMMA MergedWorsens ==
  ASSUME NEW old \in RowStates, NEW row \in RowStates
  PROVE  Merged(old, row) \in RowStates /\ Worse(old, Merged(old, row))
BY DEF Merged, RowStates, Worse

LEMMA StandsStill ==
  ASSUME NEW D \in [Targets -> Digests]
  PROVE  Forward(D, D)
BY DEF Forward, Worse, Digests

(* The compare-and-set: what was read is what is there, so what is written *)
(* is the merge of what is there.                                          *)
LEMMA WriteForward ==
  ASSUME digest \in [Targets -> Digests], NEW t \in Targets, NEW seen \in Digests,
         Prior(seen, digest[t]), Unchanged(t, seen), NEW rows \in [Runs -> RowStates],
         Write(t, seen, rows)
  PROVE  /\ digest' \in [Targets -> Digests]
         /\ Forward(digest, digest')
         /\ \A r \in Runs : rows[r] # "none" => digest'[t].rows[r] # "none"
<1> DEFINE new == [version |-> digest[t].version + 1,
                   rows |-> [r \in Runs |-> Merged(seen.rows[r], rows[r])]]
<1>1. digest' = [digest EXCEPT ![t] = new]
  BY DEF Write
<1>2. seen = digest[t] /\ seen.rows \in [Runs -> RowStates] /\ digest[t].version \in Nat
  BY DEF Prior, Unchanged, Digests
<1>3. \A r \in Runs : /\ Merged(seen.rows[r], rows[r]) \in RowStates
                      /\ Worse(seen.rows[r], Merged(seen.rows[r], rows[r]))
  BY <1>2, MergedWorsens
<1>4. new \in Digests /\ new.version = digest[t].version + 1
  BY <1>2, <1>3 DEF Digests
<1>5. \A r \in Runs : new.rows[r] = Merged(seen.rows[r], rows[r])
  OBVIOUS
<1> HIDE DEF new
<1>6. /\ digest' \in [Targets -> Digests] /\ digest'[t] = new
      /\ \A u \in Targets \ {t} : digest'[u] = digest[u]
  BY <1>1, <1>4
<1>7. ASSUME NEW u \in Targets
      PROVE  /\ digest[u].version <= digest'[u].version
             /\ digest'[u].version = digest[u].version => digest'[u] = digest[u]
             /\ \A r \in Runs : Worse(digest[u].rows[r], digest'[u].rows[r])
  <2>1. CASE u = t
    BY <1>2, <1>3, <1>4, <1>5, <1>6, <2>1
  <2>2. CASE u # t
    BY <1>6, <2>2 DEF Digests, Worse
  <2> QED BY <2>1, <2>2
<1>8. ASSUME NEW r \in Runs, rows[r] # "none" PROVE digest'[t].rows[r] # "none"
  BY <1>5, <1>6, <1>8 DEF Merged
<1> QED BY <1>6, <1>7, <1>8 DEF Forward

LEMMA PriorStands ==
  ASSUME NEW D \in [Targets -> Digests], NEW E \in [Targets -> Digests], Forward(D, E),
         NEW t \in Targets, NEW seen \in Digests, Prior(seen, D[t])
  PROVE  Prior(seen, E[t])
<1>1. seen.version \in Nat /\ D[t].version \in Nat /\ E[t].version \in Nat
  BY DEF Digests
<1>2. D[t].version <= E[t].version /\ (E[t].version = D[t].version => E[t] = D[t])
  BY DEF Forward
<1>3. seen.version <= D[t].version /\ (seen.version = D[t].version => seen = D[t])
  BY DEF Prior
<1>4. seen.version <= E[t].version
  BY <1>1, <1>2, <1>3
<1>5. ASSUME seen.version = E[t].version PROVE seen = E[t]
  <2>1. seen.version = D[t].version /\ E[t].version = D[t].version
    BY <1>1, <1>2, <1>3, <1>5
  <2> QED BY <1>2, <1>3, <2>1
<1> QED BY <1>4, <1>5 DEF Prior

LEMMA CoveredStands ==
  ASSUME NEW D, NEW E, Forward(D, E), NEW r \in Runs, Covered(r, D)
  PROVE  Covered(r, E)
BY DEF Covered, Forward, Worse

LEMMA CycleStands ==
  ASSUME NEW D \in [Targets -> Digests], NEW E \in [Targets -> Digests], Forward(D, E),
         NEW A, NEW B, A \subseteq B, NEW r \in Runs, NEW c \in Cycles, CycleFits(r, c, D, A)
  PROVE  CycleFits(r, c, E, B)
<1>1. c.seen \in Digests /\ TargetOf[r] \in Targets
  BY DEF Cycles
<1>2. Prior(c.seen, D[TargetOf[r]]) => Prior(c.seen, E[TargetOf[r]])
  BY <1>1, PriorStands
<1>3. Covered(r, D) => Covered(r, E)
  BY CoveredStands
<1> QED BY <1>2, <1>3 DEF CycleFits

LEMMA JobStands ==
  ASSUME NEW D \in [Targets -> Digests], NEW E \in [Targets -> Digests], Forward(D, E),
         NEW B, NEW A1, NEW A2, A1 \subseteq A2,
         NEW j, NEW x \in JobRecords, JobFits(j, x, D, B, A1)
  PROVE  JobFits(j, x, E, B, A2)
<1>1. x.seen \in Digests /\ x.todo \subseteq Targets /\ x.listed \subseteq Runs
  BY DEF JobRecords
<1>2. x.step = "write" => NextBinding(x) \in Targets
  BY <1>1 DEF JobFits, NextBinding
<1>3. x.step = "write" => Prior(x.seen, E[NextBinding(x)])
  BY <1>1, <1>2, PriorStands DEF JobFits
<1>4. \A r \in x.listed : Covered(r, D) => Covered(r, E)
  BY <1>1, CoveredStands
<1> QED BY <1>3, <1>4 DEF JobFits

-----------------------------------------------------------------------------
(* One cycle or one job moves                                              *)

(* Who answers for an incident does so from then on; q is the one that     *)
(* moves.                                                                  *)
LEMMA AnsweredStays ==
  ASSUME announced \subseteq announced',
         \A q \in Runs : \/ cyc'[q].step = cyc[q].step
                         \/ cyc[q].step \notin {"send", "stopped"}
                         \/ cyc[q].step = "send" /\ (q \in announced' \/ cyc'[q].step = "stopped"),
         \A k \in Jobs : /\ job[k].cut => job'[k].cut
                         /\ job[k].step = "send" =>
                              job'[k].step = "send" \/ k \in announced' \/ job'[k].cut,
         NEW q, Answered(q)
  PROVE  Answered(q)'
BY DEF Answered

(* The incidents in a step that may open some for q, who then sends, and   *)
(* close others.                                                           *)
Opens(q, sends) ==
  \A t \in Targets : opener'[t] \in {"nobody", opener[t]} \/ (opener'[t] = q /\ sends)

LEMMA OpenersStay ==
  ASSUME OpenersAnswer, NEW q, NEW sends, Opens(q, sends), sends => Answered(q)',
         \A r \in Runs : heldBy'[r] = heldBy[r] \/ heldBy'[r] \in {opener[t] : t \in Targets},
         \A p : Answered(p) => Answered(p)'
  PROVE  OpenersAnswer'
<1>1. ASSUME NEW t \in Targets, NEW p, p = opener'[t], p # "nobody" PROVE Answered(p)'
  <2>1. CASE p = opener[t]
    <3>1. Answered(p)
      BY <1>1, <2>1 DEF OpenersAnswer
    <3> QED BY <3>1
  <2>2. CASE p = q /\ sends
    <3>1. Answered(q)'
      BY <2>2
    <3> QED BY <2>2, <3>1 DEF Answered
  <2> QED BY <1>1, <2>1, <2>2 DEF Opens
<1>2. ASSUME NEW r \in Runs, NEW p, p = heldBy'[r], p # "nobody" PROVE Answered(p)'
  <2>1. p = heldBy[r] \/ \E t \in Targets : p = opener[t]
    BY <1>2
  <2>2. Answered(p)
    BY <1>2, <2>1 DEF OpenersAnswer
  <2> QED BY <2>2
<1> QED BY <1>1, <1>2 DEF OpenersAnswer, Answered

(* A step of r's cycle that keeps its kind, when the store and the         *)
(* messages have only gained.                                              *)
LEMMA CycleMoves ==
  ASSUME Inv, NEW r \in Runs, NEW c \in Cycles, cyc' = [cyc EXCEPT ![r] = c], c.kind = cyc[r].kind,
         digest' \in [Targets -> Digests], Forward(digest, digest'),
         announced \subseteq announced', announced' \in SUBSET Actors,
         opener' \in [Targets -> Actors \cup {"nobody"}], Opens(r, c.step = "send"),
         heldBy' = heldBy \/ \E t \in Targets : opener[t] # "nobody" /\ heldBy' = [heldBy EXCEPT ![r] = opener[t]],
         cyc[r].step # "stopped", cyc[r].step = "send" => r \in announced' \/ c.step = "stopped",
         CycleFits(r, c, digest', Excused'),
         UNCHANGED <<archive, report, job, dueFrom, closed>>
  PROVE  Inv'
<1>1. /\ cyc' \in [Runs -> Cycles] /\ cyc'[r] = c /\ \A q \in Runs \ {r} : cyc'[q] = cyc[q]
      /\ cyc \in [Runs -> Cycles] /\ digest \in [Targets -> Digests]
      /\ job \in [Jobs -> JobRecords]
  BY DEF Inv, TypeOK
<1>0. /\ heldBy' \in [Runs -> Actors \cup {"nobody"}]
      /\ \A q \in Runs : \/ heldBy'[q] = heldBy[q]
                         \/ heldBy'[q] # "nobody" /\ heldBy'[q] \in {opener[t] : t \in Targets}
  BY DEF Inv, TypeOK
<1>2. TypeOK'
  BY <1>0, <1>1 DEF Inv, TypeOK
<1>3. Idles'
  BY DEF Inv, Idles
<1>4. PICK A, B : A = Excused /\ B = Excused'
  OBVIOUS
<1>5. PICK E : E = digest'
  OBVIOUS
<1>14. A \subseteq B
  BY <1>0, <1>4 DEF Excused
<1>6. ASSUME NEW q \in Runs PROVE CycleFits(q, cyc'[q], E, B)
  <2>1. CASE q = r
    BY <1>1, <1>4, <1>5, <2>1
  <2>2. CASE q # r
    <3>1. CycleFits(q, cyc[q], digest, A)
      BY <1>4 DEF Inv, CyclesFit
    <3>2. A \subseteq B /\ cyc[q] \in Cycles /\ E \in [Targets -> Digests] /\ Forward(digest, E)
      BY <1>1, <1>5, <1>14
    <3>3. CycleFits(q, cyc[q], E, B)
      BY <1>1, <3>1, <3>2, CycleStands
    <3> QED BY <1>1, <2>2, <3>3
  <2> QED BY <2>1, <2>2
<1>7. CyclesFit'
  BY <1>4, <1>5, <1>6 DEF CyclesFit
<1>8. \A q \in Runs : cyc'[q].kind = cyc[q].kind
  BY <1>1
<1>9. Archived' = Archived /\ Archived \subseteq Runs
  BY LenProperties DEF Archived, Inv, TypeOK
<1>10. Bindings' = Bindings
  BY <1>8, <1>9 DEF Bindings, ArchivedOf, Bound
<1>11. PICK C, S, T : C = Bindings /\ S = announced /\ T = announced'
  OBVIOUS
<1>12. \A j \in Jobs : JobFits(j, job[j], E, C, T)
  <2>1. \A j \in Jobs : JobFits(j, job[j], digest, C, S) /\ job[j] \in JobRecords
    BY <1>1, <1>11 DEF Inv, JobsFit
  <2> QED BY <1>1, <1>5, <1>11, <2>1, JobStands
<1>13. JobsFit'
  BY <1>5, <1>10, <1>11, <1>12 DEF JobsFit, Inv, Earned
<1>15. OpenersAnswer'
  <2>1. \A q \in Runs : \/ cyc'[q].step = cyc[q].step
                        \/ cyc[q].step \notin {"send", "stopped"}
                        \/ cyc[q].step = "send" /\ (q \in announced' \/ cyc'[q].step = "stopped")
    BY <1>1
  <2>2. \A p : Answered(p) => Answered(p)'
    BY <2>1, AnsweredStays
  <2>3. c.step = "send" => Answered(r)'
    BY <1>1 DEF Answered
  <2> QED BY <1>0, <2>2, <2>3, OpenersStay DEF Inv
<1> QED BY <1>2, <1>3, <1>7, <1>13, <1>15 DEF Inv

(* A step of job j.                                                        *)
LEMMA JobMoves ==
  ASSUME Inv, NEW j \in Jobs, NEW x \in JobRecords, Become(j, x), closed, x.step # "idle",
         digest' \in [Targets -> Digests], Forward(digest, digest'),
         announced' \in {announced, announced \cup {j}},
         opener' \in [Targets -> Actors \cup {"nobody"}], Opens(j, x.step = "send"),
         job[j].cut => x.cut, job[j].step = "send" => j \in announced' \/ x.cut,
         JobFits(j, x, digest', Bindings, announced'), Earned(x, archive, report, dueFrom),
         UNCHANGED <<archive, report, cyc, dueFrom, closed, heldBy>>
  PROVE  Inv'
<1>1. /\ job' \in [Jobs -> JobRecords] /\ job'[j] = x /\ \A k \in Jobs \ {j} : job'[k] = job[k]
      /\ job \in [Jobs -> JobRecords] /\ digest \in [Targets -> Digests]
      /\ cyc \in [Runs -> Cycles]
  BY DEF Inv, TypeOK, Become
<1>2. TypeOK'
  BY <1>1 DEF Inv, TypeOK, Actors
<1>3. Idles'
  BY <1>1 DEF Inv, Idles
<1>4. PICK A, B : A = Excused /\ B = Excused'
  OBVIOUS
<1>5. PICK E : E = digest'
  OBVIOUS
<1>14. A \subseteq B
  BY <1>4 DEF Excused
<1>6. \A q \in Runs : CycleFits(q, cyc[q], E, B)
  <2>1. \A q \in Runs : CycleFits(q, cyc[q], digest, A) /\ cyc[q] \in Cycles
    BY <1>1, <1>4 DEF Inv, CyclesFit
  <2> QED BY <1>1, <1>5, <1>14, <2>1, CycleStands
<1>7. CyclesFit'
  BY <1>4, <1>5, <1>6 DEF CyclesFit
<1>8. Bindings' = Bindings
  BY DEF Bindings, ArchivedOf, Bound, Archived
<1>9. PICK C, S, T : C = Bindings /\ S = announced /\ T = announced'
  OBVIOUS
<1>10. ASSUME NEW k \in Jobs
       PROVE  JobFits(k, job'[k], E, C, T) /\ Earned(job'[k], archive, report, dueFrom)
  <2>1. CASE k = j
    BY <1>1, <1>5, <1>9, <2>1
  <2>2. CASE k # j
    <3>1. JobFits(k, job[k], digest, C, S) /\ Earned(job[k], archive, report, dueFrom)
      BY <1>9 DEF Inv, JobsFit
    <3>2. S \subseteq T
      BY <1>9
    <3>3. JobFits(k, job[k], E, C, T)
      BY <1>1, <1>5, <3>1, <3>2, JobStands
    <3> QED BY <1>1, <2>2, <3>1, <3>3
  <2> QED BY <2>1, <2>2
<1>11. JobsFit'
  BY <1>5, <1>8, <1>9, <1>10 DEF JobsFit, Earned
<1>12. OpenersAnswer'
  <2>1. \A k \in Jobs : /\ job[k].cut => job'[k].cut
                        /\ job[k].step = "send" =>
                             job'[k].step = "send" \/ k \in announced' \/ job'[k].cut
    BY <1>1
  <2>2. \A p : Answered(p) => Answered(p)'
    BY <2>1, AnsweredStays
  <2>3. x.step = "send" => Answered(j)'
    BY <1>1 DEF Answered
  <2> QED BY <2>2, <2>3, OpenersStay DEF Inv
<1> QED BY <1>2, <1>3, <1>7, <1>11, <1>12 DEF Inv

(* The same when no message is at stake.                                   *)
LEMMA JobGoesOn ==
  ASSUME Inv, NEW j \in Jobs, NEW x \in JobRecords, Become(j, x), closed, x.step # "idle",
         digest' \in [Targets -> Digests], Forward(digest, digest'), job[j].step # "send",
         job[j].cut => x.cut,
         JobFits(j, x, digest', Bindings, announced), Earned(x, archive, report, dueFrom),
         UNCHANGED <<archive, report, opener, cyc, dueFrom, closed, announced, heldBy>>
  PROVE  Inv'
<1>1. PICK E, S : E = digest' /\ S = announced
  OBVIOUS
<1>2. JobFits(j, x, E, Bindings, S)
  BY <1>1
<1>3. JobFits(j, x, digest', Bindings, announced')
  BY <1>1, <1>2
<1>4. opener' \in [Targets -> Actors \cup {"nobody"}] /\ Opens(j, x.step = "send")
  BY DEF Inv, TypeOK, Opens
<1> QED BY <1>3, <1>4, JobMoves

-----------------------------------------------------------------------------
(* The cycle                                                               *)

LEMMA CycleState ==
  ASSUME Inv, NEW r \in Runs
  PROVE  /\ cyc[r] \in Cycles /\ CycleFits(r, cyc[r], digest, Excused)
         /\ cyc[r].kind \in Kinds /\ cyc[r].seen \in Digests /\ cyc[r].attempt \in Nat
         /\ digest \in [Targets -> Digests] /\ TargetOf[r] \in Targets
         /\ digest[TargetOf[r]] \in Digests /\ Forward(digest, digest)
         /\ announced \in SUBSET Actors /\ opener \in [Targets -> Actors \cup {"nobody"}]
         /\ \A sends : UNCHANGED opener => Opens(r, sends)
BY StandsStill DEF Inv, TypeOK, CyclesFit, Cycles, Opens

(* A move to another step.                                                 *)
LEMMA GoFields ==
  ASSUME Inv, NEW r \in Runs, NEW step \in CycleSteps, Go(r, step)
  PROVE  \E c \in Cycles : /\ cyc' = [cyc EXCEPT ![r] = c] /\ c.kind = cyc[r].kind
                           /\ c.step = step
<1> DEFINE c1 == [cyc[r] EXCEPT !.step = step]
           c2 == [c1 EXCEPT !.seen = NoDigest]
           c3 == [c2 EXCEPT !.attempt = 0]
<1>1. cyc' = [cyc EXCEPT ![r] = c3]
  BY CycleState DEF Go, Inv, TypeOK
<1>2. c1 \in Cycles /\ c1.step = step /\ c1.kind = cyc[r].kind
  BY CycleState, CycleField
<1> HIDE DEF c1
<1>3. c2 \in Cycles /\ c2.step = step /\ c2.kind = cyc[r].kind
  BY <1>2, CycleField, NothingType
<1> HIDE DEF c2
<1>4. c3 \in Cycles /\ c3.step = step /\ c3.kind = cyc[r].kind
  BY <1>3, CycleField
<1> HIDE DEF c3
<1> QED BY <1>1, <1>4

(* A move to a step at which nothing is read and nothing is claimed, or to *)
(* the end of a cycle that is accounted for.                               *)
LEMMA GoHolds ==
  ASSUME Inv, NEW r \in Runs, NEW step \in {"recover", "coverage", "send", "done", "stopped"}, Go(r, step),
         digest' \in [Targets -> Digests], Forward(digest, digest'),
         announced \subseteq announced', announced' \in SUBSET Actors,
         opener' \in [Targets -> Actors \cup {"nobody"}], Opens(r, step = "send"),
         heldBy' = heldBy \/ \E t \in Targets : opener[t] # "nobody" /\ heldBy' = [heldBy EXCEPT ![r] = opener[t]],
         cyc[r].step # "stopped", cyc[r].step = "send" => r \in announced' \/ step = "stopped",
         UNCHANGED <<archive, report, job, dueFrom, closed>>,
         step = "recover" => Covered(r, digest'),
         step = "done" /\ cyc[r].kind \in RoutineKinds =>
           Covered(r, digest') \/ r \in Excused'
  PROVE  Inv'
<1>1. step \in CycleSteps
  BY DEF CycleSteps
<1>2. PICK c \in Cycles : /\ cyc' = [cyc EXCEPT ![r] = c] /\ c.kind = cyc[r].kind
                          /\ c.step = step
  BY <1>1, GoFields
<1>3. PICK A, E : A = Excused' /\ E = digest'
  OBVIOUS
<1>4. CycleFits(r, c, E, A)
  BY <1>2, <1>3 DEF CycleFits
<1>5. CycleFits(r, c, digest', Excused')
  BY <1>3, <1>4
<1> QED BY <1>2, <1>5, CycleMoves

LEMMA ReadCandidatesHolds ==
  ASSUME Inv, NEW r \in Runs, ReadCandidates(r)
  PROVE  Inv'
<1> DEFINE c1 == [cyc[r] EXCEPT !.step = "write"]
           c2 == [c1 EXCEPT !.seen = digest[TargetOf[r]]]
<1>1. cyc' = [cyc EXCEPT ![r] = c2]
  BY CycleState DEF ReadCandidates, Inv, TypeOK
<1>2. c1 \in Cycles /\ c1.step = "write" /\ c1.kind = cyc[r].kind
  <2>1. "write" \in CycleSteps
    BY DEF CycleSteps
  <2> QED BY <2>1, CycleState, CycleField
<1> HIDE DEF c1
<1>3. /\ c2 \in Cycles /\ c2.step = "write" /\ c2.kind = cyc[r].kind
      /\ c2.seen = digest[TargetOf[r]]
  BY <1>2, CycleState, CycleField
<1> HIDE DEF c2
<1>4. cyc[r].kind # "misbound"
  BY CycleState DEF ReadCandidates, At, CycleFits
<1>5. Prior(c2.seen, digest[TargetOf[r]])
  BY <1>3, CycleState DEF Prior, Digests
<1>6. CycleFits(r, c2, digest, Excused)
  BY <1>3, <1>4, <1>5 DEF CycleFits
<1>7. UNCHANGED <<archive, report, digest, opener, job, dueFrom, closed, announced, heldBy>>
  BY DEF ReadCandidates
<1>8. cyc[r].step = "read" /\ Opens(r, c2.step = "send")
  BY <1>7 DEF ReadCandidates, At, Opens
<1>9. CycleFits(r, c2, digest', Excused')
  BY <1>6, <1>7 DEF Excused
<1> QED BY <1>1, <1>3, <1>7, <1>8, <1>9, CycleState, CycleMoves

(* The write of a cycle that has read: the row is there.                   *)
LEMMA CycleWrites ==
  ASSUME Inv, NEW r \in Runs, At(r, "write"), Unchanged(TargetOf[r], cyc[r].seen),
         Write(TargetOf[r], cyc[r].seen, RowOf(r, CycleRow(cyc[r].kind)))
  PROVE  digest' \in [Targets -> Digests] /\ Forward(digest, digest') /\ Covered(r, digest')
<1> DEFINE rows == RowOf(r, CycleRow(cyc[r].kind))
<1>1. rows \in [Runs -> RowStates] /\ rows[r] # "none"
  BY NothingType DEF RowOf, CycleRow, RowStates
<1>2. Write(TargetOf[r], cyc[r].seen, rows)
  OBVIOUS
<1> HIDE DEF rows
<1>3. Prior(cyc[r].seen, digest[TargetOf[r]])
  BY CycleState DEF CycleFits, At
<1>4. /\ digest' \in [Targets -> Digests] /\ Forward(digest, digest')
      /\ \A q \in Runs : rows[q] # "none" => digest'[TargetOf[r]].rows[q] # "none"
  BY <1>1, <1>2, <1>3, CycleState, WriteForward
<1> QED BY <1>1, <1>4 DEF Covered

LEMMA WriteCandidateHolds ==
  ASSUME Inv, NEW r \in Runs, WriteCandidate(r)
  PROVE  Inv'
<1>1. /\ UNCHANGED <<archive, report, opener, job, dueFrom, closed, announced, heldBy>>
      /\ At(r, "write") /\ cyc[r].step = "write"
  BY DEF WriteCandidate, At
<1>2. cyc[r].kind # "misbound"
  BY <1>1, CycleState DEF At, CycleFits
<1>3. /\ AfterMerge(cyc[r].kind) \in {"recover", "done"}
      /\ AfterFailedMerge(cyc[r].kind) \in {"coverage", "done"}
      /\ AfterFailedMerge(cyc[r].kind) = "done" => cyc[r].kind \notin RoutineKinds
  BY <1>2 DEF AfterMerge, AfterFailedMerge, RoutineKinds
<1>4. CASE /\ Unchanged(TargetOf[r], cyc[r].seen)
           /\ Write(TargetOf[r], cyc[r].seen, RowOf(r, CycleRow(cyc[r].kind)))
           /\ Go(r, AfterMerge(cyc[r].kind))
  <2>1. digest' \in [Targets -> Digests] /\ Forward(digest, digest') /\ Covered(r, digest')
    BY <1>1, <1>4, CycleWrites
  <2> QED BY <1>1, <1>3, <1>4, <2>1, CycleState, GoHolds
<1>5. CASE UNCHANGED digest /\ Go(r, AfterFailedMerge(cyc[r].kind))
  BY <1>1, <1>3, <1>5, CycleState, GoHolds
<1>6. CASE /\ UNCHANGED digest
           /\ cyc' = [cyc EXCEPT ![r] =
                [@ EXCEPT !.step = "read", !.seen = NoDigest, !.attempt = cyc[r].attempt + 1]]
  <2> DEFINE c1 == [cyc[r] EXCEPT !.step = "read"]
             c2 == [c1 EXCEPT !.seen = NoDigest]
             c3 == [c2 EXCEPT !.attempt = cyc[r].attempt + 1]
  <2>1. cyc' = [cyc EXCEPT ![r] = c3]
    BY <1>6
  <2>2. c1 \in Cycles /\ c1.step = "read" /\ c1.kind = cyc[r].kind
    <3>1. "read" \in CycleSteps
      BY DEF CycleSteps
    <3> QED BY <3>1, CycleState, CycleField
  <2> HIDE DEF c1
  <2>3. c2 \in Cycles /\ c2.step = "read" /\ c2.kind = cyc[r].kind
    BY <2>2, CycleField, NothingType
  <2> HIDE DEF c2
  <2>4. c3 \in Cycles /\ c3.step = "read" /\ c3.kind = cyc[r].kind
    <3>1. cyc[r].attempt + 1 \in Nat
      BY CycleState
    <3> QED BY <2>3, <3>1, CycleField
  <2> HIDE DEF c3
  <2>5. CycleFits(r, c3, digest, Excused)
    BY <1>2, <2>4 DEF CycleFits
  <2>6. CycleFits(r, c3, digest', Excused')
    BY <1>1, <1>6, <2>5 DEF Excused
  <2>7. Opens(r, c3.step = "send")
    BY <1>1 DEF Opens
  <2> QED BY <1>1, <1>6, <2>1, <2>4, <2>6, <2>7, CycleState, CycleMoves
<1> QED BY <1>4, <1>5, <1>6 DEF WriteCandidate

LEMMA CandidateStoreRaisesHolds ==
  ASSUME Inv, NEW r \in Runs, CandidateStoreRaises(r)
  PROVE  Inv'
<1>1. /\ UNCHANGED <<archive, report, opener, job, dueFrom, closed, announced, heldBy>>
      /\ cyc[r].step \in {"read", "write"} /\ Go(r, AfterFailedMerge(cyc[r].kind))
  BY DEF CandidateStoreRaises
<1>2. cyc[r].kind # "misbound"
  BY <1>1, CycleState DEF CycleFits
<1>3. /\ AfterFailedMerge(cyc[r].kind) \in {"coverage", "done"}
      /\ AfterFailedMerge(cyc[r].kind) = "done" => cyc[r].kind \notin RoutineKinds
  BY <1>2 DEF AfterFailedMerge, RoutineKinds
<1>4. digest' \in [Targets -> Digests] /\ Forward(digest, digest')
  BY CycleState, CycleWrites DEF CandidateStoreRaises
<1> QED BY <1>1, <1>3, <1>4, CycleState, GoHolds

LEMMA RecoverHolds ==
  ASSUME Inv, NEW r \in Runs, Recover(r)
  PROVE  Inv'
<1>1. /\ UNCHANGED <<archive, report, digest, job, dueFrom, closed, announced, heldBy>>
      /\ Covered(r, digest) /\ cyc[r].step = "recover"
  BY CycleState DEF Recover, At, CycleFits
<1>2. Go(r, "done") \/ Go(r, "send")
  BY DEF Recover
<1>3. opener' \in [Targets -> Actors \cup {"nobody"}] /\ \A sends : Opens(r, sends)
  BY CycleState DEF Recover, Opens
<1>4. Covered(r, digest')
  BY <1>1 DEF Covered
<1> QED BY <1>1, <1>2, <1>3, <1>4, CycleState, GoHolds

LEMMA CoverageHolds ==
  ASSUME Inv, NEW r \in Runs, Coverage(r)
  PROVE  Inv'
<1> DEFINE t == TargetOf[r]
<1>1. /\ UNCHANGED <<archive, report, digest, job, dueFrom, closed, announced>>
      /\ cyc[r].step = "coverage" /\ t \in Targets /\ heldBy \in [Runs -> Actors \cup {"nobody"}]
  BY CycleState DEF Coverage, At, Inv, TypeOK
<1>2. CASE Active(t) /\ Go(r, "done") /\ heldBy' = [heldBy EXCEPT ![r] = opener[t]] /\ UNCHANGED opener
  <2>1. opener[t] # "nobody" /\ r \in Excused'
    BY <1>1, <1>2 DEF Active, Excused
  <2> QED BY <1>1, <1>2, <2>1, CycleState, GoHolds
<1>3. CASE /\ Go(r, "send") /\ UNCHANGED heldBy
           /\ opener' \in {opener, [opener EXCEPT ![t] = r]}
  <2>1. opener' \in [Targets -> Actors \cup {"nobody"}] /\ Opens(r, "send" = "send")
    BY <1>1, <1>3, CycleState DEF Opens, Actors
  <2> QED BY <1>1, <1>3, <2>1, CycleState, GoHolds
<1> QED BY <1>2, <1>3 DEF Coverage

LEMMA SendFailureHolds ==
  ASSUME Inv, NEW r \in Runs, SendFailure(r)
  PROVE  Inv'
<1>1. /\ UNCHANGED <<archive, report, digest, opener, job, dueFrom, closed, heldBy>>
      /\ cyc[r].step = "send" /\ announced' = announced \cup {r} /\ Go(r, "done")
  BY DEF SendFailure, At
<1>2. announced' \in SUBSET Actors /\ r \in Excused'
  BY <1>1, CycleState DEF Actors, Excused
<1> QED BY <1>1, <1>2, CycleState, GoHolds

LEMMA KilledHolds ==
  ASSUME Inv, NEW r \in Runs, Killed(r)
  PROVE  Inv'
BY CycleState, GoHolds DEF Killed

-----------------------------------------------------------------------------
(* The day, before its jobs                                                *)

LEMMA IdleFits ==
  ASSUME NEW j, NEW D, NEW B, NEW A, NEW a, NEW rep, NEW due
  PROVE  JobFits(j, IdleJob, D, B, A) /\ Earned(IdleJob, a, rep, due)
BY DEF JobFits, Earned, IdleJob

LEMMA IdleJobsFit ==
  ASSUME Idles, ~closed, UNCHANGED job
  PROVE  JobsFit'
<1>1. PICK D, B, A, a, rep, due : /\ D = digest' /\ B = Bindings' /\ A = announced'
                                  /\ a = archive' /\ rep = report' /\ due = dueFrom'
  OBVIOUS
<1>2. ASSUME NEW j \in Jobs
      PROVE  JobFits(j, job'[j], D, B, A) /\ Earned(job'[j], a, rep, due)
  <2>1. job'[j] = IdleJob
    BY DEF Idles
  <2> QED BY <2>1, IdleFits
<1> QED BY <1>1, <1>2 DEF JobsFit, Earned

LEMMA ReportHolds ==
  ASSUME Inv, NEW r \in Runs, Report(r)
  PROVE  Inv'
<1>0. /\ UNCHANGED <<digest, opener, job, dueFrom, closed, announced, heldBy>>
      /\ ~closed
  BY DEF Report
<1>1. PICK kind \in KindsOf[r], confirmed \in BOOLEAN, written \in BOOLEAN :
        /\ IF written
             THEN /\ archive' = Append(archive, r)
                  /\ \E class \in ClassesOf(kind) : report' = [report EXCEPT ![r] = class]
             ELSE UNCHANGED <<archive, report>>
        /\ cyc' = [cyc EXCEPT ![r] =
                     [@ EXCEPT !.kind = kind, !.step = AfterReport(kind, confirmed)]]
  BY DEF Report
<1>2. kind \in Kinds
  OBVIOUS
<1>3. archive' \in Seq(Runs) /\ report' \in [Runs -> Classes \cup {"none"}]
  <2>1. archive \in Seq(Runs) /\ report \in [Runs -> Classes \cup {"none"}]
    BY DEF Inv, TypeOK
  <2>2. ClassesOf(kind) \subseteq Classes
    BY <1>2 DEF ClassesOf, Classes, Kinds
  <2>3. CASE written
    <3>1. /\ archive' = Append(archive, r)
          /\ \E class \in Classes : report' = [report EXCEPT ![r] = class]
      BY <1>1, <2>2, <2>3
    <3>2. Append(archive, r) \in Seq(Runs)
      BY <2>1, AppendProperties
    <3> QED BY <2>1, <3>1, <3>2
  <2>4. CASE ~written
    BY <1>1, <2>1, <2>4
  <2> QED BY <2>3, <2>4
<1> DEFINE step == AfterReport(kind, confirmed)
           c1 == [cyc[r] EXCEPT !.kind = kind]
           c2 == [c1 EXCEPT !.step = step]
<1>4. step \in {"done", "send", "read"}
      /\ (step = "done" => kind \notin RoutineKinds) /\ (step = "read" => kind # "misbound")
  BY DEF AfterReport, RoutineKinds
<1>5. cyc' = [cyc EXCEPT ![r] = c2]
  BY <1>1, CycleState DEF Inv, TypeOK
<1> HIDE DEF step
<1>6. c1 \in Cycles /\ c1.kind = kind
  BY <1>2, CycleState, CycleField
<1> HIDE DEF c1
<1>7. c2 \in Cycles /\ c2.kind = kind /\ c2.step = step
  <2>1. step \in CycleSteps
    BY <1>4 DEF CycleSteps
  <2> QED BY <1>6, <2>1, CycleField
<1> HIDE DEF c2
<1>8. /\ cyc' \in [Runs -> Cycles] /\ cyc'[r] = c2 /\ \A q \in Runs \ {r} : cyc'[q] = cyc[q]
  BY <1>5, <1>7 DEF Inv, TypeOK
<1>9. TypeOK'
  BY <1>0, <1>3, <1>8 DEF Inv, TypeOK
<1>10. \A D, A : CycleFits(r, c2, D, A)
  BY <1>4, <1>7 DEF CycleFits
<1>11. PICK A : A = Excused
  OBVIOUS
<1>12. \A q \in Runs : CycleFits(q, cyc'[q], digest, A)
  BY <1>8, <1>10, <1>11 DEF Inv, CyclesFit
<1>13. CyclesFit'
  BY <1>0, <1>11, <1>12 DEF CyclesFit, Excused
<1>14. Idles' /\ JobsFit'
  BY <1>0, IdleJobsFit DEF Inv, Idles
<1>15. OpenersAnswer'
  <2>1. \A q \in Runs : cyc'[q].step = cyc[q].step \/ cyc[q].step \notin {"send", "stopped"}
    BY <1>8 DEF Report, At
  <2>2. \A p : Answered(p) => Answered(p)'
    BY <1>0, <2>1, AnsweredStays
  <2> QED BY <1>0, <2>2 DEF Inv, OpenersAnswer, Answered
<1> QED BY <1>9, <1>13, <1>14, <1>15 DEF Inv

LEMMA DueAtHolds ==
  ASSUME Inv, NEW t \in Targets, DueAt(t)
  PROVE  Inv'
<1>1. /\ UNCHANGED <<archive, report, digest, opener, cyc, job, closed, announced, heldBy>>
      /\ ~closed /\ dueFrom' = [dueFrom EXCEPT ![t] = Len(archive) + 1]
  BY DEF DueAt
<1>2. Len(archive) + 1 \in Nat
  BY LenProperties DEF Inv, TypeOK
<1>3. TypeOK'
  BY <1>1, <1>2 DEF Inv, TypeOK
<1>4. CyclesFit' /\ Idles' /\ OpenersAnswer'
  BY <1>1 DEF Inv, CyclesFit, Excused, Idles, OpenersAnswer, Answered
<1>5. JobsFit'
  BY <1>1, IdleJobsFit DEF Inv
<1> QED BY <1>3, <1>4, <1>5 DEF Inv

(* What remains of a step that changes nothing the parts speak of.         *)
LEMMA DayStands ==
  ASSUME Inv, UNCHANGED <<archive, report, digest, opener, cyc, job, dueFrom, announced, heldBy>>,
         closed' \in BOOLEAN, closed => closed'
  PROVE  Inv'
<1>1. TypeOK' /\ CyclesFit' /\ Idles' /\ OpenersAnswer'
  BY DEF Inv, TypeOK, CyclesFit, Excused, Idles, OpenersAnswer, Answered
<1>2. Bindings' = Bindings
  BY DEF Bindings, ArchivedOf, Bound, Archived
<1>3. JobsFit'
  BY <1>2 DEF Inv, JobsFit, Earned
<1> QED BY <1>1, <1>3 DEF Inv

LEMMA CloseHolds ==
  ASSUME Inv, Close
  PROVE  Inv'
BY DayStands DEF Close

-----------------------------------------------------------------------------
(* The jobs                                                                *)

LEMMA JobState ==
  ASSUME Inv, NEW j \in Jobs
  PROVE  /\ job[j] \in JobRecords /\ JobFits(j, job[j], digest, Bindings, announced)
         /\ Earned(job[j], archive, report, dueFrom)
         /\ job[j].step # "idle" => closed
         /\ digest \in [Targets -> Digests] /\ Forward(digest, digest)
         /\ opener \in [Targets -> Actors \cup {"nobody"}]
         /\ \A sends : UNCHANGED opener => Opens(j, sends)
         /\ Current(j) = NextBinding(job[j])
BY StandsStill DEF Inv, TypeOK, Idles, JobsFit, Current, NextBinding, Opens

LEMMA UnjudgedEarned ==
  ASSUME NEW x, x.verdict # "healthy"
  PROVE  \A a, rep, due : Earned(x, a, rep, due)
BY DEF Earned

LEMMA SameVerdict ==
  ASSUME NEW x, NEW y, x.verdict = y.verdict, x.basis = y.basis, NEW a, NEW rep, NEW due,
         Earned(x, a, rep, due)
  PROVE  Earned(y, a, rep, due)
BY DEF Earned

LEMMA StartJobHolds ==
  ASSUME Inv, NEW j \in Jobs, StartJob(j)
  PROVE  Inv'
<1>0. /\ UNCHANGED <<archive, report, digest, opener, cyc, dueFrom, closed, announced, heldBy>>
      /\ closed /\ job[j] = IdleJob
  BY DEF StartJob, JobAt, Inv, Idles
<1>1. /\ IdleJob.listed = {} /\ IdleJob.ok = FALSE /\ IdleJob.phase = "heartbeat"
      /\ IdleJob.verdict = "none" /\ IdleJob.step = "idle" /\ IdleJob.noted = FALSE
      /\ IdleJob.cut = FALSE /\ IdleJob \in JobRecords
  BY NothingType DEF IdleJob
<1>2. ASSUME NEW x \in JobRecords, Become(j, x), x.step \in {"evaluate", "list"}, x.listed = {},
             x.ok = FALSE, x.verdict = "none", x.noted = FALSE,
             x.phase = "candidates" => x.todo = Targets
      PROVE  Inv'
  <2>1. JobFits(j, x, digest, Bindings, announced)
    BY <1>2 DEF JobFits
  <2>3. Earned(x, archive, report, dueFrom)
    BY <1>2, UnjudgedEarned
  <2>2. JobFits(j, x, digest', Bindings, announced)
    BY <1>0, <2>1
  <2> QED BY <1>0, <1>1, <1>2, <2>2, <2>3, JobState, JobGoesOn
<1>3. CASE Become(j, [job[j] EXCEPT !.step = "evaluate"])
  <2> DEFINE x == [IdleJob EXCEPT !.step = "evaluate"]
  <2>1. /\ x \in JobRecords /\ x.step = "evaluate" /\ x.listed = {} /\ x.ok = FALSE
        /\ x.phase = "heartbeat" /\ x.verdict = "none" /\ x.noted = FALSE
    <3>1. "evaluate" \in JobSteps
      BY DEF JobSteps
    <3> QED BY <1>1, <3>1, JobField
  <2>2. Become(j, x)
    BY <1>0, <1>3
  <2> HIDE DEF x
  <2> QED BY <1>2, <2>1, <2>2
<1>4. CASE Become(j, Candidates(job[j]))
  <2> DEFINE x == Candidates(IdleJob)
  <2>1. /\ x \in JobRecords /\ x.step = "list" /\ x.listed = {} /\ x.ok = FALSE
        /\ x.verdict = "none" /\ x.noted = FALSE /\ x.todo = Targets
    BY <1>1, CandidatesFields
  <2>2. Become(j, x)
    BY <1>0, <1>4
  <2> HIDE DEF x
  <2> QED BY <1>2, <2>1, <2>2
<1>5. ASSUME NEW t \in Targets, Become(j, [Emit(job[j], {t}) EXCEPT !.phase = "publish"])
      PROVE  Inv'
  <2> DEFINE y == Emit(IdleJob, {t})
             x == [y EXCEPT !.phase = "publish"]
  <2>1. /\ y \in JobRecords /\ y.step = "list" /\ y.listed = {} /\ y.ok = FALSE
        /\ y.verdict = "none" /\ y.noted = FALSE
    BY <1>1, EmitFields
  <2>2. Become(j, x)
    BY <1>0, <1>5
  <2> HIDE DEF y
  <2>3. /\ x \in JobRecords /\ x.step = "list" /\ x.listed = {} /\ x.ok = FALSE
        /\ x.phase = "publish" /\ x.verdict = "none" /\ x.noted = FALSE
    <3>1. "publish" \in Phases
      BY DEF Phases
    <3> QED BY <2>1, <3>1, JobField
  <2> HIDE DEF x
  <2> QED BY <1>2, <2>2, <2>3
<1> QED BY <1>3, <1>4, <1>5 DEF StartJob

-----------------------------------------------------------------------------
(* The verdict                                                             *)

(* A function on 1 .. n is a sequence of n elements.                       *)
LEMMA FunctionIsSeq ==
  ASSUME NEW n \in Nat, NEW f, NEW S, f \in [1 .. n -> S]
  PROVE  f \in Seq(S) /\ Len(f) = n
<1>1. f \in Seq(S)
  BY SeqDef
<1>2. Len(f) \in Nat /\ 1 .. Len(f) = 1 .. n
  BY <1>1, LenProperties
<1>3. \A i \in Nat : i \in 1 .. Len(f) <=> i \in 1 .. n
  BY <1>2
<1>4. /\ (1 <= Len(f) <=> Len(f) \in 1 .. n) /\ (1 <= n <=> n \in 1 .. Len(f))
  BY <1>2, <1>3
<1> QED BY <1>1, <1>2, <1>4

(* What is inspected is the listing as far as it goes.                     *)
LEMMA InspectedListing ==
  ASSUME Inv, NEW bad
  PROVE  \E m \in Nat : LET seen == Inspected(Listing(bad), MaxReports) IN
           /\ m <= Len(archive) /\ DOMAIN seen = 1 .. m
           /\ \A i \in 1 .. m : LET p == Len(archive) + 1 - i IN
                /\ seen[i].target = TargetOf[archive[p]] /\ seen[i].class = report[archive[p]]
                /\ seen[i].due = (dueFrom[TargetOf[archive[p]]] \in 1 .. p)
<1> DEFINE n == Len(archive)
           objects == Listing(bad)
           S == {objects[i] : i \in 1 .. n}
           m == IF Len(objects) < MaxReports THEN Len(objects) ELSE MaxReports
<1>1. n \in Nat /\ DOMAIN archive = 1 .. n
  BY LenProperties DEF Inv, TypeOK
<1>2. objects = [i \in 1 .. n |-> objects[i]]
  BY <1>1 DEF Listing
<1>3. \A i \in 1 .. n : LET p == n + 1 - i IN
        /\ objects[i].target = TargetOf[archive[p]] /\ objects[i].class = report[archive[p]]
        /\ objects[i].due = (dueFrom[TargetOf[archive[p]]] \in 1 .. p)
  BY <1>1 DEF Listing
<1> HIDE DEF objects
<1>4. objects \in [1 .. n -> S]
  BY <1>2
<1>5. objects \in Seq(S) /\ Len(objects) = n
  BY <1>1, <1>4, FunctionIsSeq
<1>6. m \in Nat /\ m <= n
  BY <1>1, <1>5
<1> HIDE DEF m
<1>7. \A i \in 1 .. m : objects[i] \in S
  BY <1>1, <1>4, <1>6
<1>8. /\ SubSeq(objects, 1, m) \in Seq(S)
      /\ Len(SubSeq(objects, 1, m)) = IF 1 <= m THEN m - 1 + 1 ELSE 0
      /\ \A i \in 1 .. m - 1 + 1 : SubSeq(objects, 1, m)[i] = objects[1 + i - 1]
  BY <1>6, <1>7, SubSeqProperties
<1>9. Inspected(objects, MaxReports) = SubSeq(objects, 1, m)
  BY DEF Inspected, m
<1>10. PICK seen : seen = SubSeq(objects, 1, m)
  OBVIOUS
<1>11. Len(seen) = m /\ DOMAIN seen = 1 .. m
  BY <1>6, <1>8, <1>10, LenProperties
<1>12. \A i \in 1 .. m : seen[i] = objects[i]
  BY <1>6, <1>8, <1>10
<1>13. \A i \in 1 .. m : LET p == n + 1 - i IN
        /\ seen[i].target = TargetOf[archive[p]] /\ seen[i].class = report[archive[p]]
        /\ seen[i].due = (dueFrom[TargetOf[archive[p]]] \in 1 .. p)
  BY <1>1, <1>3, <1>6, <1>12
<1>14. Inspected(Listing(bad), MaxReports) = seen
  BY <1>9, <1>10 DEF objects
<1> QED BY <1>6, <1>11, <1>13, <1>14

(* No newer report of t stands before the quiet one that the verdict rests *)
(* on: an unreadable one would make the reading incomplete, one of another *)
(* identity would be an issue.                                             *)
LEMMA HealthyVerdict ==
  ASSUME NEW objects, NEW T, NEW limit, NEW listed, NEW m \in Nat,
         Verdict(objects, T, limit, listed) = "healthy",
         DOMAIN Inspected(objects, limit) = 1 .. m, NEW t \in T
  PROVE  LET seen == Inspected(objects, limit) IN
           \E k \in 1 .. m : /\ seen[k].target = t /\ seen[k].due /\ seen[k].class = "quiet"
                             /\ \A i \in 1 .. k - 1 : seen[i].target = t => ~seen[i].due
<1> DEFINE seen == Inspected(objects, limit)
<1>1. /\ \A u \in T : Quiet(seen, u) # {} /\ ~Issue(seen, u)
      /\ ~ReadIncomplete(seen, T) /\ DOMAIN seen = 1 .. m
  BY DEF Verdict
<1> HIDE DEF seen
<1>2. PICK k \in Quiet(seen, t) : TRUE
  BY <1>1
<1>3. /\ k \in 1 .. m /\ Counts(seen[k], t) /\ seen[k].class = "quiet"
      /\ \A i \in 1 .. k - 1 : ~Counts(seen[i], t)
  BY <1>1, <1>2 DEF Quiet, Latest
<1>4. ASSUME NEW i \in 1 .. k - 1, seen[i].target = t PROVE ~seen[i].due
  <2>1. i \in 1 .. m /\ i < k /\ \A h \in 1 .. i - 1 : h \in 1 .. k - 1
    BY <1>3
  <2>2. seen[i].readable
    BY <1>1, <1>2, <2>1 DEF ReadIncomplete
  <2>3. seen[i].class # "conflicting"
    BY <1>1, <1>3, <1>4, <2>1, <2>2 DEF Issue
  <2> QED BY <1>3, <1>4, <2>2, <2>3 DEF Counts
<1> QED BY <1>3, <1>4 DEF Counts, seen

LEMMA VerdictEarned ==
  ASSUME Inv, NEW bad, NEW listed, NEW x,
         x.verdict = Verdict(Listing(bad), DueTargets, MaxReports, listed), x.basis = Len(archive)
  PROVE  Earned(x, archive, report, dueFrom)
<1> SUFFICES ASSUME x.verdict = "healthy", NEW t \in Targets, dueFrom[t] # 0
             PROVE  \E p \in dueFrom[t] .. x.basis :
                      /\ TargetOf[archive[p]] = t /\ report[archive[p]] = "quiet"
                      /\ \A q \in p + 1 .. x.basis : TargetOf[archive[q]] # t
  BY DEF Earned
<1> DEFINE n == Len(archive)
<1>1. t \in DueTargets /\ dueFrom[t] \in Nat /\ n \in Nat
  BY LenProperties DEF DueTargets, Inv, TypeOK
<1>2. PICK seen : seen = Inspected(Listing(bad), MaxReports)
  OBVIOUS
<1>3. PICK m \in Nat :
        /\ m <= n /\ DOMAIN seen = 1 .. m
        /\ \A i \in 1 .. m : /\ seen[i].target = TargetOf[archive[n + 1 - i]]
                             /\ seen[i].class = report[archive[n + 1 - i]]
                             /\ seen[i].due = (dueFrom[TargetOf[archive[n + 1 - i]]]
                                                 \in 1 .. n + 1 - i)
  BY <1>2, InspectedListing
<1>4. PICK k \in 1 .. m : /\ seen[k].target = t /\ seen[k].due /\ seen[k].class = "quiet"
                          /\ \A i \in 1 .. k - 1 : seen[i].target = t => ~seen[i].due
  <2>1. PICK objects, T : objects = Listing(bad) /\ T = DueTargets
    OBVIOUS
  <2>2. Verdict(objects, T, MaxReports, listed) = "healthy"
    BY <2>1
  <2>3. seen = Inspected(objects, MaxReports) /\ DOMAIN Inspected(objects, MaxReports) = 1 .. m
    BY <1>2, <1>3, <2>1
  <2>4. t \in T
    BY <1>1, <2>1
  <2>5. \E k \in 1 .. m :
          /\ Inspected(objects, MaxReports)[k].target = t /\ Inspected(objects, MaxReports)[k].due
          /\ Inspected(objects, MaxReports)[k].class = "quiet"
          /\ \A i \in 1 .. k - 1 : Inspected(objects, MaxReports)[i].target = t =>
                                    ~Inspected(objects, MaxReports)[i].due
    BY <2>2, <2>3, <2>4, HealthyVerdict
  <2> QED BY <2>3, <2>5
<1> DEFINE p == n + 1 - k
<1>5. /\ TargetOf[archive[p]] = t /\ report[archive[p]] = "quiet" /\ dueFrom[t] \in 1 .. p
  BY <1>3, <1>4
<1>6. p \in dueFrom[t] .. n
  BY <1>1, <1>3, <1>5
<1>7. ASSUME NEW q \in p + 1 .. n, TargetOf[archive[q]] = t PROVE FALSE
  <2> DEFINE i == n + 1 - q
  <2>1. i \in 1 .. k - 1 /\ i \in 1 .. m /\ n + 1 - i = q
    BY <1>1, <1>3, <1>6
  <2>2. dueFrom[t] \in 1 .. q
    BY <1>1, <1>5, <1>6
  <2> HIDE DEF i, p
  <2>3. seen[i].target = t /\ seen[i].due = (dueFrom[t] \in 1 .. q)
    BY <1>3, <1>7, <2>1
  <2> QED BY <1>4, <2>1, <2>2, <2>3
<1> QED BY <1>5, <1>6, <1>7

LEMMA VerdictType ==
  ASSUME NEW objects, NEW T, NEW limit, NEW listed
  PROVE  Verdict(objects, T, limit, listed) \in Verdicts
BY DEF Verdict, Verdicts

LEMMA EvaluateHolds ==
  ASSUME Inv, NEW j \in Jobs, Evaluate(j)
  PROVE  Inv'
<1>0. /\ UNCHANGED <<archive, report, digest, opener, cyc, dueFrom, closed, announced, heldBy>>
      /\ closed /\ job[j].step = "evaluate" /\ job[j] \in JobRecords /\ job[j].ok = FALSE
      /\ job[j].noted => j \in announced \/ job[j].cut
  BY JobState DEF Evaluate, JobAt, JobFits, JobRecords
<1>1. PICK bad \in SUBSET DOMAIN archive, listed \in BOOLEAN :
        LET verdict == Verdict(Listing(bad), DueTargets, MaxReports, listed)
            judged == [job[j] EXCEPT !.verdict = verdict, !.basis = Len(archive)]
        IN  Become(j, IF verdict = "notDue" THEN Candidates(judged) ELSE Emit(judged, Targets))
  BY DEF Evaluate
<1>2. PICK verdict \in Verdicts : verdict = Verdict(Listing(bad), DueTargets, MaxReports, listed)
  BY VerdictType
<1> DEFINE x1 == [job[j] EXCEPT !.verdict = verdict]
           x2 == [x1 EXCEPT !.basis = Len(archive)]
           y == Emit(x2, Targets)
           z == Candidates(x2)
<1>3. Become(j, IF verdict = "notDue" THEN z ELSE y)
  BY <1>1, <1>2
<1>4. /\ x1 \in JobRecords /\ x1.ok = FALSE /\ x1.verdict = verdict
      /\ x1.noted = job[j].noted /\ x1.cut = job[j].cut
  BY <1>0, JobField
<1> HIDE DEF x1
<1>5. /\ x2 \in JobRecords /\ x2.ok = FALSE /\ x2.verdict = verdict /\ x2.basis = Len(archive)
      /\ x2.noted = job[j].noted /\ x2.cut = job[j].cut
  <2>1. Len(archive) \in Nat
    BY LenProperties DEF Inv, TypeOK
  <2> QED BY <1>4, <2>1, JobField
<1> HIDE DEF x2
<1>6. /\ y \in JobRecords /\ y.step = "list" /\ y.listed = {} /\ y.ok = FALSE
      /\ y.verdict = verdict /\ y.basis = Len(archive) /\ y.todo = Targets
      /\ y.noted = job[j].noted /\ y.cut = job[j].cut
  BY <1>5, EmitFields
<1> HIDE DEF y
<1>7. /\ z \in JobRecords /\ z.step = "list" /\ z.listed = {} /\ z.ok = FALSE
      /\ z.verdict = "none" /\ z.todo = Targets
      /\ z.noted = job[j].noted /\ z.cut = job[j].cut
  BY <1>5, CandidatesFields
<1> HIDE DEF z
<1>8. CASE verdict = "notDue"
  <2>1. Become(j, z)
    BY <1>3, <1>8
  <2>2. JobFits(j, z, digest, Bindings, announced) /\ Earned(z, archive, report, dueFrom)
    BY <1>0, <1>7, UnjudgedEarned DEF JobFits
  <2>3. JobFits(j, z, digest', Bindings, announced)
    BY <1>0, <2>2
  <2> QED BY <1>0, <1>7, <2>1, <2>2, <2>3, JobState, JobGoesOn
<1>9. CASE verdict # "notDue"
  <2>1. Become(j, y)
    BY <1>3, <1>9
  <2>2. JobFits(j, y, digest, Bindings, announced)
    BY <1>0, <1>6 DEF JobFits
  <2>3. Earned(y, archive, report, dueFrom)
    BY <1>2, <1>6, VerdictEarned
  <2>4. JobFits(j, y, digest', Bindings, announced)
    BY <1>0, <2>2
  <2> QED BY <1>0, <1>6, <2>1, <2>3, <2>4, JobState, JobGoesOn
<1> QED BY <1>8, <1>9

-----------------------------------------------------------------------------
(* The emission                                                            *)

(* What a job keeps while it goes on.                                      *)
SameEmission(x, y) ==
  /\ y.phase = x.phase /\ y.verdict = x.verdict /\ y.basis = x.basis
  /\ y.todo = x.todo /\ y.listed = x.listed /\ y.noted = x.noted /\ y.cut = x.cut

LEMMA StepTo ==
  ASSUME NEW x \in JobRecords, NEW step \in JobSteps
  PROVE  LET y == [x EXCEPT !.step = step] IN
           /\ y \in JobRecords /\ y.step = step /\ SameEmission(x, y) /\ y.ok = x.ok
BY JobField DEF SameEmission

LEMMA StepEnds ==
  ASSUME NEW x \in JobRecords, NEW step \in JobSteps, NEW ok \in BOOLEAN
  PROVE  LET y == [x EXCEPT !.step = step, !.ok = ok] IN
           /\ y \in JobRecords /\ y.step = step /\ SameEmission(x, y) /\ y.ok = ok
<1> DEFINE y1 == [x EXCEPT !.step = step]
           y2 == [y1 EXCEPT !.ok = ok]
<1>1. [x EXCEPT !.step = step, !.ok = ok] = y2
  OBVIOUS
<1>2. y1 \in JobRecords /\ y1.step = step /\ SameEmission(x, y1) /\ y1.noted = x.noted /\ y1.cut = x.cut
  BY StepTo
<1> HIDE DEF y1
<1>3. y2 \in JobRecords /\ y2.step = step /\ SameEmission(x, y2) /\ y2.noted = x.noted /\ y2.cut = x.cut /\ y2.ok = ok
  BY <1>2, JobField DEF SameEmission
<1> HIDE DEF y2
<1> QED BY <1>1, <1>3

(* A failed emission keeps what it had, and only owes an announcement.     *)
LEMMA FailedFits ==
  ASSUME NEW x, NEW y, SameEmission(x, y), y.step \in {"failed", "send"}, y.ok => x.ok,
         y.step = "failed" => ~y.ok
  PROVE  \A j, D, B, A : JobFits(j, x, D, B, A) => JobFits(j, y, D, B, A)
BY DEF JobFits, SameEmission

LEMMA FailedHolds ==
  ASSUME Inv, NEW j \in Jobs, job[j].step \notin {"idle", "send", "done"},
         Become(j, [job[j] EXCEPT !.step = "failed", !.ok = FALSE]),
         digest' \in [Targets -> Digests], Forward(digest, digest'),
         UNCHANGED <<archive, report, opener, cyc, dueFrom, closed, announced, heldBy>>
  PROVE  Inv'
<1>1. PICK y : y = [job[j] EXCEPT !.step = "failed", !.ok = FALSE]
  OBVIOUS
<1>2. y \in JobRecords /\ y.step = "failed" /\ SameEmission(job[j], y) /\ y.ok = FALSE
  <2>1. "failed" \in JobSteps
    BY DEF JobSteps
  <2>2. job[j] \in JobRecords
    BY JobState
  <2> QED BY <1>1, <2>1, <2>2, StepEnds
<1>3. PICK D, E, B, A : D = digest /\ E = digest' /\ B = Bindings /\ A = announced
  OBVIOUS
<1>4. JobFits(j, job[j], E, B, A)
  BY <1>3, JobState, JobStands
<1>5. JobFits(j, y, E, B, A)
  BY <1>2, <1>4, FailedFits
<1>6. JobFits(j, y, digest', Bindings, announced)
  BY <1>3, <1>5
<1>7. Earned(y, archive, report, dueFrom)
  BY <1>2, JobState, SameVerdict DEF SameEmission
<1>8. job[j].cut => y.cut
  BY <1>2 DEF SameEmission
<1> QED BY <1>1, <1>2, <1>6, <1>7, <1>8, JobState, JobGoesOn

LEMMA ListHolds ==
  ASSUME Inv, NEW j \in Jobs, List(j)
  PROVE  Inv'
<1>0. /\ UNCHANGED <<archive, report, digest, opener, cyc, dueFrom, closed, announced, heldBy>>
      /\ job[j].step = "list" /\ job[j] \in JobRecords /\ job[j].ok = FALSE
      /\ JobFits(j, job[j], digest, Bindings, announced) /\ job[j].todo \subseteq Targets
      /\ Earned(job[j], archive, report, dueFrom)
  BY JobState DEF List, JobAt, JobFits, JobRecords
<1>1. CASE job[j].todo = {} /\ Become(j, [job[j] EXCEPT !.step = "emitted", !.ok = TRUE])
  <2>1. PICK y : y = [job[j] EXCEPT !.step = "emitted", !.ok = TRUE]
    OBVIOUS
  <2>2. y \in JobRecords /\ y.step = "emitted" /\ SameEmission(job[j], y) /\ y.ok = TRUE
    <3>1. "emitted" \in JobSteps
      BY DEF JobSteps
    <3> QED BY <1>0, <2>1, <3>1, StepEnds
  <2>3. JobFits(j, y, digest, Bindings, announced)
    BY <1>0, <1>1, <2>2 DEF JobFits, SameEmission
  <2>4. Earned(y, archive, report, dueFrom)
    BY <1>0, <2>2, SameVerdict DEF SameEmission
  <2>5. job[j].cut => y.cut
    BY <2>2 DEF SameEmission
  <2>6. JobFits(j, y, digest', Bindings, announced)
    BY <1>0, <2>3
  <2> QED BY <1>0, <1>1, <2>1, <2>2, <2>4, <2>5, <2>6, JobState, JobGoesOn
<1>2. CASE Become(j, [job[j] EXCEPT !.step = "failed", !.ok = FALSE])
  BY <1>0, <1>2, JobState, FailedHolds
<1>3. CASE /\ job[j].todo # {}
           /\ Become(j, [job[j] EXCEPT !.step = "read", !.listed = @ \cup ArchivedOf(Current(j))])
  <2> DEFINE t == Current(j)
             listed == job[j].listed \cup ArchivedOf(t)
             y1 == [job[j] EXCEPT !.step = "read"]
             y == [y1 EXCEPT !.listed = listed]
  <2>1. Become(j, y)
    BY <1>3
  <2>2. t = NextBinding(job[j]) /\ t \in job[j].todo /\ t \in Targets
    BY <1>0, <1>3 DEF Current, NextBinding
  <2>3. /\ ArchivedOf(t) \subseteq Runs /\ \A r \in ArchivedOf(t) : TargetOf[r] = t
        /\ Bindings[t] = ArchivedOf(t)
    BY <2>2, LenProperties DEF ArchivedOf, Bound, Archived, Bindings, Inv, TypeOK
  <2>4. listed \in SUBSET Runs
    BY <1>0, <2>3 DEF JobRecords
  <2>5. /\ job[j].listed \subseteq listed /\ Bindings[t] \subseteq listed
        /\ \A r \in listed : r \in job[j].listed \/ TargetOf[r] = t
    BY <2>3
  <2> HIDE DEF t, listed
  <2>6. y1 \in JobRecords /\ y1.step = "read" /\ SameEmission(job[j], y1) /\ y1.ok = FALSE
    <3>1. "read" \in JobSteps
      BY DEF JobSteps
    <3> QED BY <1>0, <3>1, StepTo
  <2> HIDE DEF y1
  <2>7. /\ y \in JobRecords /\ y.step = "read" /\ y.ok = FALSE /\ y.listed = listed
        /\ y.todo = y1.todo /\ y.phase = y1.phase /\ y.verdict = y1.verdict /\ y.basis = y1.basis
        /\ y.noted = y1.noted /\ y.cut = y1.cut
    BY <2>4, <2>6, JobField
  <2> HIDE DEF y
  <2>8. NextBinding(y) = t
    BY <2>2, <2>6, <2>7 DEF NextBinding, SameEmission
  <2>9. JobFits(j, y, digest, Bindings, announced)
    <3>1. y.todo # {} /\ Bindings[NextBinding(y)] \subseteq y.listed
      BY <1>3, <2>5, <2>6, <2>7, <2>8 DEF SameEmission
    <3>2. \A r \in y.listed : TargetOf[r] \notin y.todo => Covered(r, digest)
      BY <1>0, <2>2, <2>5, <2>6, <2>7 DEF JobFits, SameEmission
    <3>3. y.phase = "candidates" => \A u \in Targets \ y.todo : Bindings[u] \subseteq y.listed
      BY <1>0, <2>5, <2>6, <2>7 DEF JobFits, SameEmission
    <3>4. y.noted => j \in announced \/ y.cut
      BY <1>0, <2>6, <2>7 DEF JobFits, SameEmission
    <3> QED BY <2>7, <3>1, <3>2, <3>3, <3>4 DEF JobFits
  <2>10. Earned(y, archive, report, dueFrom)
    BY <1>0, <2>6, <2>7, SameVerdict DEF SameEmission
  <2>11. job[j].cut => y.cut
    BY <2>6, <2>7 DEF SameEmission
  <2>12. JobFits(j, y, digest', Bindings, announced)
    BY <1>0, <2>9
  <2> QED BY <1>0, <2>1, <2>7, <2>10, <2>11, <2>12, JobState, JobGoesOn
<1> QED BY <1>1, <1>2, <1>3 DEF List

LEMMA ReadDigestHolds ==
  ASSUME Inv, NEW j \in Jobs, ReadDigest(j)
  PROVE  Inv'
<1>0. /\ UNCHANGED <<archive, report, digest, opener, cyc, dueFrom, closed, announced, heldBy>>
      /\ job[j].step = "read" /\ job[j] \in JobRecords /\ job[j].ok = FALSE
      /\ JobFits(j, job[j], digest, Bindings, announced) /\ job[j].todo # {} /\ job[j].todo \subseteq Targets
      /\ Earned(job[j], archive, report, dueFrom)
  BY JobState DEF ReadDigest, JobAt, JobFits, JobRecords
<1> DEFINE t == Current(j)
           seen == digest[t]
           y1 == [job[j] EXCEPT !.step = "write"]
           y == [y1 EXCEPT !.seen = seen]
<1>1. Become(j, y)
  BY DEF ReadDigest
<1>2. t = NextBinding(job[j]) /\ t \in Targets
  BY <1>0 DEF Current, NextBinding
<1>3. seen \in Digests /\ Prior(seen, digest[t])
  BY <1>2, JobState DEF Prior, Digests
<1>4. y1 \in JobRecords /\ y1.step = "write" /\ SameEmission(job[j], y1) /\ y1.ok = FALSE
  <2>1. "write" \in JobSteps
    BY DEF JobSteps
  <2> QED BY <1>0, <2>1, StepTo
<1> HIDE DEF t, seen, y1
<1>5. /\ y \in JobRecords /\ y.step = "write" /\ y.ok = FALSE /\ y.seen = seen
      /\ y.todo = y1.todo /\ y.phase = y1.phase /\ y.verdict = y1.verdict /\ y.basis = y1.basis
      /\ y.listed = y1.listed /\ y.noted = y1.noted /\ y.cut = y1.cut
  BY <1>3, <1>4, JobField
<1> HIDE DEF y
<1>6. SameEmission(job[j], y) /\ NextBinding(y) = t
  BY <1>2, <1>4, <1>5 DEF NextBinding, SameEmission
<1>7. Prior(y.seen, digest[NextBinding(y)])
  BY <1>3, <1>5, <1>6
<1>8. JobFits(j, y, digest, Bindings, announced)
  BY <1>0, <1>2, <1>5, <1>6, <1>7 DEF JobFits, SameEmission
<1>9. Earned(y, archive, report, dueFrom)
  BY <1>0, <1>6, SameVerdict DEF SameEmission
<1>10. job[j].cut => y.cut
  BY <1>6 DEF SameEmission
<1>11. JobFits(j, y, digest', Bindings, announced)
  BY <1>0, <1>8
<1> QED BY <1>0, <1>1, <1>5, <1>9, <1>10, <1>11, JobState, JobGoesOn

(* The write of a job that has read: what it listed of the binding is      *)
(* there.                                                                  *)
LEMMA JobWrites ==
  ASSUME Inv, NEW j \in Jobs, job[j].step = "write", Unchanged(Current(j), job[j].seen),
         Write(Current(j), job[j].seen, Projected(Current(j), job[j].listed))
  PROVE  /\ digest' \in [Targets -> Digests] /\ Forward(digest, digest')
         /\ \A r \in job[j].listed : TargetOf[r] = Current(j) => Covered(r, digest')
<1> DEFINE t == Current(j)
           rows == Projected(t, job[j].listed)
<1>1. /\ job[j] \in JobRecords /\ job[j].todo # {} /\ job[j].todo \subseteq Targets
      /\ job[j].seen \in Digests /\ job[j].listed \subseteq Runs
      /\ Prior(job[j].seen, digest[NextBinding(job[j])])
  BY JobState DEF JobFits, JobRecords
<1>2. t \in Targets /\ Prior(job[j].seen, digest[t])
  BY <1>1 DEF Current, NextBinding
<1>3. \A k : ReportRow(k) \in RowStates \ {"none"}
  BY DEF ReportRow, RowStates
<1>4. /\ rows \in [Runs -> RowStates]
      /\ \A r \in job[j].listed : TargetOf[r] = t => rows[r] # "none"
  BY <1>1, <1>3 DEF Projected, RowStates
<1>5. Write(t, job[j].seen, rows) /\ Unchanged(t, job[j].seen)
  OBVIOUS
<1> HIDE DEF rows, t
<1>6. /\ digest' \in [Targets -> Digests] /\ Forward(digest, digest')
      /\ \A q \in Runs : rows[q] # "none" => digest'[t].rows[q] # "none"
  BY <1>1, <1>2, <1>4, <1>5, JobState, WriteForward
<1> QED BY <1>1, <1>4, <1>6 DEF Covered, t

LEMMA WriteDigestHolds ==
  ASSUME Inv, NEW j \in Jobs, WriteDigest(j)
  PROVE  Inv'
<1>0. /\ UNCHANGED <<archive, report, opener, cyc, dueFrom, closed, announced, heldBy>>
      /\ job[j].step = "write" /\ job[j] \in JobRecords /\ job[j].ok = FALSE
      /\ JobFits(j, job[j], digest, Bindings, announced) /\ job[j].todo # {} /\ job[j].todo \subseteq Targets
      /\ Earned(job[j], archive, report, dueFrom)
  BY JobState DEF WriteDigest, JobAt, JobFits, JobRecords
<1> DEFINE t == Current(j)
<1>1. t = NextBinding(job[j]) /\ t \in job[j].todo
  BY <1>0 DEF Current, NextBinding
<1>2. CASE /\ Unchanged(t, job[j].seen) /\ Write(t, job[j].seen, Projected(t, job[j].listed))
           /\ Become(j, [job[j] EXCEPT !.step = "list", !.todo = @ \ {t}, !.seen = NoDigest,
                                       !.attempt = 0])
  <2> DEFINE todo == job[j].todo \ {t}
             y1 == [job[j] EXCEPT !.step = "list"]
             y2 == [y1 EXCEPT !.todo = todo]
             y3 == [y2 EXCEPT !.seen = NoDigest]
             y == [y3 EXCEPT !.attempt = 0]
  <2>1. Become(j, y)
    BY <1>2
  <2>2. /\ digest' \in [Targets -> Digests] /\ Forward(digest, digest')
        /\ \A r \in job[j].listed : TargetOf[r] = t => Covered(r, digest')
    BY <1>0, <1>2, JobWrites
  <2>3. todo \in SUBSET Targets /\ \A u : u \in job[j].todo => u \in todo \/ u = t
    BY <1>0
  <2> HIDE DEF t, todo
  <2>4. y1 \in JobRecords /\ y1.step = "list" /\ SameEmission(job[j], y1) /\ y1.ok = FALSE
    <3>1. "list" \in JobSteps
      BY DEF JobSteps
    <3> QED BY <1>0, <3>1, StepTo
  <2> HIDE DEF y1
  <2>5. /\ y2 \in JobRecords /\ y2.step = "list" /\ y2.ok = FALSE /\ y2.todo = todo
        /\ y2.phase = y1.phase /\ y2.verdict = y1.verdict /\ y2.basis = y1.basis
        /\ y2.listed = y1.listed /\ y2.noted = y1.noted /\ y2.cut = y1.cut
    BY <2>3, <2>4, JobField
  <2> HIDE DEF y2
  <2>6. /\ y3 \in JobRecords /\ y3.step = "list" /\ y3.ok = FALSE /\ y3.todo = todo
        /\ y3.phase = y1.phase /\ y3.verdict = y1.verdict /\ y3.basis = y1.basis
        /\ y3.listed = y1.listed /\ y3.noted = y1.noted /\ y3.cut = y1.cut
    BY <2>5, NothingType, JobField
  <2> HIDE DEF y3
  <2>7. /\ y \in JobRecords /\ y.step = "list" /\ y.ok = FALSE /\ y.todo = todo
        /\ y.phase = y1.phase /\ y.verdict = y1.verdict /\ y.basis = y1.basis
        /\ y.listed = y1.listed /\ y.noted = y1.noted /\ y.cut = y1.cut
    BY <2>6, JobField
  <2> HIDE DEF y
  <2>8. PICK E, B, A : E = digest' /\ B = Bindings /\ A = announced
    OBVIOUS
  <2>9. JobFits(j, job[j], E, B, A)
    BY <1>0, <2>2, <2>8, JobState, JobStands
  <2>10. \A r \in y.listed : TargetOf[r] \notin y.todo => Covered(r, E)
    BY <2>2, <2>3, <2>4, <2>7, <2>8, <2>9 DEF JobFits, SameEmission
  <2>11. y.phase = "candidates" => \A u \in Targets \ y.todo : B[u] \subseteq y.listed
    BY <1>0, <1>1, <2>3, <2>4, <2>7, <2>9 DEF JobFits, SameEmission
  <2>15. y.noted => j \in A \/ y.cut
    BY <2>4, <2>7, <2>9 DEF JobFits, SameEmission
  <2>16. job[j].cut => y.cut
    BY <2>4, <2>7 DEF SameEmission
  <2>12. JobFits(j, y, E, B, A)
    BY <2>7, <2>10, <2>11, <2>15 DEF JobFits
  <2>13. JobFits(j, y, digest', Bindings, announced)
    BY <2>8, <2>12
  <2>14. Earned(y, archive, report, dueFrom)
    BY <1>0, <2>4, <2>7, SameVerdict DEF SameEmission
  <2> QED BY <1>0, <2>1, <2>2, <2>7, <2>13, <2>14, <2>16, JobState, JobGoesOn
<1> DEFINE z1 == [job[j] EXCEPT !.step = "read"]
           z2 == [z1 EXCEPT !.seen = NoDigest]
           z3 == [z2 EXCEPT !.attempt = job[j].attempt + 1]
           w1 == [z3 EXCEPT !.step = "failed"]
           w2 == [w1 EXCEPT !.ok = FALSE]
<1>3. z1 \in JobRecords /\ z1.step = "read" /\ SameEmission(job[j], z1) /\ z1.ok = FALSE
  <2>1. "read" \in JobSteps
    BY DEF JobSteps
  <2> QED BY <1>0, <2>1, StepTo
<1>4. CASE UNCHANGED digest /\ (Become(j, z3) \/ Become(j, w2))
  <2> HIDE DEF t, z1
  <2>1. z2 \in JobRecords /\ z2.step = "read" /\ SameEmission(job[j], z2) /\ z2.ok = FALSE
    BY <1>3, NothingType, JobField DEF SameEmission
  <2> HIDE DEF z2
  <2>2. z3 \in JobRecords /\ z3.step = "read" /\ SameEmission(job[j], z3) /\ z3.ok = FALSE
    <3>1. job[j].attempt + 1 \in Nat
      BY <1>0 DEF JobRecords
    <3> QED BY <2>1, <3>1, JobField DEF SameEmission
  <2> HIDE DEF z3
  <2>3. w1 \in JobRecords /\ w1.step = "failed" /\ SameEmission(z3, w1)
    <3>1. "failed" \in JobSteps
      BY DEF JobSteps
    <3> QED BY <2>2, <3>1, StepTo
  <2> HIDE DEF w1
  <2>4. w2 \in JobRecords /\ w2.step = "failed" /\ SameEmission(w1, w2) /\ w2.ok = FALSE
    BY <2>3, JobField DEF SameEmission
  <2> HIDE DEF w2
  <2>5. SameEmission(job[j], w2)
    BY <2>2, <2>3, <2>4 DEF SameEmission
  <2>6. NextBinding(z3) = t
    BY <1>1, <2>2 DEF NextBinding, SameEmission
  <2>7. JobFits(j, z3, digest, Bindings, announced)
    BY <1>0, <1>1, <2>2, <2>6 DEF JobFits, SameEmission
  <2>8. JobFits(j, w2, digest, Bindings, announced)
    BY <1>0, <2>4, <2>5, FailedFits
  <2>9. Earned(z3, archive, report, dueFrom) /\ Earned(w2, archive, report, dueFrom)
    BY <1>0, <2>2, <2>5, SameVerdict DEF SameEmission
  <2>10. (job[j].cut => z3.cut) /\ (job[j].cut => w2.cut)
    BY <2>2, <2>5 DEF SameEmission
  <2>11. JobFits(j, z3, digest', Bindings, announced) /\ JobFits(j, w2, digest', Bindings, announced)
    BY <1>4, <2>7, <2>8
  <2> QED BY <1>0, <1>4, <2>2, <2>4, <2>9, <2>10, <2>11, JobState, JobGoesOn
<1>5. [job[j] EXCEPT !.step = "read", !.seen = NoDigest, !.attempt = @ + 1] = z3
  BY <1>0 DEF JobRecords
<1>6. [z3 EXCEPT !.step = "failed", !.ok = FALSE] = w2
  OBVIOUS
<1> HIDE DEF z3, w2
<1>7. \/ Become(j, z3) /\ UNCHANGED digest
      \/ Become(j, w2) /\ UNCHANGED digest
      \/ /\ Unchanged(t, job[j].seen) /\ Write(t, job[j].seen, Projected(t, job[j].listed))
         /\ Become(j, [job[j] EXCEPT !.step = "list", !.todo = @ \ {t}, !.seen = NoDigest,
                                     !.attempt = 0])
  BY <1>5, <1>6 DEF WriteDigest
<1> QED BY <1>2, <1>4, <1>7

LEMMA DigestStoreRaisesHolds ==
  ASSUME Inv, NEW j \in Jobs, DigestStoreRaises(j)
  PROVE  Inv'
<1>1. /\ UNCHANGED <<archive, report, opener, cyc, dueFrom, closed, announced, heldBy>>
      /\ job[j].step \in {"read", "write"}
      /\ Become(j, [job[j] EXCEPT !.step = "failed", !.ok = FALSE])
  BY DEF DigestStoreRaises
<1>2. digest' \in [Targets -> Digests] /\ Forward(digest, digest')
  BY JobState, JobWrites DEF DigestStoreRaises, JobAt
<1> QED BY <1>1, <1>2, FailedHolds

-----------------------------------------------------------------------------
(* After the emission                                                      *)

(* The workflow goes on to its candidates step.                            *)
LEMMA CandidatesHolds ==
  ASSUME Inv, NEW j \in Jobs, job[j].step # "idle", NEW x \in JobRecords, Become(j, x),
         x.step = "list", x.todo = Targets, x.listed = {}, x.ok = FALSE, x.verdict = "none",
         opener' \in [Targets -> Actors \cup {"nobody"}], Opens(j, FALSE),
         announced' \in {announced, announced \cup {j}}, job[j].cut => x.cut,
         job[j].step = "send" => j \in announced' \/ x.cut, x.noted => j \in announced' \/ x.cut,
         UNCHANGED <<archive, report, digest, cyc, dueFrom, closed, heldBy>>
  PROVE  Inv'
<1>1. PICK A : A = announced'
  OBVIOUS
<1>2. JobFits(j, x, digest, Bindings, A) /\ Earned(x, archive, report, dueFrom)
  BY <1>1, UnjudgedEarned DEF JobFits
<1>3. JobFits(j, x, digest', Bindings, announced')
  BY <1>1, <1>2
<1>4. Opens(j, x.step = "send") /\ x.step # "idle"
  BY DEF Opens
<1>5. closed /\ digest' \in [Targets -> Digests] /\ Forward(digest, digest')
  BY JobState
<1> QED BY <1>2, <1>3, <1>4, <1>5, JobMoves

(* The same for a step that says nothing and keeps what the job noted.     *)
LEMMA GoesOnToCandidates ==
  ASSUME Inv, NEW j \in Jobs, job[j].step \notin {"idle", "send"}, Become(j, Candidates(job[j])),
         opener' \in [Targets -> Actors \cup {"nobody"}], Opens(j, FALSE),
         UNCHANGED <<archive, report, digest, cyc, dueFrom, closed, announced, heldBy>>
  PROVE  Inv'
<1>1. PICK x : x = Candidates(job[j])
  OBVIOUS
<1>2. /\ x \in JobRecords /\ x.step = "list" /\ x.todo = Targets /\ x.listed = {} /\ x.ok = FALSE
      /\ x.verdict = "none" /\ x.noted = job[j].noted /\ x.cut = job[j].cut
  BY <1>1, JobState, CandidatesFields
<1>3. x.noted => j \in announced' \/ x.cut
  BY <1>2, JobState DEF JobFits
<1> QED BY <1>1, <1>2, <1>3, CandidatesHolds

LEMMA SendHolds ==
  ASSUME Inv, NEW j \in Jobs, job[j].step \in {"emitted", "failed"},
         Become(j, [job[j] EXCEPT !.step = "send"]),
         opener' \in [Targets -> Actors \cup {"nobody"}], Opens(j, TRUE),
         UNCHANGED <<archive, report, digest, cyc, dueFrom, closed, announced, heldBy>>
  PROVE  Inv'
<1>1. PICK y : y = [job[j] EXCEPT !.step = "send"]
  OBVIOUS
<1>2. y \in JobRecords /\ y.step = "send" /\ SameEmission(job[j], y) /\ y.ok = job[j].ok
  <2>1. "send" \in JobSteps
    BY DEF JobSteps
  <2>2. job[j] \in JobRecords
    BY JobState
  <2> QED BY <1>1, <2>1, <2>2, StepTo
<1>3. JobFits(j, y, digest, Bindings, announced)
  BY <1>2, JobState, FailedFits
<1>4. Earned(y, archive, report, dueFrom)
  BY <1>2, JobState, SameVerdict DEF SameEmission
<1>5. JobFits(j, y, digest', Bindings, announced') /\ y.step # "idle"
  BY <1>2, <1>3
<1>6. (job[j].cut => y.cut) /\ Opens(j, y.step = "send")
  BY <1>2 DEF SameEmission, Opens
<1>7. closed /\ digest' \in [Targets -> Digests] /\ Forward(digest, digest')
  BY JobState
<1> QED BY <1>1, <1>2, <1>4, <1>5, <1>6, <1>7, JobMoves

LEMMA ConfirmHolds ==
  ASSUME Inv, NEW j \in Jobs, Confirm(j)
  PROVE  Inv'
<1>1. /\ UNCHANGED <<archive, report, digest, cyc, dueFrom, closed, announced, heldBy>>
      /\ job[j].step = "emitted"
  BY DEF Confirm, JobAt
<1>2. PICK T \in SUBSET Targets : opener' = [t \in Targets |-> IF t \in T THEN "nobody" ELSE opener[t]]
  BY DEF Confirm
<1>3. opener' \in [Targets -> Actors \cup {"nobody"}] /\ Opens(j, FALSE) /\ Opens(j, TRUE)
  BY <1>2, JobState DEF Opens
<1>4. CASE Become(j, Candidates(job[j]))
  BY <1>1, <1>3, <1>4, GoesOnToCandidates
<1>5. CASE Become(j, [job[j] EXCEPT !.step = "send"])
  BY <1>1, <1>3, <1>5, SendHolds
<1> QED BY <1>4, <1>5 DEF Confirm

LEMMA ReserveHolds ==
  ASSUME Inv, NEW j \in Jobs, Reserve(j)
  PROVE  Inv'
<1>1. /\ UNCHANGED <<archive, report, digest, cyc, dueFrom, closed, announced, heldBy>>
      /\ job[j].step = "failed"
  BY DEF Reserve, JobAt
<1>2. CASE Become(j, Candidates(job[j])) /\ UNCHANGED opener
  BY <1>1, <1>2, JobState, GoesOnToCandidates
<1>3. ASSUME NEW T \in SUBSET Targets, Become(j, [job[j] EXCEPT !.step = "send"]),
             opener' = [t \in Targets |-> IF t \in T /\ ~Active(t) THEN j ELSE opener[t]]
      PROVE  Inv'
  <2>1. opener' \in [Targets -> Actors \cup {"nobody"}] /\ Opens(j, TRUE)
    BY <1>3, JobState DEF Opens, Actors
  <2> QED BY <1>1, <1>3, <2>1, SendHolds
<1> QED BY <1>2, <1>3 DEF Reserve

LEMMA AttendHolds ==
  ASSUME Inv, NEW j \in Jobs, Attend(j)
  PROVE  Inv'
BY JobState, GoesOnToCandidates DEF Attend

(* A job ends with what it emitted, or having failed.                      *)
LEMMA EndHolds ==
  ASSUME Inv, NEW j \in Jobs, job[j].step \in {"emitted", "failed", "send"},
         NEW x \in JobRecords, Become(j, x), x.step = "done", SameEmission(job[j], x),
         x.ok => job[j].ok, announced' \in {announced, announced \cup {j}},
         job[j].step = "send" => j \in announced',
         x.phase = "candidates" /\ ~x.ok => j \in announced' \/ (x.noted /\ x.cut),
         UNCHANGED <<archive, report, digest, opener, cyc, dueFrom, closed, heldBy>>
  PROVE  Inv'
<1>1. PICK A : A = announced'
  OBVIOUS
<1>2. JobFits(j, job[j], digest, Bindings, A)
  <2>1. PICK S : S = announced
    OBVIOUS
  <2>2. S \subseteq A /\ JobFits(j, job[j], digest, Bindings, S)
    BY <1>1, <2>1, JobState
  <2> QED BY <2>2, JobState, JobStands
<1>3. JobFits(j, x, digest, Bindings, A)
  BY <1>1, <1>2 DEF JobFits, SameEmission
<1>4. Earned(x, archive, report, dueFrom)
  BY JobState, SameVerdict DEF SameEmission
<1>5. JobFits(j, x, digest', Bindings, announced')
  BY <1>1, <1>3
<1>6. /\ job[j].cut => x.cut
      /\ opener' \in [Targets -> Actors \cup {"nobody"}] /\ Opens(j, x.step = "send")
  BY JobState DEF SameEmission
<1>7. closed /\ digest' \in [Targets -> Digests] /\ Forward(digest, digest')
  BY JobState
<1> QED BY <1>4, <1>5, <1>6, <1>7, JobMoves

LEMMA SendCoverageHolds ==
  ASSUME Inv, NEW j \in Jobs, SendCoverage(j)
  PROVE  Inv'
<1>1. /\ UNCHANGED <<archive, report, digest, opener, cyc, dueFrom, closed, heldBy>>
      /\ job[j].step = "send" /\ job[j] \in JobRecords /\ announced' = announced \cup {j}
  BY JobState DEF SendCoverage, JobAt
<1>2. ASSUME NEW noted \in BOOLEAN, Become(j, [Candidates(job[j]) EXCEPT !.noted = noted])
      PROVE  Inv'
  <2> DEFINE y == Candidates(job[j])
             x == [y EXCEPT !.noted = noted]
  <2>1. /\ y \in JobRecords /\ y.step = "list" /\ y.todo = Targets /\ y.listed = {} /\ y.ok = FALSE
        /\ y.verdict = "none" /\ y.cut = job[j].cut
    BY <1>1, CandidatesFields
  <2>2. Become(j, x)
    BY <1>2
  <2> HIDE DEF y
  <2>3. /\ x \in JobRecords /\ x.step = "list" /\ x.todo = Targets /\ x.listed = {} /\ x.ok = FALSE
        /\ x.verdict = "none" /\ x.cut = job[j].cut
    BY <2>1, JobField
  <2> HIDE DEF x
  <2>4. opener' \in [Targets -> Actors \cup {"nobody"}] /\ Opens(j, FALSE)
    BY <1>1, JobState
  <2> QED BY <1>1, <2>2, <2>3, <2>4, CandidatesHolds
<1>3. CASE Become(j, [job[j] EXCEPT !.step = "done"])
  <2>1. PICK x : x = [job[j] EXCEPT !.step = "done"]
    OBVIOUS
  <2>2. x \in JobRecords /\ x.step = "done" /\ SameEmission(job[j], x) /\ x.ok = job[j].ok
    <3>1. "done" \in JobSteps
      BY DEF JobSteps
    <3> QED BY <1>1, <2>1, <3>1, StepTo
  <2> QED BY <1>1, <1>3, <2>1, <2>2, EndHolds
<1> QED BY <1>2, <1>3 DEF SendCoverage

LEMMA ConcludeHolds ==
  ASSUME Inv, NEW j \in Jobs, Conclude(j)
  PROVE  Inv'
<1>1. /\ UNCHANGED <<archive, report, digest, opener, cyc, dueFrom, closed, announced, heldBy>>
      /\ job[j].step \in {"emitted", "failed"} /\ job[j] \in JobRecords
      /\ job[j].step = "emitted" => job[j].ok
      /\ job[j].noted => j \in announced \/ job[j].cut
  BY JobState DEF Conclude, JobAt, JobFits
<1>2. CASE Become(j, [job[j] EXCEPT !.step = "send"])
  BY <1>1, <1>2, JobState, SendHolds
<1>3. CASE /\ Become(j, [job[j] EXCEPT !.step = "done"])
           /\ job[j].step = "emitted" \/ job[j].noted
  <2>1. PICK x : x = [job[j] EXCEPT !.step = "done"]
    OBVIOUS
  <2>2. x \in JobRecords /\ x.step = "done" /\ SameEmission(job[j], x) /\ x.ok = job[j].ok
    <3>1. "done" \in JobSteps
      BY DEF JobSteps
    <3> QED BY <1>1, <2>1, <3>1, StepTo
  <2>3. ~x.ok => j \in announced' \/ (x.noted /\ x.cut)
    BY <1>1, <1>3, <2>2 DEF SameEmission
  <2> QED BY <1>1, <1>3, <2>1, <2>2, <2>3, EndHolds
<1> QED BY <1>2, <1>3 DEF Conclude, JobAt

LEMMA PublishHolds ==
  ASSUME Inv, NEW j \in Jobs, Publish(j)
  PROVE  Inv'
<1>1. /\ UNCHANGED <<archive, report, digest, opener, cyc, dueFrom, closed, announced, heldBy>>
      /\ job[j].step \in {"emitted", "failed"} /\ job[j] \in JobRecords /\ job[j].phase = "publish"
  BY JobState DEF Publish
<1>2. PICK timely \in BOOLEAN : Become(j, [job[j] EXCEPT !.step = "done", !.ok = @ /\ timely])
  BY DEF Publish
<1>3. PICK ok \in BOOLEAN : ok = (job[j].ok /\ timely)
  OBVIOUS
<1> DEFINE y == [job[j] EXCEPT !.step = "done"]
           x == [y EXCEPT !.ok = ok]
<1>4. Become(j, x)
  BY <1>2, <1>3
<1>5. y \in JobRecords /\ y.step = "done" /\ SameEmission(job[j], y)
  <2>1. "done" \in JobSteps
    BY DEF JobSteps
  <2> QED BY <1>1, <2>1, StepTo
<1> HIDE DEF y
<1>6. x \in JobRecords /\ x.step = "done" /\ SameEmission(job[j], x) /\ x.ok = ok
  BY <1>5, JobField DEF SameEmission
<1> HIDE DEF x
<1>7. x.phase # "candidates" /\ (x.ok => job[j].ok)
  BY <1>1, <1>3, <1>6 DEF SameEmission
<1> QED BY <1>1, <1>4, <1>6, <1>7, EndHolds

(* A job that ends before it emitted anything has nothing to show for it.  *)
LEMMA AbandonedHolds ==
  ASSUME Inv, NEW j \in Jobs, job[j].step # "idle", NEW step \in {"refused", "stopped"},
         NEW cut \in BOOLEAN, Become(j, [IdleJob EXCEPT !.step = step, !.cut = cut]),
         job[j].cut => cut, job[j].step = "send" => cut,
         UNCHANGED <<archive, report, digest, opener, cyc, dueFrom, closed, announced, heldBy>>
  PROVE  Inv'
<1> DEFINE y == [IdleJob EXCEPT !.step = step]
           x == [y EXCEPT !.cut = cut]
<1>1. Become(j, x)
  OBVIOUS
<1>2. y \in JobRecords /\ y.step = step /\ SameEmission(IdleJob, y) /\ y.ok = IdleJob.ok
  <2>1. step \in JobSteps
    BY DEF JobSteps
  <2> QED BY <2>1, NothingType, StepTo
<1> HIDE DEF y
<1>3. /\ x \in JobRecords /\ x.step = step /\ x.ok = IdleJob.ok /\ x.cut = cut
      /\ x.listed = y.listed /\ x.phase = y.phase /\ x.verdict = y.verdict /\ x.noted = y.noted
  BY <1>2, JobField
<1> HIDE DEF x
<1>4. /\ x.listed = {} /\ x.ok = FALSE /\ x.phase = "heartbeat" /\ x.verdict = "none"
      /\ x.noted = FALSE
  BY <1>2, <1>3 DEF SameEmission, IdleJob
<1>5. \A D, B, A : JobFits(j, x, D, B, A)
  BY <1>3, <1>4 DEF JobFits
<1>6. Earned(x, archive, report, dueFrom)
  BY <1>4, UnjudgedEarned
<1>7. JobFits(j, x, digest', Bindings, announced') /\ x.step # "idle"
  BY <1>3, <1>5
<1>8. /\ opener' \in [Targets -> Actors \cup {"nobody"}] /\ Opens(j, x.step = "send")
      /\ closed /\ digest' \in [Targets -> Digests] /\ Forward(digest, digest')
  BY JobState
<1> QED BY <1>1, <1>3, <1>6, <1>7, <1>8, JobMoves

LEMMA RefusedHolds ==
  ASSUME Inv, NEW j \in Jobs, Refused(j)
  PROVE  Inv'
<1>1. job[j].cut \in BOOLEAN
  BY JobState DEF JobRecords
<1> QED BY <1>1, AbandonedHolds DEF Refused, JobAt

LEMMA InterruptedHolds ==
  ASSUME Inv, NEW j \in Jobs, Interrupted(j)
  PROVE  Inv'
<1>1. /\ UNCHANGED <<archive, report, digest, opener, cyc, dueFrom, closed, announced, heldBy>>
      /\ job[j].step # "idle" /\ job[j] \in JobRecords
  BY JobState DEF Interrupted
<1>2. CASE Become(j, [IdleJob EXCEPT !.step = "stopped", !.cut = TRUE])
  BY <1>1, <1>2, AbandonedHolds
<1>3. ASSUME NEW noted \in BOOLEAN,
             Become(j, [Candidates(job[j]) EXCEPT !.noted = noted, !.cut = TRUE])
      PROVE  Inv'
  <2> DEFINE y1 == Candidates(job[j])
             y2 == [y1 EXCEPT !.noted = noted]
             x == [y2 EXCEPT !.cut = TRUE]
  <2>1. Become(j, x)
    BY <1>3
  <2>2. /\ y1 \in JobRecords /\ y1.step = "list" /\ y1.todo = Targets /\ y1.listed = {}
        /\ y1.ok = FALSE /\ y1.verdict = "none"
    BY <1>1, CandidatesFields
  <2> HIDE DEF y1
  <2>3. /\ y2 \in JobRecords /\ y2.step = "list" /\ y2.todo = Targets /\ y2.listed = {}
        /\ y2.ok = FALSE /\ y2.verdict = "none"
    BY <2>2, JobField
  <2> HIDE DEF y2
  <2>4. /\ x \in JobRecords /\ x.step = "list" /\ x.todo = Targets /\ x.listed = {}
        /\ x.ok = FALSE /\ x.verdict = "none" /\ x.cut = TRUE
    BY <2>3, JobField
  <2> HIDE DEF x
  <2>5. opener' \in [Targets -> Actors \cup {"nobody"}] /\ Opens(j, FALSE)
    BY <1>1, JobState
  <2> QED BY <1>1, <2>1, <2>4, <2>5, CandidatesHolds
<1> QED BY <1>2, <1>3 DEF Interrupted, JobAt

-----------------------------------------------------------------------------
LEMMA InvBegins == Init => Inv
<1> SUFFICES ASSUME Init PROVE Inv
  OBVIOUS
<1>1. TypeOK
  <2>1. archive \in Seq(Runs)
    BY EmptySeq DEF Init
  <2>2. cyc \in [Runs -> Cycles]
    BY NothingType DEF Init, Cycles, CycleSteps, Kinds
  <2> QED BY <2>1, <2>2, NothingType DEF Init, TypeOK
<1>2. Idles
  BY DEF Init, Idles, IdleJob
<1>3. CyclesFit
  BY DEF Init, CyclesFit, CycleFits
<1>4. \A j \in Jobs : /\ JobFits(j, job[j], digest, Bindings, announced)
                      /\ Earned(job[j], archive, report, dueFrom)
  BY IdleFits DEF Init
<1>5. OpenersAnswer
  BY DEF Init, OpenersAnswer
<1> QED BY <1>1, <1>2, <1>3, <1>4, <1>5 DEF Inv, JobsFit

LEMMA InvHolds == Inv /\ [Next]_vars => Inv'
<1> SUFFICES ASSUME Inv, [Next]_vars PROVE Inv'
  OBVIOUS
<1>1. ASSUME NEW r \in Runs, Cycle(r) PROVE Inv'
  BY <1>1, ReportHolds, ReadCandidatesHolds, WriteCandidateHolds, CandidateStoreRaisesHolds,
     RecoverHolds, CoverageHolds, SendFailureHolds, KilledHolds DEF Cycle
<1>2. ASSUME NEW j \in Jobs, Job(j) PROVE Inv'
  BY <1>2, StartJobHolds, EvaluateHolds, ListHolds, ReadDigestHolds, WriteDigestHolds,
     DigestStoreRaisesHolds, ConfirmHolds, ReserveHolds, AttendHolds, SendCoverageHolds,
     RefusedHolds, ConcludeHolds, PublishHolds, InterruptedHolds DEF Job
<1>3. CASE UNCHANGED vars
  BY <1>3, DayStands DEF vars, Inv, TypeOK
<1> QED BY <1>1, <1>2, <1>3, CloseHolds, DueAtHolds DEF Next

LEMMA Holds == Spec => []Inv
<1> QED BY InvBegins, InvHolds, PTL DEF Spec

(* Whoever writes a candidate object merges what is in it.                 *)
LEMMA OnlyForward == Inv /\ Next => Forward(digest, digest')
<1> SUFFICES ASSUME Inv, Next PROVE Forward(digest, digest')
  OBVIOUS
<1>1. Forward(digest, digest)
  BY StandsStill DEF Inv, TypeOK
<1>2. ASSUME NEW r \in Runs, WriteCandidate(r) \/ CandidateStoreRaises(r)
      PROVE  Forward(digest, digest')
  BY <1>1, <1>2, CycleWrites DEF WriteCandidate, CandidateStoreRaises
<1>3. ASSUME NEW j \in Jobs, WriteDigest(j) \/ DigestStoreRaises(j)
      PROVE  Forward(digest, digest')
  BY <1>1, <1>3, JobWrites DEF WriteDigest, DigestStoreRaises, JobAt
<1>4. CASE UNCHANGED digest
  BY <1>1, <1>4
<1> QED BY <1>2, <1>3, <1>4 DEF Next, Close, DueAt, Cycle, Job, Report, ReadCandidates, Recover,
           Coverage, SendFailure, Killed, StartJob, Evaluate, List, ReadDigest, Confirm, Reserve,
           Attend, SendCoverage, Refused, Conclude, Publish, Interrupted

(* Objects, cycles and jobs have the fields the code gives them.           *)
THEOREM TypeCorrect == Spec => []TypeOK
<1> QED BY Holds, PTL DEF Inv

(* The merge loop of notification_digest_archive and its generation        *)
(* precondition: a run that is in the digest stays in it, and what was not *)
(* ok never becomes ok again, whoever merges last or at the same time.     *)
THEOREM DigestOnlyWorsens == Spec => CandidatesOnlyWorsen
<1>1. ASSUME Inv, [Next]_vars, NEW r \in Runs
      PROVE  Worse(digest[TargetOf[r]].rows[r], digest'[TargetOf[r]].rows[r])
  <2>1. Forward(digest, digest')
    BY <1>1, OnlyForward, StandsStill DEF vars, Inv, TypeOK
  <2> QED BY <2>1 DEF Forward
<1>2. Inv /\ [Next]_vars =>
        [\A r \in Runs :
           LET old == digest[TargetOf[r]].rows[r]  new == digest'[TargetOf[r]].rows[r]
           IN  /\ old # "none" => new # "none"
               /\ old \in {"alert", "sourceAlert", "conflict"} => new # "ok"]_vars
  BY <1>1 DEF Worse
<1> QED BY <1>2, Holds, PTL DEF Spec, CandidatesOnlyWorsen

(* _run_strategy_cycle_with_report and notify_cycle: a routine cycle that  *)
(* ran to its end is in the digest, or attempted the coverage message, or  *)
(* was kept from it by an incident whose opener attempts that message or   *)
(* was stopped first, whichever access to the store or the marker raised.  *)
THEOREM RoutineCyclesAccountedFor == Spec => []RoutineCycleIsAccountedFor
<1> QED BY Holds, PartsOfInv, PTL

(* main of execution_report_heartbeat: a day is called healthy only when   *)
(* the newest report of every due target is a quiet one, written since it  *)
(* was due, whatever could not be read.                                    *)
THEOREM HealthyEarned == Spec => []HealthyIsEarned
<1> QED BY Holds, PartsOfInv, PTL

(* emit_unified_digest_candidates and the publisher: what a job listed and *)
(* emitted is in the digest, and when the candidates step fails, the       *)
(* coverage message was attempted, or the heartbeat step that noted it was *)
(* stopped before it sent.                                                 *)
THEOREM EmissionsAccountedFor == Spec => []EmissionIsAccountedFor
<1> QED BY Holds, PartsOfInv, PTL
=============================================================================
