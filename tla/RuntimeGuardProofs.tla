------------------------ MODULE RuntimeGuardProofs -------------------------
(***************************************************************************)
(* The deployment and the runtime guard, for any commits, configurations,  *)
(* services, logs and bounds: what the scripts report is true, the         *)
(* monitors that a job calls stay called, and no failure is silenced.      *)
(***************************************************************************)
EXTENDS RuntimeGuard, FiniteSetTheorems, SequenceTheorems, WellFoundedInduction, TLAPS

USE DeploymentAssumption, GuardAssumption

-----------------------------------------------------------------------------
(* Revisions                                                               *)

(* The latest of a non-empty set of revisions is one of them.              *)
LEMMA LatestIsGreatest ==
  ASSUME NEW n \in Nat, NEW S \in SUBSET (1 .. n), S # {}
  PROVE  Latest(S) \in S /\ \A j \in S : j <= Latest(S)
<1> DEFINE R == OpToRel(<, Nat)
           T == {n - i : i \in S}
<1>1. T \subseteq Nat /\ T # {}
  <2>1. \A i \in S : i \in Nat /\ i <= n /\ n - i \in Nat
    OBVIOUS
  <2>2. PICK i \in S : TRUE
    OBVIOUS
  <2>3. n - i \in T
    BY <2>2
  <2> QED BY <2>1, <2>3
<1>2. IsWellFoundedOn(R, Nat)
  BY NatLessThanWellFounded
<1>3. \A x, y \in Nat : y < x => <<y, x>> \in R
  BY DEF OpToRel
<1> HIDE DEF R
<1>4. PICK x \in T : \A y \in T : <<y, x>> \notin R
  BY <1>1, <1>2, WFMin
<1>5. PICK i \in S : x = n - i
  BY <1>4
<1>6. \A j \in S : j <= i
  <2> SUFFICES ASSUME NEW j \in S, j > i PROVE FALSE
    OBVIOUS
  <2>1. n - j \in T /\ n - j \in Nat /\ n - j < x /\ x \in Nat
    BY <1>5
  <2> QED BY <1>3, <1>4, <2>1
<1> QED BY <1>6 DEF Latest

(* A revision of the sequence R, one that is ready, one of a commit.       *)
In(i, R) == i \in 1 .. Len(R)
ReadyIn(i, R) == In(i, R) /\ R[i].ready
CommitIn(i, R, c) == ReadyIn(i, R) /\ R[i].template.commit = c

(* Revisions are never removed: templates stay, what is ready stays ready. *)
Grows(R, S) ==
  /\ Len(R) <= Len(S)
  /\ \A i \in 1 .. Len(R) : S[i].template = R[i].template /\ (R[i].ready => S[i].ready)

LEMMA GrowthKeeps ==
  ASSUME NEW R \in Seq(Revisions), NEW S \in Seq(Revisions), Grows(R, S), NEW i, NEW c
  PROVE  /\ In(i, R) => In(i, S)
         /\ ReadyIn(i, R) => ReadyIn(i, S)
         /\ CommitIn(i, R, c) => CommitIn(i, S, c)
<1>1. Len(R) \in Nat /\ Len(S) \in Nat
  BY LenProperties
<1> QED BY <1>1 DEF Grows, In, ReadyIn, CommitIn

LEMMA ReadyRevisions ==
  ASSUME revisions \in Seq(Revisions)
  PROVE  /\ Created \in Nat /\ Ready \subseteq 1 .. Created
         /\ \A i : i \in Ready <=> ReadyIn(i, revisions)
         /\ \A i \in 1 .. Created : revisions[i] \in Revisions
BY LenProperties, ElementOfSeq DEF Created, Ready, ReadyIn, In

(* A new revision is the newest.                                           *)
LEMMA NewRevisionGrows ==
  ASSUME revisions \in Seq(Revisions), now \in 0 .. MaxTime,
         NEW t \in Templates, NEW ready \in BOOLEAN, NewRevision(t, ready)
  PROVE  /\ revisions' \in Seq(Revisions) /\ Grows(revisions, revisions')
         /\ Len(revisions') = Len(revisions) + 1
<1> DEFINE r == [template |-> t, ready |-> ready, created |-> now]
<1>1. r \in Revisions
  BY DEF Revisions
<1>2. revisions' = Append(revisions, r)
  BY DEF NewRevision
<1> HIDE DEF r
<1>3. Len(revisions) \in Nat
  BY LenProperties
<1> QED BY <1>1, <1>2, <1>3, AppendProperties DEF Grows

LEMMA BecomeReadyGrows ==
  ASSUME revisions \in Seq(Revisions), BecomeReady
  PROVE  /\ revisions' \in Seq(Revisions) /\ Grows(revisions, revisions')
         /\ Len(revisions') = Len(revisions)
<1>1. PICK i \in 1 .. Created : revisions' = [revisions EXCEPT ![i].ready = TRUE]
  BY DEF BecomeReady
<1> DEFINE r == [revisions[i] EXCEPT !.ready = TRUE]
<1>2. revisions[i] \in Revisions /\ i \in 1 .. Len(revisions) /\ Len(revisions) \in Nat
  BY ReadyRevisions, LenProperties DEF Created
<1>3. r \in Revisions /\ r.template = revisions[i].template /\ r.ready = TRUE
  BY <1>2 DEF Revisions
<1>4. revisions' = [revisions EXCEPT ![i] = r]
  BY <1>1
<1> HIDE DEF r
<1>5. /\ [revisions EXCEPT ![i] = r] \in Seq(Revisions)
      /\ Len([revisions EXCEPT ![i] = r]) = Len(revisions)
      /\ \A j \in 1 .. Len(revisions) :
           [revisions EXCEPT ![i] = r][j] = IF j = i THEN r ELSE revisions[j]
  BY <1>2, <1>3, ExceptSeq
<1>6. \A j \in 1 .. Len(revisions) : revisions'[j] = IF j = i THEN r ELSE revisions[j]
  BY <1>4, <1>5
<1> QED BY <1>2, <1>3, <1>4, <1>5, <1>6 DEF Grows

-----------------------------------------------------------------------------
(* Records                                                                 *)

Pcs == {"begin", "image", "readback", "env", "select", "shift", "poll", "jobs", "cleanup",
        "delete", "update", "verify", "ok", "failed"}
Lefts == Seq(Jobs \X JobStates)

(* What an action leaves of the workflow.                                  *)
SameRun(f, g) ==
  /\ g.kind = f.kind /\ g.sha = f.sha /\ g.migration = f.migration

LEMMA FlowField ==
  ASSUME NEW f \in Flows
  PROVE  /\ \A v \in Pcs : LET g == [f EXCEPT !.pc = v] IN
              /\ g \in Flows /\ SameRun(f, g) /\ g.pc = v /\ g.before = f.before
              /\ g.after = f.after /\ g.target = f.target /\ g.left = f.left
         /\ \A v \in SUBSET Views : LET g == [f EXCEPT !.before = v] IN
              /\ g \in Flows /\ SameRun(f, g) /\ g.pc = f.pc /\ g.before = v
              /\ g.after = f.after /\ g.target = f.target /\ g.left = f.left
         /\ \A v \in SUBSET Views : LET g == [f EXCEPT !.after = v] IN
              /\ g \in Flows /\ SameRun(f, g) /\ g.pc = f.pc /\ g.before = f.before
              /\ g.after = v /\ g.target = f.target /\ g.left = f.left
         /\ \A v \in Nat : LET g == [f EXCEPT !.target = v] IN
              /\ g \in Flows /\ SameRun(f, g) /\ g.pc = f.pc /\ g.before = f.before
              /\ g.after = f.after /\ g.target = v /\ g.left = f.left
         /\ \A v \in Lefts : LET g == [f EXCEPT !.left = v] IN
              /\ g \in Flows /\ SameRun(f, g) /\ g.pc = f.pc /\ g.before = f.before
              /\ g.after = f.after /\ g.target = f.target /\ g.left = v
<1>1. \A v \in Pcs : LET g == [f EXCEPT !.pc = v] IN
        /\ g \in Flows /\ SameRun(f, g) /\ g.pc = v /\ g.before = f.before
        /\ g.after = f.after /\ g.target = f.target /\ g.left = f.left
  BY DEF Flows, SameRun, Pcs
<1>2. \A v \in SUBSET Views : LET g == [f EXCEPT !.before = v] IN
        /\ g \in Flows /\ SameRun(f, g) /\ g.pc = f.pc /\ g.before = v
        /\ g.after = f.after /\ g.target = f.target /\ g.left = f.left
  BY DEF Flows, SameRun
<1>3. \A v \in SUBSET Views : LET g == [f EXCEPT !.after = v] IN
        /\ g \in Flows /\ SameRun(f, g) /\ g.pc = f.pc /\ g.before = f.before
        /\ g.after = v /\ g.target = f.target /\ g.left = f.left
  BY DEF Flows, SameRun
<1>4. \A v \in Nat : LET g == [f EXCEPT !.target = v] IN
        /\ g \in Flows /\ SameRun(f, g) /\ g.pc = f.pc /\ g.before = f.before
        /\ g.after = f.after /\ g.target = v /\ g.left = f.left
  BY DEF Flows, SameRun
<1>5. \A v \in Lefts : LET g == [f EXCEPT !.left = v] IN
        /\ g \in Flows /\ SameRun(f, g) /\ g.pc = f.pc /\ g.before = f.before
        /\ g.after = f.after /\ g.target = f.target /\ g.left = v
  BY DEF Flows, SameRun, Lefts
<1> QED BY <1>1, <1>2, <1>3, <1>4, <1>5
-----------------------------------------------------------------------------
(* The invariant of the deployment, in parts.                              *)

Clocked == now \in 0 .. MaxTime /\ quota \in Quotas /\ now + quota.ticks <= MaxTime

(* Requests reach a ready revision, and traffic is named to a ready one.   *)
Served ==
  /\ revisions \in Seq(Revisions)
  /\ traffic \in Traffic /\ (~traffic.latest => ReadyIn(traffic.revision, revisions))
  /\ status \in Traffic /\ ReadyIn(status.revision, revisions)
  /\ tagged \in 0 .. Created

(* How far the workflow has got with the jobs it has to set.               *)
Planned(f, j, many) ==
  /\ f.pc = "jobs" => IF f.migration
       THEN \/ f.left = JobPlan(TRUE)
            \/ f.left = <<<<"precheck", "live">>>> /\ j["probe"] = "live"
       ELSE \/ f.left = JobPlan(FALSE)
            \/ /\ f.left \in {<<<<"probe", "dormant">>, <<"precheck", "dormant">>>>,
                              <<<<"precheck", "dormant">>>>}
               /\ j["dispatcher"] = "live"
  /\ f.pc = "cleanup" => IF f.migration THEN \A d \in DirectJobs : j[d] = "live"
                                        ELSE j["dispatcher"] = "live"
  /\ f.pc = "delete" =>
       \/ f.left = <<<<"legacy", "absent">>>>
       \/ /\ f.left \in {<<<<"legacy", "absent">>, <<"dispatcher", "absent">>>>,
                         <<<<"dispatcher", "absent">>>>}
          /\ ~many /\ \A d \in DirectJobs : j[d] = "live"

Monitors ==
  /\ jobs \in [Jobs -> JobStates] /\ several \in BOOLEAN
  /\ Planned(flow, jobs, several)
  /\ jobs["dispatcher"] = "elsewhere" => several

(* What the script of workflow f reports of the service it read as v, when *)
(* the revisions are R.                                                    *)
Reported(v, f, R) ==
  /\ In(v.created, R) /\ ReadyIn(v.status.revision, R)
  /\ f.kind = "deploy" => CommitIn(v.status.revision, R, f.sha)
  /\ f.kind # "deploy" => \A b \in f.before :
       /\ v.status.revision = b.status.revision
       /\ v.created > b.created
       /\ f.kind = "facts" =>
            /\ R[v.created].template = [b.template EXCEPT !.facts = "desired",
                                          !.alias = R[v.created].template.alias]
            /\ R[v.created].template.commit = f.sha
       /\ f.kind = "stage" =>
            /\ R[v.created].template = [b.template EXCEPT !.image = Diagnostic]
            /\ v.tagged = v.created /\ v.jobs = b.jobs

(* What the workflow carries from one command to the next.                 *)
Honest(f, R) ==
  /\ f.kind = "deploy" /\ f.pc \in {"shift", "poll"} => CommitIn(f.target, R, f.sha)
  /\ f.kind # "deploy" /\ f.pc # "ok" => f.after = {}
  /\ f.pc = "update" => \A b \in f.before : b.created <= Len(R)
  /\ f.pc = "verify" => \A b \in f.before : b.created < Len(R)
  /\ \A v \in f.after : Reported(v, f, R)

Worked == flow \in Flows /\ Honest(flow, revisions)

DInv == Clocked /\ Served /\ Monitors /\ Worked

LEMMA PartsOfDInv == DInv => DeploymentTypeOK /\ ReportsAreTrue
<1> SUFFICES ASSUME DInv PROVE DeploymentTypeOK /\ ReportsAreTrue
  OBVIOUS
<1>1. DeploymentTypeOK
  BY ReadyRevisions DEF DInv, Clocked, Served, Monitors, Worked, DeploymentTypeOK
<1>2. ASSUME NEW v \in flow.after PROVE Reported(v, flow, revisions)
  BY <1>2 DEF DInv, Worked, Honest
<1>3. ReportsAreTrue
  BY <1>2 DEF ReportsAreTrue, Reported, CommitIn, ReadyIn
<1> QED BY <1>1, <1>3

(* The parts depend on what they speak of.                                 *)
LEMMA SameReported ==
  ASSUME NEW R \in Seq(Revisions), NEW S \in Seq(Revisions), Grows(R, S),
         NEW f, NEW g, SameRun(f, g), f.kind = "deploy" \/ g.before = f.before,
         NEW v, Reported(v, f, R)
  PROVE  Reported(v, g, S)
<1>0. \A i, c : (In(i, R) => In(i, S)) /\ (ReadyIn(i, R) => ReadyIn(i, S))
                /\ (CommitIn(i, R, c) => CommitIn(i, S, c))
  BY GrowthKeeps
<1>1. /\ In(v.created, S) /\ ReadyIn(v.status.revision, S)
      /\ CommitIn(v.status.revision, R, f.sha) => CommitIn(v.status.revision, S, f.sha)
  BY <1>0 DEF Reported
<1>2. S[v.created].template = R[v.created].template
  BY DEF Grows, Reported, In
<1>3. g.kind = f.kind /\ g.sha = f.sha
  BY DEF SameRun
<1> QED BY <1>1, <1>2, <1>3 DEF Reported

LEMMA GrowsReflexive ==
  ASSUME NEW R \in Seq(Revisions) PROVE Grows(R, R)
BY LenProperties DEF Grows

LEMMA HonestMove ==
  ASSUME NEW R \in Seq(Revisions), NEW S \in Seq(Revisions), Grows(R, S),
         NEW f, NEW g, Honest(f, R), SameRun(f, g), g.after = f.after,
         f.kind = "deploy" \/ f.pc # "ok" \/ g = f,
         f.kind = "deploy" \/ f.after = {} \/ g.before = f.before,
         g.kind = "deploy" /\ g.pc \in {"shift", "poll"} => CommitIn(g.target, S, g.sha),
         g.pc = "update" => \A b \in g.before : b.created <= Len(S),
         g.pc = "verify" => \A b \in g.before : b.created < Len(S)
  PROVE  Honest(g, S)
<1>1. \A v \in g.after : Reported(v, g, S)
  BY SameReported DEF Honest
<1>2. g.kind # "deploy" /\ g.pc # "ok" => g.after = {}
  BY DEF Honest, SameRun
<1> QED BY <1>1, <1>2 DEF Honest

LEMMA HonestGrows ==
  ASSUME NEW R \in Seq(Revisions), NEW S \in Seq(Revisions), Grows(R, S),
         NEW f \in Flows, Honest(f, R)
  PROVE  Honest(f, S)
<1>1. Len(R) \in Nat /\ Len(S) \in Nat /\ Len(R) <= Len(S)
  BY LenProperties DEF Grows
<1>2. \A b \in f.before : b.created \in Nat
  BY DEF Flows, Views
<1>3. \A v \in f.after : Reported(v, f, S)
  BY SameReported DEF Honest, SameRun
<1>4. \A c : CommitIn(f.target, R, c) => CommitIn(f.target, S, c)
  BY GrowthKeeps
<1> QED BY <1>1, <1>2, <1>3, <1>4 DEF Honest

LEMMA ServedNext ==
  ASSUME Served, revisions' \in Seq(Revisions), Grows(revisions, revisions'),
         UNCHANGED status, tagged' \in 0 .. Len(revisions'),
         \/ traffic' = traffic \/ traffic' = Pinned
         \/ \E i : ReadyIn(i, revisions') /\ traffic' = [latest |-> FALSE, revision |-> i]
  PROVE  Served'
<1>1. \A i : ReadyIn(i, revisions) => ReadyIn(i, revisions')
  BY GrowthKeeps DEF Served
<1>2. \A i : ReadyIn(i, revisions') => i \in Nat
  BY LenProperties DEF ReadyIn, In
<1>3. traffic' \in Traffic /\ (~traffic'.latest => ReadyIn(traffic'.revision, revisions'))
  <2>1. CASE traffic' = traffic
    BY <1>1, <2>1 DEF Served
  <2>2. CASE traffic' = Pinned
    <3>1. CASE traffic.latest
      BY <1>1, <1>2, <2>2, <3>1 DEF Pinned, Served, Traffic
    <3>2. CASE ~traffic.latest
      BY <1>1, <2>2, <3>2 DEF Pinned, Served
    <3> QED BY <3>1, <3>2
  <2>3. CASE \E i : ReadyIn(i, revisions') /\ traffic' = [latest |-> FALSE, revision |-> i]
    BY <1>2, <2>3 DEF Traffic
  <2> QED BY <2>1, <2>2, <2>3
<1>4. tagged' \in 0 .. Created'
  BY DEF Created
<1> QED BY <1>1, <1>3, <1>4 DEF Served

(* The plan speaks of the jobs that call monitors.                         *)
LEMMA PlannedByMonitors ==
  ASSUME NEW f, NEW j, NEW k, NEW many, Planned(f, j, many),
         k["dispatcher"] = j["dispatcher"], \A d \in DirectJobs : k[d] = j[d]
  PROVE  Planned(f, k, many)
<1>0. k["probe"] = j["probe"]
  BY DEF DirectJobs
<1>1. CASE f.pc = "jobs"
  BY <1>0, <1>1, Zenon DEF Planned
<1>2. CASE f.pc = "cleanup"
  BY <1>2, Zenon DEF Planned
<1>3. CASE f.pc = "delete"
  BY <1>3, Zenon DEF Planned
<1>4. CASE f.pc \notin {"jobs", "cleanup", "delete"}
  BY <1>4 DEF Planned
<1> QED BY <1>1, <1>2, <1>3, <1>4

LEMMA MonitorsQuiet ==
  ASSUME Monitors, UNCHANGED several, jobs' \in [Jobs -> JobStates],
         \A j \in DirectJobs \cup {"dispatcher"} : jobs'[j] = jobs[j],
         \/ flow' = flow
         \/ flow'.pc \notin {"jobs", "cleanup", "delete"}
         \/ flow'.pc = "jobs" /\ flow'.left = JobPlan(flow'.migration)
            /\ flow'.migration \in BOOLEAN
  PROVE  Monitors'
<1>1. jobs'["dispatcher"] = jobs["dispatcher"] /\ \A j \in DirectJobs : jobs'[j] = jobs[j]
  OBVIOUS
<1>2. PICK f, g, j, k :
        f = flow /\ g = flow' /\ j = jobs /\ k = jobs'
  OBVIOUS
<1>3. Planned(f, j, several)
  BY <1>2 DEF Monitors
<1>4. Planned(g, k, several)
  <2>1. CASE g = f
    BY <1>1, <1>2, <1>3, <2>1, PlannedByMonitors
  <2>2. CASE g # f
    <3>1. \/ g.pc \notin {"jobs", "cleanup", "delete"}
          \/ g.pc = "jobs" /\ g.left = JobPlan(g.migration) /\ g.migration \in BOOLEAN
      BY <1>2, <2>2
    <3>2. CASE g.pc \notin {"jobs", "cleanup", "delete"}
      BY <3>2 DEF Planned
    <3>3. CASE g.pc = "jobs" /\ g.left = JobPlan(g.migration) /\ g.migration = TRUE
      BY <3>3 DEF Planned
    <3>4. CASE g.pc = "jobs" /\ g.left = JobPlan(g.migration) /\ g.migration = FALSE
      BY <3>4 DEF Planned
    <3> QED BY <3>1, <3>2, <3>3, <3>4
  <2> QED BY <2>1, <2>2
<1> QED BY <1>1, <1>2, <1>4 DEF Monitors

LEMMA JobsStay ==
  ASSUME Monitors, UNCHANGED jobs
  PROVE  /\ jobs' \in [Jobs -> JobStates]
         /\ \A j \in DirectJobs \cup {"dispatcher"} : jobs'[j] = jobs[j]
BY DEF Monitors
-----------------------------------------------------------------------------
(* Moves of the workflow                                                   *)

LEMMA GoMoves ==
  ASSUME flow \in Flows, NEW p \in Pcs, Go(p)
  PROVE  /\ flow' \in Flows /\ SameRun(flow, flow') /\ flow'.pc = p
         /\ flow'.before = flow.before /\ flow'.after = flow.after
         /\ flow'.target = flow.target
BY FlowField DEF Go

LEMMA GoBefore ==
  ASSUME flow \in Flows, NEW p \in Pcs, NEW B \in SUBSET Views,
         flow' = [flow EXCEPT !.pc = p, !.before = B]
  PROVE  /\ flow' \in Flows /\ SameRun(flow, flow') /\ flow'.pc = p
         /\ flow'.before = B /\ flow'.after = flow.after
<1> DEFINE g == [flow EXCEPT !.pc = p]
<1>1. g \in Flows /\ SameRun(flow, g) /\ g.pc = p /\ g.after = flow.after
  BY FlowField
<1>2. flow' = [g EXCEPT !.before = B]
  OBVIOUS
<1> HIDE DEF g
<1> DEFINE h == [g EXCEPT !.before = B]
<1>4. /\ h \in Flows /\ SameRun(g, h) /\ h.pc = g.pc /\ h.before = B /\ h.after = g.after
  BY <1>1, FlowField
<1>3. flow' \in Flows /\ SameRun(g, flow') /\ flow'.pc = p /\ flow'.before = B
      /\ flow'.after = flow.after
  BY <1>1, <1>2, <1>4
<1> QED BY <1>1, <1>3 DEF SameRun

LEMMA GoAfter ==
  ASSUME flow \in Flows, NEW p \in Pcs, NEW A \in SUBSET Views,
         flow' = [flow EXCEPT !.pc = p, !.after = A]
  PROVE  /\ flow' \in Flows /\ SameRun(flow, flow') /\ flow'.pc = p
         /\ flow'.before = flow.before /\ flow'.after = A
<1> DEFINE g == [flow EXCEPT !.pc = p]
<1>1. g \in Flows /\ SameRun(flow, g) /\ g.pc = p /\ g.before = flow.before
  BY FlowField
<1>2. flow' = [g EXCEPT !.after = A]
  OBVIOUS
<1> HIDE DEF g
<1> DEFINE h == [g EXCEPT !.after = A]
<1>4. /\ h \in Flows /\ SameRun(g, h) /\ h.pc = g.pc /\ h.before = g.before /\ h.after = A
  BY <1>1, FlowField
<1>3. flow' \in Flows /\ SameRun(g, flow') /\ flow'.pc = p /\ flow'.before = flow.before
      /\ flow'.after = A
  BY <1>1, <1>2, <1>4
<1> QED BY <1>1, <1>3 DEF SameRun

LEMMA GoLeft ==
  ASSUME flow \in Flows, NEW p \in Pcs, NEW l \in Lefts,
         \/ flow' = [flow EXCEPT !.pc = p, !.left = l]
         \/ flow' = [flow EXCEPT !.left = l, !.pc = p]
  PROVE  /\ flow' \in Flows /\ SameRun(flow, flow') /\ flow'.pc = p /\ flow'.left = l
         /\ flow'.before = flow.before /\ flow'.after = flow.after
<1> DEFINE g == [flow EXCEPT !.pc = p]
           h == [flow EXCEPT !.left = l]
<1>1. /\ g \in Flows /\ SameRun(flow, g) /\ g.pc = p /\ g.before = flow.before
      /\ g.after = flow.after
      /\ h \in Flows /\ SameRun(flow, h) /\ h.left = l /\ h.before = flow.before
      /\ h.after = flow.after
  BY FlowField
<1>2. flow' = [g EXCEPT !.left = l] \/ flow' = [h EXCEPT !.pc = p]
  OBVIOUS
<1> HIDE DEF g, h
<1>3. CASE flow' = [g EXCEPT !.left = l]
  <2>1. flow' \in Flows /\ SameRun(g, flow') /\ flow'.pc = p /\ flow'.before = flow.before
        /\ flow'.after = flow.after /\ flow'.left = l
    BY <1>1, <1>3, FlowField
  <2> QED BY <1>1, <2>1 DEF SameRun
<1>4. CASE flow' = [h EXCEPT !.pc = p]
  <2>1. flow' \in Flows /\ SameRun(h, flow') /\ flow'.pc = p /\ flow'.before = flow.before
        /\ flow'.after = flow.after /\ flow'.left = l
    BY <1>1, <1>4, FlowField
  <2> QED BY <1>1, <2>1 DEF SameRun
<1> QED BY <1>2, <1>3, <1>4

(* What one description of the service answers.                            *)
LEMMA ViewType ==
  ASSUME DInv
  PROVE  /\ View \in Views /\ View.created = Len(revisions)
         /\ View.template = revisions[Len(revisions)].template
         /\ View.template \in Templates
         /\ View.status = status /\ View.tagged = tagged /\ View.jobs = jobs
         /\ View.traffic = traffic
         /\ Len(revisions) \in Nat /\ In(Len(revisions), revisions)
         /\ revisions \in Seq(Revisions) /\ Grows(revisions, revisions)
         /\ flow \in Flows /\ Honest(flow, revisions)
<1>1. /\ Len(revisions) \in Nat /\ revisions \in Seq(Revisions)
      /\ status.revision \in 1 .. Len(revisions) /\ Grows(revisions, revisions)
  BY LenProperties, GrowsReflexive DEF DInv, Served, ReadyIn, In
<1>2. Len(revisions) \in 1 .. Len(revisions)
  BY <1>1
<1>5. revisions[Len(revisions)] \in Revisions
  BY <1>1, <1>2, ElementOfSeq
<1>3. revisions[Len(revisions)].template \in Templates
  BY <1>5 DEF Revisions
<1>4. tagged \in Nat
  BY <1>1 DEF DInv, Served, Created
<1> QED BY <1>1, <1>2, <1>3, <1>4 DEF View, Views, Created, In, DInv, Served, Monitors, Worked

LEMMA TemplateField ==
  ASSUME NEW t \in Templates
  PROVE  /\ \A v \in Images : [t EXCEPT !.image = v] \in Templates
         /\ \A v \in Commits : [t EXCEPT !.commit = v] \in Templates
         /\ \A v \in Envs : [t EXCEPT !.env = v] \in Templates
         /\ \A v \in {"none", "own", "shared", "other"} : [t EXCEPT !.alias = v] \in Templates
         /\ \A v \in {"unset", "desired"} : [t EXCEPT !.facts = v] \in Templates
BY DEF Templates

LEMMA AliasesAfterType ==
  \A t, v : \A a \in AliasesAfter(t, v) : a \in {"none", "own", "shared", "other"}
BY DEF AliasesAfter

(* A step that leaves the clock, the status and the jobs alone.            *)
LEMMA DeploymentStep ==
  ASSUME DInv, UNCHANGED <<status, jobs, several>>, Clocked',
         revisions' \in Seq(Revisions), Grows(revisions, revisions'),
         tagged' \in 0 .. Len(revisions'),
         \/ traffic' = traffic \/ traffic' = Pinned
         \/ \E i : ReadyIn(i, revisions') /\ traffic' = [latest |-> FALSE, revision |-> i],
         flow' \in Flows, Honest(flow', revisions'),
         \/ flow' = flow
         \/ flow'.pc \notin {"jobs", "cleanup", "delete"}
         \/ flow'.pc = "jobs" /\ flow'.left = JobPlan(flow'.migration)
  PROVE  DInv'
<1>1. Served'
  BY ServedNext DEF DInv
<1>2. flow'.migration \in BOOLEAN
  BY DEF Flows
<1>3. Monitors'
  BY <1>2, JobsStay, MonitorsQuiet DEF DInv
<1> QED BY <1>1, <1>3 DEF DInv, Worked

(* The workflow goes on, or fails, where it carries nothing new.           *)
Plain == {"begin", "image", "readback", "env", "select", "ok", "failed"}

LEMMA PlainStep ==
  ASSUME DInv, UNCHANGED <<status, jobs, several, now, quota>>,
         revisions' \in Seq(Revisions), Grows(revisions, revisions'),
         tagged' \in 0 .. Len(revisions'),
         \/ traffic' = traffic \/ traffic' = Pinned
         \/ \E i : ReadyIn(i, revisions') /\ traffic' = [latest |-> FALSE, revision |-> i],
         NEW p \in Plain, Go(p), flow.pc # "ok"
  PROVE  DInv'
<1>1. p \in Pcs /\ p \notin {"jobs", "cleanup", "delete", "shift", "poll", "update", "verify"}
  BY DEF Plain, Pcs
<1>2. /\ flow \in Flows /\ Honest(flow, revisions) /\ revisions \in Seq(Revisions)
  BY ViewType
<1>3. /\ flow' \in Flows /\ SameRun(flow, flow') /\ flow'.pc = p
      /\ flow'.before = flow.before /\ flow'.after = flow.after
  BY <1>1, <1>2, GoMoves
<1>4. Honest(flow', revisions')
  BY <1>1, <1>2, <1>3, HonestMove
<1>5. Clocked'
  BY DEF DInv, Clocked
<1> QED BY <1>1, <1>3, <1>4, <1>5, DeploymentStep
-----------------------------------------------------------------------------
(* Steps of Cloud Run and of the operator                                  *)

LEMMA QuotaSpent ==
  ASSUME Clocked, now' = now,
         \/ quota' = [quota EXCEPT !.edits = @ - 1] /\ quota.edits > 0
         \/ quota' = [quota EXCEPT !.flows = @ - 1] /\ quota.flows > 0
         \/ quota' = [quota EXCEPT !.entries = @ - 1] /\ quota.entries > 0
         \/ quota' = [quota EXCEPT !.guards = @ - 1] /\ quota.guards > 0
  PROVE  Clocked'
<1>1. quota' \in Quotas /\ quota'.ticks = quota.ticks
  BY DEF Clocked, Quotas
<1> QED BY <1>1 DEF Clocked

LEMMA ConvergeHolds ==
  ASSUME DInv, Converge
  PROVE  DInv'
<1>0. /\ revisions \in Seq(Revisions) /\ Len(revisions) \in Nat /\ status.revision \in Ready
      /\ Ready \subseteq 1 .. Created /\ Created \in Nat
      /\ \A i : i \in Ready <=> ReadyIn(i, revisions)
  BY ReadyRevisions DEF DInv, Served, Created
<1>1. Latest(Ready) \in Ready
  BY <1>0, LatestIsGreatest
<1>2. /\ UNCHANGED <<revisions, traffic, tagged, jobs, several, flow, now, quota>>
      /\ status' = [latest |-> traffic.latest,
                    revision |-> IF traffic.latest THEN Latest(Ready) ELSE traffic.revision]
  BY DEF Converge
<1>7. \A i : ReadyIn(i, revisions) => i \in Nat
  BY <1>0 DEF ReadyIn, In
<1>3. ReadyIn(status'.revision, revisions) /\ status'.revision \in Nat
  <2>1. CASE traffic.latest
    <3>1. status'.revision = Latest(Ready)
      BY <1>2, <2>1
    <3>2. ReadyIn(Latest(Ready), revisions)
      BY <1>0, <1>1, Zenon
    <3> QED BY <1>7, <3>1, <3>2
  <2>2. CASE ~traffic.latest
    <3>1. status'.revision = traffic.revision
      BY <1>2, <2>2
    <3> QED BY <1>7, <2>2, <3>1 DEF DInv, Served
  <2> QED BY <2>1, <2>2
<1>4. status' \in Traffic
  BY <1>2, <1>3 DEF DInv, Served, Traffic
<1>5. Served'
  BY <1>2, <1>3, <1>4 DEF DInv, Served, Created
<1>6. Monitors'
  BY <1>2, JobsStay, MonitorsQuiet DEF DInv
<1> QED BY <1>2, <1>5, <1>6 DEF DInv, Clocked, Worked

LEMMA BecomeReadyHolds ==
  ASSUME DInv, BecomeReady
  PROVE  DInv'
<1>0. revisions \in Seq(Revisions) /\ Clocked' /\ flow \in Flows /\ Honest(flow, revisions)
  BY DEF DInv, Served, Clocked, Worked, BecomeReady
<1>1. /\ revisions' \in Seq(Revisions) /\ Grows(revisions, revisions')
      /\ Len(revisions') = Len(revisions)
  BY <1>0, BecomeReadyGrows
<1>2. UNCHANGED <<traffic, status, tagged, jobs, several, flow, now, quota>>
  BY DEF BecomeReady
<1>3. Honest(flow', revisions')
  BY <1>0, <1>1, <1>2, HonestGrows
<1>4. tagged' \in 0 .. Len(revisions')
  BY <1>1, <1>2 DEF DInv, Served, Created
<1> QED BY <1>0, <1>1, <1>2, <1>3, <1>4, DeploymentStep

LEMMA EditHolds ==
  ASSUME DInv, Edit
  PROVE  DInv'
<1>0. /\ UNCHANGED <<status, tagged, several, flow, now>>
      /\ quota.edits > 0 /\ quota' = [quota EXCEPT !.edits = @ - 1]
  BY DEF Edit
<1>1. Clocked' /\ now \in 0 .. MaxTime
  BY <1>0, QuotaSpent DEF DInv, Clocked
<1>2. /\ View.template \in Templates /\ flow \in Flows /\ Honest(flow, revisions)
      /\ revisions \in Seq(Revisions) /\ Grows(revisions, revisions) /\ Len(revisions) \in Nat
  BY ViewType
<1>3. tagged \in 0 .. Len(revisions)
  BY DEF DInv, Served, Created
<1>4. CASE /\ \E t \in Edits(View.template) \ {View.template} : NewRevision(t, TRUE)
           /\ UNCHANGED <<traffic, jobs>>
  <2>1. PICK t \in Edits(View.template) : NewRevision(t, TRUE)
    BY <1>4
  <2>2. t \in Templates
    BY <1>2, TemplateField DEF Edits
  <2>3. /\ revisions' \in Seq(Revisions) /\ Grows(revisions, revisions')
        /\ Len(revisions') = Len(revisions) + 1
    BY <1>1, <1>2, <2>1, <2>2, NewRevisionGrows
  <2>4. Honest(flow', revisions') /\ flow' \in Flows
    BY <1>0, <1>2, <2>3, HonestGrows
  <2>5. tagged' \in 0 .. Len(revisions')
    BY <1>0, <1>2, <1>3, <2>3
  <2> QED BY <1>0, <1>1, <1>4, <2>3, <2>4, <2>5, DeploymentStep
<1>5. CASE /\ \E i \in Ready : traffic' = [latest |-> FALSE, revision |-> i]
           /\ UNCHANGED <<revisions, jobs>>
  <2>1. PICK i \in Ready : traffic' = [latest |-> FALSE, revision |-> i]
    BY <1>5
  <2>2. ReadyIn(i, revisions')
    BY <1>2, <1>5, ReadyRevisions
  <2>3. Honest(flow', revisions') /\ flow' \in Flows
    BY <1>0, <1>2, <1>5
  <2> QED BY <1>0, <1>1, <1>2, <1>3, <1>5, <2>1, <2>2, <2>3, DeploymentStep
<1>6. CASE /\ jobs' = [jobs EXCEPT !["legacy"] = "absent"]
           /\ UNCHANGED <<revisions, traffic>>
  <2>1. /\ jobs \in [Jobs -> JobStates] /\ "legacy" \in Jobs /\ "absent" \in JobStates
        /\ DirectJobs \cup {"dispatcher"} \subseteq Jobs \ {"legacy"}
    BY DEF DInv, Monitors, Jobs, JobStates, DirectJobs
  <2>2. /\ jobs' \in [Jobs -> JobStates]
        /\ \A j \in DirectJobs \cup {"dispatcher"} : jobs'[j] = jobs[j]
    BY <1>6, <2>1
  <2>3. Monitors'
    BY <1>0, <2>2, MonitorsQuiet DEF DInv
  <2>4. Served' /\ Worked'
    BY <1>0, <1>6 DEF DInv, Served, Worked, Created
  <2> QED BY <1>1, <2>3, <2>4 DEF DInv
<1> QED BY <1>4, <1>5, <1>6 DEF Edit

LEMMA SyncOtherHolds ==
  ASSUME DInv, SyncOther
  PROVE  DInv'
<1>0. /\ UNCHANGED <<revisions, traffic, status, tagged, several, flow, now>>
      /\ quota.flows > 0 /\ quota' = [quota EXCEPT !.flows = @ - 1]
      /\ several /\ flow.pc \in {"ok", "failed"}
      /\ jobs' = [jobs EXCEPT !["dispatcher"] = "elsewhere"]
  BY DEF SyncOther, Running
<1>1. Clocked'
  BY <1>0, QuotaSpent DEF DInv
<1>2. jobs' \in [Jobs -> JobStates]
  BY <1>0 DEF DInv, Monitors, JobStates
<1>3. Planned(flow', jobs', several')
  BY <1>0 DEF Planned
<1>4. Monitors'
  BY <1>0, <1>2, <1>3 DEF DInv, Monitors
<1>5. Served' /\ Worked'
  BY <1>0 DEF DInv, Served, Worked, Created
<1> QED BY <1>1, <1>4, <1>5 DEF DInv

-----------------------------------------------------------------------------
(* Steps of the workflows                                                  *)

LEMMA IdleType ==
  /\ Idle \in Flows /\ Idle.kind = "none" /\ Idle.pc = "ok"
  /\ Idle.before = {} /\ Idle.after = {}
<1>1. <<>> \in Seq(Jobs \X JobStates)
  BY EmptySeq
<1> QED BY <1>1 DEF Idle, Flows

LEMMA BeginHolds ==
  ASSUME DInv, Begin
  PROVE  DInv'
<1>0. /\ UNCHANGED <<revisions, traffic, status, tagged, jobs, several, now>>
      /\ quota.flows > 0 /\ quota' = [quota EXCEPT !.flows = @ - 1]
  BY DEF Begin
<1>1. Clocked'
  BY <1>0, QuotaSpent DEF DInv
<1>2. PICK k \in {"deploy", "facts", "stage"}, c \in Commits, m \in BOOLEAN :
        flow' = [Idle EXCEPT !.kind = k, !.pc = "begin", !.sha = c, !.migration = m]
  BY DEF Begin
<1> DEFINE f1 == [Idle EXCEPT !.kind = k]
           f2 == [f1 EXCEPT !.pc = "begin"]
           f3 == [f2 EXCEPT !.sha = c]
           f4 == [f3 EXCEPT !.migration = m]
<1>3. flow' = f4
  BY <1>2
<1>4. f1 \in Flows /\ f1.before = {} /\ f1.after = {}
  BY IdleType DEF Flows
<1> HIDE DEF f1
<1>5. f2 \in Flows /\ f2.before = {} /\ f2.after = {} /\ f2.pc = "begin"
  BY <1>4 DEF Flows
<1> HIDE DEF f2
<1>6. f3 \in Flows /\ f3.before = {} /\ f3.after = {} /\ f3.pc = "begin"
  BY <1>5 DEF Flows
<1> HIDE DEF f3
<1>7. f4 \in Flows /\ f4.before = {} /\ f4.after = {} /\ f4.pc = "begin"
  BY <1>6 DEF Flows
<1> HIDE DEF f4
<1>8. Honest(flow', revisions')
  BY <1>3, <1>7 DEF Honest
<1>9. /\ revisions' \in Seq(Revisions) /\ Grows(revisions, revisions')
      /\ tagged' \in 0 .. Len(revisions')
  BY <1>0, ViewType DEF DInv, Served, Created
<1> QED BY <1>0, <1>1, <1>3, <1>7, <1>8, <1>9, DeploymentStep

(* What a step of a workflow that only reads or writes its own notes keeps. *)
LEMMA NotesOnly ==
  ASSUME DInv, UNCHANGED <<revisions, traffic, status, tagged, jobs, several, now, quota>>
  PROVE  /\ revisions' \in Seq(Revisions) /\ Grows(revisions, revisions')
         /\ tagged' \in 0 .. Len(revisions') /\ Clocked'
BY ViewType DEF DInv, Served, Created, Clocked

LEMMA AbortHolds ==
  ASSUME DInv, Abort
  PROVE  DInv'
<1>1. UNCHANGED <<revisions, traffic, status, tagged, jobs, several, now, quota>>
  BY DEF Abort
<1> QED BY <1>1, NotesOnly, PlainStep DEF Abort, Running, Fail, Plain

LEMMA CaptureHolds ==
  ASSUME DInv, CaptureDeployment
  PROVE  DInv'
<1>1. /\ UNCHANGED <<revisions, traffic, status, tagged, jobs, several, now, quota>>
      /\ flow' = [flow EXCEPT !.pc = "image", !.before = {View}]
      /\ flow.kind = "deploy"
  BY DEF CaptureDeployment, At
<1>2. "image" \in Pcs /\ {View} \in SUBSET Views /\ flow \in Flows /\ Honest(flow, revisions)
  BY ViewType DEF Pcs
<1>3. /\ flow' \in Flows /\ SameRun(flow, flow') /\ flow'.pc = "image"
      /\ flow'.after = flow.after
  BY <1>1, <1>2, GoBefore
<1>4. /\ revisions \in Seq(Revisions) /\ revisions' \in Seq(Revisions)
      /\ Grows(revisions, revisions')
  BY <1>1, NotesOnly, ViewType
<1>5. /\ flow'.pc \notin {"shift", "poll", "update", "verify"}
      /\ flow.kind = "deploy" /\ flow'.after = flow.after
      /\ SameRun(flow, flow') /\ Honest(flow, revisions)
  BY <1>1, <1>2, <1>3
<1>6. Honest(flow', revisions')
  BY <1>4, <1>5, HonestMove
<1> QED BY <1>1, <1>3, <1>5, <1>6, NotesOnly, DeploymentStep

LEMMA ImageHolds ==
  ASSUME DInv, DeployImage
  PROVE  DInv'
<1>0. /\ View.template \in Templates /\ flow \in Flows /\ flow.sha \in Commits
      /\ revisions \in Seq(Revisions) /\ Len(revisions) \in Nat /\ now \in 0 .. MaxTime
      /\ tagged \in 0 .. Len(revisions)
  BY ViewType DEF Flows, DInv, Clocked, Served, Created
<1>1. PICK ready \in BOOLEAN :
        /\ NewRevision([View.template EXCEPT !.image = flow.sha, !.commit = flow.sha], ready)
        /\ IF ready THEN Go("readback") ELSE Fail
  BY DEF DeployImage
<1> DEFINE t1 == [View.template EXCEPT !.image = flow.sha]
           t2 == [t1 EXCEPT !.commit = flow.sha]
<1>2. NewRevision(t2, ready)
  BY <1>1
<1>3. t1 \in Templates
  BY <1>0, TemplateField DEF Images
<1> HIDE DEF t1
<1>4. t2 \in Templates
  BY <1>0, <1>3, TemplateField
<1> HIDE DEF t2
<1>5. /\ revisions' \in Seq(Revisions) /\ Grows(revisions, revisions')
      /\ Len(revisions') = Len(revisions) + 1
  BY <1>0, <1>2, <1>4, NewRevisionGrows
<1>6. /\ UNCHANGED <<status, tagged, jobs, several, now, quota>> /\ traffic' = Pinned
      /\ flow.pc # "ok" /\ tagged' \in 0 .. Len(revisions')
  BY <1>0, <1>5 DEF DeployImage, At
<1>7. Go("readback") \/ Go("failed")
  BY <1>1 DEF Fail
<1> QED BY <1>5, <1>6, <1>7, PlainStep DEF Plain

LEMMA ReadbackHolds ==
  ASSUME DInv, DeployReadback
  PROVE  DInv'
<1>1. /\ UNCHANGED <<revisions, traffic, status, tagged, jobs, several, now, quota>>
      /\ flow.pc # "ok"
  BY DEF DeployReadback, At
<1>2. Go("env") \/ Go("ok") \/ Go("failed")
  BY DEF DeployReadback, Fail
<1> QED BY <1>1, <1>2, NotesOnly, PlainStep DEF Plain

LEMMA JobPlanType == \A m \in BOOLEAN : JobPlan(m) \in Lefts
<1>1. JobPlan(TRUE) \in Lefts
  BY DEF JobPlan, Lefts, Jobs, JobStates
<1>2. JobPlan(FALSE) \in Lefts
  BY DEF JobPlan, Lefts, Jobs, JobStates
<1> QED BY <1>1, <1>2

LEMMA EnvironmentHolds ==
  ASSUME DInv, SyncEnvironment
  PROVE  DInv'
<1>0. /\ View.template \in Templates /\ flow \in Flows /\ flow.migration \in BOOLEAN
      /\ revisions \in Seq(Revisions) /\ Len(revisions) \in Nat /\ now \in 0 .. MaxTime
      /\ tagged \in 0 .. Len(revisions) /\ Honest(flow, revisions)
  BY ViewType DEF Flows, DInv, Clocked, Served, Created
<1>1. PICK e \in Envs, v \in {"unset", "desired"}, ready \in BOOLEAN, promote \in BOOLEAN :
        /\ \E a \in AliasesAfter(View.template, v) :
             NewRevision([View.template EXCEPT !.env = e, !.facts = v, !.alias = a], ready)
        /\ IF ~ready THEN Fail ELSE IF promote THEN Go("select") ELSE ToJobs
  BY DEF SyncEnvironment
<1>2. /\ revisions' \in Seq(Revisions) /\ Grows(revisions, revisions')
      /\ Len(revisions') = Len(revisions) + 1
  <2>1. PICK a \in AliasesAfter(View.template, v) :
          NewRevision([View.template EXCEPT !.env = e, !.facts = v, !.alias = a], ready)
    BY <1>1
  <2> DEFINE t1 == [View.template EXCEPT !.env = e]
             t2 == [t1 EXCEPT !.facts = v]
             t3 == [t2 EXCEPT !.alias = a]
  <2>2. NewRevision(t3, ready)
    BY <2>1
  <2>3. t1 \in Templates
    BY <1>0, TemplateField
  <2> HIDE DEF t1
  <2>4. t2 \in Templates
    BY <2>3, TemplateField
  <2> HIDE DEF t2
  <2>5. t3 \in Templates
    BY <2>4, AliasesAfterType, TemplateField
  <2> HIDE DEF t3
  <2> QED BY <1>0, <2>2, <2>5, NewRevisionGrows
<1>3. /\ UNCHANGED <<traffic, status, tagged, jobs, several, now, quota>>
      /\ flow.pc = "env" /\ flow.kind = "deploy" /\ tagged' \in 0 .. Len(revisions') /\ Clocked'
  BY <1>0, <1>2 DEF SyncEnvironment, At, DInv, Clocked
<1>4. CASE Go("failed") \/ Go("select")
  BY <1>2, <1>3, <1>4, PlainStep DEF Plain
<1>5. CASE ToJobs
  <2>1. "jobs" \in Pcs /\ JobPlan(flow.migration) \in Lefts
    BY <1>0, JobPlanType DEF Pcs
  <2>2. /\ flow' \in Flows /\ SameRun(flow, flow') /\ flow'.pc = "jobs"
        /\ flow'.left = JobPlan(flow.migration) /\ flow'.after = flow.after
    BY <1>0, <1>5, <2>1, GoLeft DEF ToJobs
  <2>3. flow'.pc \notin {"shift", "poll", "update", "verify"}
    BY <2>2
  <2>4. Honest(flow', revisions')
    BY <1>0, <1>2, <1>3, <2>2, <2>3, HonestMove
  <2>5. flow'.migration = flow.migration
    BY <2>2 DEF SameRun
  <2> QED BY <1>2, <1>3, <2>2, <2>4, <2>5, DeploymentStep
<1> QED BY <1>1, <1>4, <1>5 DEF Fail

(* The revision that is to get the traffic is ready and of the commit.     *)
LEMMA TargetIsOfCommit ==
  ASSUME revisions \in Seq(Revisions), NEW c, OfCommit(c) # {}
  PROVE  CommitIn(Target(c), revisions, c) /\ Target(c) \in Nat
<1>1. /\ Created \in Nat /\ OfCommit(c) \subseteq 1 .. Created
      /\ \A i \in OfCommit(c) : CommitIn(i, revisions, c)
  BY ReadyRevisions DEF OfCommit, CommitIn
<1>2. Latest(OfCommit(c)) \in OfCommit(c)
  BY <1>1, LatestIsGreatest
<1>3. Target(c) \in OfCommit(c)
  BY <1>2 DEF Target
<1> QED BY <1>1, <1>3

LEMMA SelectHolds ==
  ASSUME DInv, SelectRevision
  PROVE  DInv'
<1>0. /\ UNCHANGED <<revisions, traffic, status, tagged, jobs, several, now, quota>>
      /\ flow.kind = "deploy" /\ flow.pc = "select"
  BY DEF SelectRevision, At
<1>1. /\ flow \in Flows /\ Honest(flow, revisions) /\ revisions \in Seq(Revisions)
      /\ revisions' \in Seq(Revisions) /\ Grows(revisions, revisions')
      /\ tagged' \in 0 .. Len(revisions') /\ Clocked'
  BY <1>0, ViewType, NotesOnly
<1>2. CASE OfCommit(flow.sha) = {}
  <2>1. Go("failed")
    BY <1>2 DEF SelectRevision, Fail
  <2> QED BY <1>0, <1>1, <2>1, PlainStep DEF Plain
<1>3. CASE OfCommit(flow.sha) # {}
  <2>1. PICK t : t = Target(flow.sha)
    OBVIOUS
  <2>2. CommitIn(t, revisions, flow.sha) /\ t \in Nat
    BY <1>1, <1>3, <2>1, TargetIsOfCommit
  <2>3. PICK p \in {"poll", "shift"} : flow' = [flow EXCEPT !.target = t, !.pc = p]
    BY <1>3, <2>1 DEF SelectRevision
  <2> DEFINE g == [flow EXCEPT !.target = t]
             h == [g EXCEPT !.pc = p]
  <2>4. flow' = h
    BY <2>3
  <2>5. g \in Flows /\ SameRun(flow, g) /\ g.after = flow.after /\ g.target = t
    BY <1>1, <2>2, FlowField
  <2> HIDE DEF g
  <2>6. h \in Flows /\ SameRun(g, h) /\ h.after = g.after /\ h.target = g.target /\ h.pc = p
    <3>1. p \in Pcs
      BY DEF Pcs
    <3> QED BY <2>5, <3>1, FlowField
  <2> HIDE DEF h
  <2>7. /\ flow' \in Flows /\ SameRun(flow, flow') /\ flow'.after = flow.after
        /\ flow'.target = t /\ flow'.pc \in {"poll", "shift"}
    BY <2>4, <2>5, <2>6 DEF SameRun
  <2>8. CommitIn(flow'.target, revisions', flow'.sha)
    BY <1>0, <2>2, <2>7 DEF SameRun
  <2>9. Honest(flow', revisions')
    BY <1>0, <1>1, <2>7, <2>8, HonestMove
  <2> QED BY <1>0, <1>1, <2>7, <2>9, DeploymentStep
<1> QED BY <1>2, <1>3

LEMMA ShiftHolds ==
  ASSUME DInv, ShiftTraffic
  PROVE  DInv'
<1>0. /\ UNCHANGED <<revisions, status, tagged, jobs, several, now, quota>>
      /\ flow.kind = "deploy" /\ flow.pc = "shift" /\ Go("poll")
      /\ traffic' = [latest |-> FALSE, revision |-> flow.target]
  BY DEF ShiftTraffic, At
<1>1. /\ flow \in Flows /\ Honest(flow, revisions) /\ revisions \in Seq(Revisions)
      /\ Grows(revisions, revisions) /\ "poll" \in Pcs
      /\ tagged' \in 0 .. Len(revisions') /\ Clocked'
  BY <1>0, ViewType DEF Pcs, DInv, Served, Clocked, Created
<1>2. /\ flow' \in Flows /\ SameRun(flow, flow') /\ flow'.after = flow.after
      /\ flow'.target = flow.target /\ flow'.pc = "poll"
  BY <1>0, <1>1, GoMoves
<1>3. CommitIn(flow.target, revisions, flow.sha)
  BY <1>0, <1>1 DEF Honest
<1>4. CommitIn(flow'.target, revisions', flow'.sha) /\ ReadyIn(flow.target, revisions')
  BY <1>0, <1>2, <1>3 DEF SameRun, CommitIn
<1>5. flow'.pc \notin {"update", "verify", "jobs", "cleanup", "delete"}
  BY <1>2
<1>6. revisions' \in Seq(Revisions) /\ Grows(revisions, revisions')
  BY <1>0, <1>1
<1>7. Honest(flow', revisions')
  BY <1>0, <1>1, <1>2, <1>4, <1>5, <1>6, HonestMove
<1> QED BY <1>0, <1>1, <1>2, <1>4, <1>5, <1>6, <1>7, DeploymentStep

LEMMA PollHolds ==
  ASSUME DInv, PollTraffic
  PROVE  DInv'
<1>0. /\ UNCHANGED <<revisions, traffic, status, tagged, jobs, several, now, quota>>
      /\ flow.kind = "deploy" /\ flow.pc = "poll" /\ View.status.revision = flow.target
      /\ flow' = [flow EXCEPT !.pc = "jobs", !.left = JobPlan(flow.migration), !.after = {View}]
  BY DEF PollTraffic, At, Reconciled
<1>1. /\ flow \in Flows /\ Honest(flow, revisions) /\ revisions \in Seq(Revisions)
      /\ revisions' \in Seq(Revisions) /\ Grows(revisions, revisions')
      /\ tagged' \in 0 .. Len(revisions') /\ Clocked'
      /\ View \in Views /\ View.created = Len(revisions) /\ In(View.created, revisions)
      /\ View.status = status
  BY <1>0, ViewType, NotesOnly
<1>2. JobPlan(flow.migration) \in Lefts
  BY <1>1, JobPlanType DEF Flows
<1>3. PICK v \in Views : v = View
  BY <1>1
<1> DEFINE g == [flow EXCEPT !.pc = "jobs"]
           h == [g EXCEPT !.left = JobPlan(flow.migration)]
           k == [h EXCEPT !.after = {v}]
<1>4. flow' = k
  BY <1>0, <1>3
<1>5. g \in Flows /\ SameRun(flow, g) /\ g.pc = "jobs"
  <2>1. "jobs" \in Pcs
    BY DEF Pcs
  <2> QED BY <1>1, <2>1, FlowField
<1> HIDE DEF g
<1>6. h \in Flows /\ SameRun(g, h) /\ h.pc = g.pc /\ h.left = JobPlan(flow.migration)
  BY <1>2, <1>5, FlowField
<1> HIDE DEF h
<1>7. /\ k \in Flows /\ SameRun(h, k) /\ k.pc = h.pc /\ k.left = h.left /\ k.after = {v}
  <2>1. {v} \in SUBSET Views
    OBVIOUS
  <2> DEFINE a == {v}
  <2>2. k = [h EXCEPT !.after = a]
    OBVIOUS
  <2> HIDE DEF a, k
  <2>3. a \in SUBSET Views
    BY <2>1 DEF a
  <2>4. LET q == [h EXCEPT !.after = a] IN
          q \in Flows /\ SameRun(h, q) /\ q.pc = h.pc /\ q.left = h.left /\ q.after = a
    BY <1>6, <2>3, FlowField
  <2> QED BY <2>2, <2>4 DEF a
<1> HIDE DEF k
<1>8. /\ flow' \in Flows /\ SameRun(flow, flow') /\ flow'.pc = "jobs"
      /\ flow'.left = JobPlan(flow.migration) /\ flow'.after = {v}
      /\ flow'.migration = flow.migration /\ flow'.kind = "deploy" /\ flow'.sha = flow.sha
  BY <1>0, <1>4, <1>5, <1>6, <1>7 DEF SameRun
<1>9. CommitIn(v.status.revision, revisions, flow.sha) /\ In(v.created, revisions)
  BY <1>0, <1>1, <1>3 DEF Honest
<1>10. Reported(v, flow', revisions')
  BY <1>0, <1>8, <1>9 DEF Reported, CommitIn
<1>11. Honest(flow', revisions')
  BY <1>8, <1>10 DEF Honest
<1> QED BY <1>0, <1>1, <1>8, <1>11, DeploymentStep

(* What a step may not do to the jobs.                                     *)
MonitorsKept ==
  /\ Monitored => Monitored'
  /\ jobs["dispatcher"] = "elsewhere" => jobs'["dispatcher"] # "absent"

(* A step that sets a job and goes on to the next.                         *)
LEMMA JobStep ==
  ASSUME DInv, UNCHANGED <<revisions, traffic, status, tagged, several, now, quota>>,
         flow.kind = "deploy", jobs' \in [Jobs -> JobStates],
         NEW p \in {"jobs", "cleanup", "delete", "ok"}, NEW l \in Lefts,
         \/ flow' = [flow EXCEPT !.pc = p, !.left = l]
         \/ flow' = [flow EXCEPT !.left = l, !.pc = p],
         \A f \in Flows :
           f.pc = p /\ f.left = l /\ f.migration = flow.migration => Planned(f, jobs', several),
         jobs'["dispatcher"] = "elsewhere" => several
  PROVE  DInv'
<1>1. /\ flow \in Flows /\ Honest(flow, revisions) /\ revisions \in Seq(Revisions)
      /\ Grows(revisions, revisions)
  BY ViewType
<1>2. p \in Pcs /\ p \notin {"shift", "poll", "update", "verify"}
  BY DEF Pcs
<1>3. /\ flow' \in Flows /\ SameRun(flow, flow') /\ flow'.pc = p /\ flow'.left = l
      /\ flow'.after = flow.after
  BY <1>1, <1>2, GoLeft
<1>4. Honest(flow', revisions)
  BY <1>1, <1>2, <1>3, HonestMove
<1>5. flow'.migration = flow.migration
  BY <1>3 DEF SameRun
<1>6. Planned(flow', jobs', several)
  BY <1>3, <1>5
<1>7. Monitors'
  BY <1>6 DEF DInv, Monitors
<1>8. Served' /\ Clocked'
  BY DEF DInv, Served, Clocked, Created
<1> QED BY <1>3, <1>4, <1>7, <1>8 DEF DInv, Worked

(* The jobs still to be set, one taken from each plan.                     *)
LEMMA PlanSteps ==
  /\ \A a, b : LET l == <<a, b>> IN Head(l) = a /\ Tail(l) = <<b>> /\ Len(l) = 2
  /\ \A a, b, c : LET l == <<a, b, c>> IN Head(l) = a /\ Tail(l) = <<b, c>> /\ Len(l) = 3
  /\ \A a : LET l == <<a>> IN Head(l) = a /\ Tail(l) = <<>> /\ Len(l) = 1
OBVIOUS

LEMMA PlansAreLefts ==
  /\ <<>> \in Lefts
  /\ \A a \in Jobs \X JobStates : <<a>> \in Lefts
  /\ \A a, b \in Jobs \X JobStates : <<a, b>> \in Lefts
  /\ \A a, b, c \in Jobs \X JobStates : <<a, b, c>> \in Lefts
BY DEF Lefts

LEMMA JobSet ==
  ASSUME jobs \in [Jobs -> JobStates], NEW n \in Jobs, NEW x \in JobStates,
         jobs' = [jobs EXCEPT ![n] = x]
  PROVE  /\ jobs' \in [Jobs -> JobStates] /\ jobs'[n] = x
         /\ \A j \in Jobs : j # n => jobs'[j] = jobs[j]
OBVIOUS

(* What a step that sets a job, or deletes one, does to the plan it takes it from. *)
LEMMA SyncTakes ==
  ASSUME SyncJob, NEW j, NEW x, Head(flow.left) = <<j, x>>
  PROVE  jobs' = [jobs EXCEPT ![j] = x]
<1>1. <<j, x>>[1] = j /\ <<j, x>>[2] = x
  OBVIOUS
<1>2. Head(flow.left)[1] = j /\ Head(flow.left)[2] = x
  BY <1>1
<1>3. jobs' = [jobs EXCEPT ![Head(flow.left)[1]] = Head(flow.left)[2]]
  BY DEF SyncJob
<1> QED BY <1>2, <1>3, Zenon

LEMMA SyncMoves ==
  ASSUME SyncJob, NEW rest, NEW p,
         Tail(flow.left) = rest, p = IF Len(flow.left) = 1 THEN "cleanup" ELSE "jobs"
  PROVE  flow' = [flow EXCEPT !.left = rest, !.pc = p]
<1>1. flow' = [flow EXCEPT !.left = Tail(flow.left),
               !.pc = IF Len(flow.left) = 1 THEN "cleanup" ELSE "jobs"]
  BY DEF SyncJob
<1> QED BY <1>1, Zenon

LEMMA DeleteTakes ==
  ASSUME DeleteJob, NEW j, NEW rest, NEW p, Head(flow.left) = <<j, "absent">>,
         Tail(flow.left) = rest, p = IF Len(flow.left) = 1 THEN "ok" ELSE "delete"
  PROVE  /\ jobs' = [jobs EXCEPT ![j] = "absent"] \/ jobs' = jobs
         /\ flow' = [flow EXCEPT !.left = rest, !.pc = p]
<1>1. <<j, "absent">>[1] = j
  OBVIOUS
<1>2. Head(flow.left)[1] = j
  BY <1>1
<1>3. jobs' = [jobs EXCEPT ![Head(flow.left)[1]] = "absent"] \/ jobs' = jobs
  BY DEF DeleteJob
<1>4. flow' = [flow EXCEPT !.left = Tail(flow.left),
               !.pc = IF Len(flow.left) = 1 THEN "ok" ELSE "delete"]
  BY DEF DeleteJob
<1>5. jobs' = [jobs EXCEPT ![j] = "absent"] \/ jobs' = jobs
  BY <1>2, <1>3, Zenon
<1>6. flow' = [flow EXCEPT !.left = rest, !.pc = p]
  BY <1>4, Zenon
<1> QED BY <1>5, <1>6

LEMMA SyncJobHolds ==
  ASSUME DInv, SyncJob
  PROVE  DInv' /\ MonitorsKept
<1>0. /\ UNCHANGED <<revisions, traffic, status, tagged, several, now, quota>>
      /\ flow.kind = "deploy" /\ flow.pc = "jobs"
      /\ jobs' = [jobs EXCEPT ![Head(flow.left)[1]] = Head(flow.left)[2]]
      /\ flow' = [flow EXCEPT !.left = Tail(flow.left),
                  !.pc = IF Len(flow.left) = 1 THEN "cleanup" ELSE "jobs"]
  BY DEF SyncJob, At
<1>1. /\ jobs \in [Jobs -> JobStates] /\ Planned(flow, jobs, several)
      /\ flow.migration \in BOOLEAN /\ (jobs["dispatcher"] = "elsewhere" => several)
  BY DEF DInv, Monitors, Worked, Flows
<1>2. /\ {"dispatcher", "probe", "precheck"} \subseteq Jobs
      /\ {"live", "dormant", "absent"} \subseteq JobStates
      /\ DirectJobs = {"probe", "precheck"}
  BY DEF Jobs, JobStates, DirectJobs
<1> DEFINE toLive(j) == <<j, "live">>
           toDormant(j) == <<j, "dormant">>
<1>3. \A j \in Jobs : toLive(j) \in Jobs \X JobStates /\ toDormant(j) \in Jobs \X JobStates
  BY <1>2
<1>4. CASE flow.migration /\ flow.left = JobPlan(TRUE)
  <2>1. /\ Head(flow.left) = toLive("probe") /\ Tail(flow.left) = <<toLive("precheck")>>
        /\ "jobs" = IF Len(flow.left) = 1 THEN "cleanup" ELSE "jobs"
    BY <1>4, PlanSteps DEF JobPlan
  <2>2. jobs' = [jobs EXCEPT !["probe"] = "live"]
    BY <2>1, SyncTakes, Zenon
  <2>3. /\ jobs' \in [Jobs -> JobStates] /\ jobs'["probe"] = "live"
        /\ jobs'["dispatcher"] = jobs["dispatcher"] /\ jobs'["precheck"] = jobs["precheck"]
    BY <1>1, <1>2, <2>2, JobSet
  <2>4. MonitorsKept /\ (jobs'["dispatcher"] = "elsewhere" => several)
    BY <1>1, <1>2, <2>3 DEF MonitorsKept, Monitored
  <2>5. flow' = [flow EXCEPT !.left = <<toLive("precheck")>>, !.pc = "jobs"]
    BY <2>1, SyncMoves, Zenon
  <2>6. <<toLive("precheck")>> \in Lefts
    BY <1>2, <1>3, PlansAreLefts
  <2>7. \A f \in Flows : f.pc = "jobs" /\ f.left = <<toLive("precheck")>>
           /\ f.migration = flow.migration => Planned(f, jobs', several)
    BY <1>4, <2>3 DEF Planned
  <2> QED BY <1>0, <2>3, <2>4, <2>5, <2>6, <2>7, JobStep
<1>5. CASE /\ flow.migration /\ flow.left = <<<<"precheck", "live">>>>
           /\ jobs["probe"] = "live"
  <2>1. /\ Head(flow.left) = toLive("precheck") /\ Tail(flow.left) = <<>>
        /\ "cleanup" = IF Len(flow.left) = 1 THEN "cleanup" ELSE "jobs"
    BY <1>5, PlanSteps
  <2>2. jobs' = [jobs EXCEPT !["precheck"] = "live"]
    BY <2>1, SyncTakes, Zenon
  <2>3. /\ jobs' \in [Jobs -> JobStates] /\ jobs'["precheck"] = "live"
        /\ jobs'["dispatcher"] = jobs["dispatcher"] /\ jobs'["probe"] = jobs["probe"]
    BY <1>1, <1>2, <2>2, JobSet
  <2>4. MonitorsKept /\ (jobs'["dispatcher"] = "elsewhere" => several)
    BY <1>1, <1>2, <2>3 DEF MonitorsKept, Monitored
  <2>5. flow' = [flow EXCEPT !.left = <<>>, !.pc = "cleanup"]
    BY <2>1, SyncMoves, Zenon
  <2>7. \A f \in Flows : f.pc = "cleanup" /\ f.left = <<>>
           /\ f.migration = flow.migration => Planned(f, jobs', several)
    BY <1>2, <1>5, <2>3 DEF Planned
  <2> QED BY <1>0, <2>3, <2>4, <2>5, PlansAreLefts, <2>7, JobStep
<1>6. CASE ~flow.migration /\ flow.left = JobPlan(FALSE)
  <2>1. /\ Head(flow.left) = toLive("dispatcher")
        /\ Tail(flow.left) = <<toDormant("probe"), toDormant("precheck")>>
        /\ "jobs" = IF Len(flow.left) = 1 THEN "cleanup" ELSE "jobs"
    BY <1>6, PlanSteps DEF JobPlan
  <2>2. jobs' = [jobs EXCEPT !["dispatcher"] = "live"]
    BY <2>1, SyncTakes, Zenon
  <2>3. jobs' \in [Jobs -> JobStates] /\ jobs'["dispatcher"] = "live"
    BY <1>1, <1>2, <2>2, JobSet
  <2>4. MonitorsKept /\ (jobs'["dispatcher"] = "elsewhere" => several)
    BY <2>3 DEF MonitorsKept, Monitored
  <2>5. flow' = [flow EXCEPT !.left = <<toDormant("probe"), toDormant("precheck")>>, !.pc = "jobs"]
    BY <2>1, SyncMoves, Zenon
  <2>6. <<toDormant("probe"), toDormant("precheck")>> \in Lefts
    BY <1>2, <1>3, PlansAreLefts
  <2>7. \A f \in Flows : f.pc = "jobs" /\ f.left = <<toDormant("probe"), toDormant("precheck")>>
           /\ f.migration = flow.migration => Planned(f, jobs', several)
    BY <1>6, <2>3 DEF Planned
  <2> QED BY <1>0, <2>3, <2>4, <2>5, <2>6, <2>7, JobStep
<1>7. CASE /\ ~flow.migration /\ flow.left = <<<<"probe", "dormant">>, <<"precheck", "dormant">>>>
           /\ jobs["dispatcher"] = "live"
  <2>1. /\ Head(flow.left) = toDormant("probe") /\ Tail(flow.left) = <<toDormant("precheck")>>
        /\ "jobs" = IF Len(flow.left) = 1 THEN "cleanup" ELSE "jobs"
    BY <1>7, PlanSteps
  <2>2. jobs' = [jobs EXCEPT !["probe"] = "dormant"]
    BY <2>1, SyncTakes, Zenon
  <2>3. jobs' \in [Jobs -> JobStates] /\ jobs'["dispatcher"] = "live"
    BY <1>1, <1>2, <1>7, <2>2, JobSet
  <2>4. MonitorsKept /\ (jobs'["dispatcher"] = "elsewhere" => several)
    BY <2>3 DEF MonitorsKept, Monitored
  <2>5. flow' = [flow EXCEPT !.left = <<toDormant("precheck")>>, !.pc = "jobs"]
    BY <2>1, SyncMoves, Zenon
  <2>6. <<toDormant("precheck")>> \in Lefts
    BY <1>2, <1>3, PlansAreLefts
  <2>7. \A f \in Flows : f.pc = "jobs" /\ f.left = <<toDormant("precheck")>>
           /\ f.migration = flow.migration => Planned(f, jobs', several)
    BY <1>7, <2>3 DEF Planned
  <2> QED BY <1>0, <2>3, <2>4, <2>5, <2>6, <2>7, JobStep
<1>8. CASE /\ ~flow.migration /\ flow.left = <<<<"precheck", "dormant">>>>
           /\ jobs["dispatcher"] = "live"
  <2>1. /\ Head(flow.left) = toDormant("precheck") /\ Tail(flow.left) = <<>>
        /\ "cleanup" = IF Len(flow.left) = 1 THEN "cleanup" ELSE "jobs"
    BY <1>8, PlanSteps
  <2>2. jobs' = [jobs EXCEPT !["precheck"] = "dormant"]
    BY <2>1, SyncTakes, Zenon
  <2>3. jobs' \in [Jobs -> JobStates] /\ jobs'["dispatcher"] = "live"
    BY <1>1, <1>2, <1>8, <2>2, JobSet
  <2>4. MonitorsKept /\ (jobs'["dispatcher"] = "elsewhere" => several)
    BY <2>3 DEF MonitorsKept, Monitored
  <2>5. flow' = [flow EXCEPT !.left = <<>>, !.pc = "cleanup"]
    BY <2>1, SyncMoves, Zenon
  <2>7. \A f \in Flows : f.pc = "cleanup" /\ f.left = <<>>
           /\ f.migration = flow.migration => Planned(f, jobs', several)
    BY <1>8, <2>3 DEF Planned
  <2> QED BY <1>0, <2>3, <2>4, <2>5, PlansAreLefts, <2>7, JobStep
<1> QED BY <1>0, <1>1, <1>4, <1>5, <1>6, <1>7, <1>8 DEF Planned

LEMMA CleanupHolds ==
  ASSUME DInv, Cleanup
  PROVE  DInv'
<1> DEFINE none(j) == <<j, "absent">>
<1>0. /\ UNCHANGED <<revisions, traffic, status, tagged, jobs, several, now, quota>>
      /\ flow.kind = "deploy" /\ flow.pc = "cleanup"
  BY DEF Cleanup, At
<1>1. /\ jobs \in [Jobs -> JobStates] /\ Planned(flow, jobs, several)
      /\ flow.migration \in BOOLEAN /\ (jobs'["dispatcher"] = "elsewhere" => several)
  BY <1>0 DEF DInv, Monitors, Worked, Flows
<1>2. none("legacy") \in Jobs \X JobStates /\ none("dispatcher") \in Jobs \X JobStates
  BY DEF Jobs, JobStates
<1>3. PICK described \in BOOLEAN :
        flow' = [flow EXCEPT !.pc = "delete", !.left = <<none("legacy")>> \o
          (IF MayDeleteDispatcher(described) THEN <<none("dispatcher")>> ELSE <<>>)]
  BY DEF Cleanup
<1>4. CASE MayDeleteDispatcher(described)
  <2>1. flow.migration /\ ~several
    BY <1>4 DEF MayDeleteDispatcher
  <2>2. \A d \in DirectJobs : jobs[d] = "live"
    BY <1>0, <1>1, <2>1 DEF Planned
  <2>3. <<none("legacy")>> \o <<none("dispatcher")>> = <<none("legacy"), none("dispatcher")>>
    <3>1. <<none("legacy")>> \in Lefts
      BY <1>2, PlansAreLefts
    <3>2. <<none("legacy")>> \o <<none("dispatcher")>>
            = Append(<<none("legacy")>>, none("dispatcher"))
      BY <1>2, <3>1, AppendIsConcat DEF Lefts
    <3> DEFINE e == none("legacy")
               d == none("dispatcher")
               a == Append(<<e>>, d)
               b == <<e, d>>
    <3>3. e \in Jobs \X JobStates /\ d \in Jobs \X JobStates /\ b \in Lefts
      BY <1>2, PlansAreLefts
    <3> HIDE DEF e, d
    <3>4. b[1] = e /\ b[2] = d /\ Len(b) = 2 /\ <<e>>[1] = e /\ Len(<<e>>) = 1
      OBVIOUS
    <3>5. <<e>> \in Lefts
      BY <3>3, PlansAreLefts
    <3>6. a \in Lefts /\ Len(a) = 2 /\ a[1] = e /\ a[2] = d
      BY <3>3, <3>4, <3>5, AppendProperties DEF Lefts
    <3> HIDE DEF a, b
    <3>7. \A i \in 1 .. Len(a) : a[i] = b[i]
      BY <3>4, <3>6
    <3>8. a = b
      BY <3>3, <3>4, <3>6, <3>7, SeqEqual DEF Lefts
    <3> QED BY <3>2, <3>8 DEF a, b, e, d
  <2>4. flow' = [flow EXCEPT !.pc = "delete", !.left = <<none("legacy"), none("dispatcher")>>]
    BY <1>3, <1>4, <2>3
  <2>5. <<none("legacy"), none("dispatcher")>> \in Lefts
    BY <1>2, PlansAreLefts
  <2>6. \A f \in Flows : f.pc = "delete" /\ f.left = <<none("legacy"), none("dispatcher")>>
           /\ f.migration = flow.migration => Planned(f, jobs', several)
    BY <1>0, <2>1, <2>2 DEF Planned
  <2> QED BY <1>0, <1>1, <2>4, <2>5, <2>6, JobStep
<1>5. CASE ~MayDeleteDispatcher(described)
  <2>3. <<none("legacy")>> \o <<>> = <<none("legacy")>>
    OBVIOUS
  <2>4. flow' = [flow EXCEPT !.pc = "delete", !.left = <<none("legacy")>>]
    BY <1>3, <1>5, <2>3
  <2>5. <<none("legacy")>> \in Lefts
    BY <1>2, PlansAreLefts
  <2>6. \A f \in Flows : f.pc = "delete" /\ f.left = <<none("legacy")>>
           /\ f.migration = flow.migration => Planned(f, jobs', several)
    BY <1>0 DEF Planned
  <2> QED BY <1>0, <1>1, <2>4, <2>5, <2>6, JobStep
<1> QED BY <1>4, <1>5

LEMMA DeleteHolds ==
  ASSUME DInv, DeleteJob
  PROVE  DInv' /\ MonitorsKept
<1> DEFINE none(j) == <<j, "absent">>
<1>0. /\ UNCHANGED <<revisions, traffic, status, tagged, several, now, quota>>
      /\ flow.kind = "deploy" /\ flow.pc = "delete"
      /\ jobs' = [jobs EXCEPT ![Head(flow.left)[1]] = "absent"] \/ jobs' = jobs
      /\ flow' = [flow EXCEPT !.left = Tail(flow.left),
                  !.pc = IF Len(flow.left) = 1 THEN "ok" ELSE "delete"]
  BY DEF DeleteJob, At
<1>1. /\ jobs \in [Jobs -> JobStates] /\ Planned(flow, jobs, several)
      /\ jobs["dispatcher"] = "elsewhere" => several
  BY DEF DInv, Monitors
<1>2. /\ "legacy" \in Jobs /\ "dispatcher" \in Jobs /\ "absent" \in JobStates
      /\ DirectJobs \subseteq Jobs \ {"legacy", "dispatcher"}
      /\ none("legacy") \in Jobs \X JobStates /\ none("dispatcher") \in Jobs \X JobStates
  BY DEF Jobs, JobStates, DirectJobs
<1>3. CASE flow.left = <<<<"legacy", "absent">>>>
  <2>1. /\ Head(flow.left) = none("legacy") /\ Tail(flow.left) = <<>>
        /\ "ok" = IF Len(flow.left) = 1 THEN "ok" ELSE "delete"
    BY <1>3, PlanSteps
  <2>2. jobs' = [jobs EXCEPT !["legacy"] = "absent"] \/ jobs' = jobs
    BY <2>1, DeleteTakes, Zenon
  <2>3. /\ jobs' \in [Jobs -> JobStates]
        /\ \A j \in DirectJobs \cup {"dispatcher"} : jobs'[j] = jobs[j]
    BY <1>1, <1>2, <2>2, JobSet
  <2>4. MonitorsKept /\ (jobs'["dispatcher"] = "elsewhere" => several)
    BY <1>1, <2>3 DEF MonitorsKept, Monitored
  <2>5. flow' = [flow EXCEPT !.left = <<>>, !.pc = "ok"]
    BY <2>1, DeleteTakes, Zenon
  <2>6. \A f \in Flows : f.pc = "ok" /\ f.left = <<>>
           /\ f.migration = flow.migration => Planned(f, jobs', several)
    BY DEF Planned
  <2> QED BY <1>0, <2>3, <2>4, <2>5, <2>6, PlansAreLefts, JobStep
<1>4. CASE /\ flow.left = <<<<"legacy", "absent">>, <<"dispatcher", "absent">>>>
           /\ ~several /\ \A d \in DirectJobs : jobs[d] = "live"
  <2>1. /\ Head(flow.left) = none("legacy") /\ Tail(flow.left) = <<none("dispatcher")>>
        /\ "delete" = IF Len(flow.left) = 1 THEN "ok" ELSE "delete"
    BY <1>4, PlanSteps
  <2>2. jobs' = [jobs EXCEPT !["legacy"] = "absent"] \/ jobs' = jobs
    BY <2>1, DeleteTakes, Zenon
  <2>3. /\ jobs' \in [Jobs -> JobStates]
        /\ \A j \in DirectJobs \cup {"dispatcher"} : jobs'[j] = jobs[j]
    BY <1>1, <1>2, <2>2, JobSet
  <2>4. MonitorsKept /\ (jobs'["dispatcher"] = "elsewhere" => several)
    BY <1>1, <2>3 DEF MonitorsKept, Monitored
  <2>5. flow' = [flow EXCEPT !.left = <<none("dispatcher")>>, !.pc = "delete"]
    BY <2>1, DeleteTakes, Zenon
  <2>6. \A f \in Flows : f.pc = "delete" /\ f.left = <<none("dispatcher")>>
           /\ f.migration = flow.migration => Planned(f, jobs', several)
    BY <1>4, <2>3 DEF Planned
  <2>7. <<none("dispatcher")>> \in Lefts
    BY <1>2, PlansAreLefts
  <2> QED BY <1>0, <2>3, <2>4, <2>5, <2>6, <2>7, JobStep
<1>5. CASE /\ flow.left = <<<<"dispatcher", "absent">>>>
           /\ ~several /\ \A d \in DirectJobs : jobs[d] = "live"
  <2>1. /\ Head(flow.left) = none("dispatcher") /\ Tail(flow.left) = <<>>
        /\ "ok" = IF Len(flow.left) = 1 THEN "ok" ELSE "delete"
    BY <1>5, PlanSteps
  <2>2. jobs' = [jobs EXCEPT !["dispatcher"] = "absent"] \/ jobs' = jobs
    BY <2>1, DeleteTakes, Zenon
  <2>3. /\ jobs' \in [Jobs -> JobStates]
        /\ \A j \in DirectJobs : jobs'[j] = jobs[j]
        /\ jobs'["dispatcher"] = "absent" \/ jobs' = jobs
    BY <1>1, <1>2, <2>2, JobSet
  <2>4. MonitorsKept /\ (jobs'["dispatcher"] = "elsewhere" => several)
    BY <1>1, <1>5, <2>3 DEF MonitorsKept, Monitored
  <2>5. flow' = [flow EXCEPT !.left = <<>>, !.pc = "ok"]
    BY <2>1, DeleteTakes, Zenon
  <2>6. \A f \in Flows : f.pc = "ok" /\ f.left = <<>>
           /\ f.migration = flow.migration => Planned(f, jobs', several)
    BY DEF Planned
  <2> QED BY <1>0, <2>3, <2>4, <2>5, <2>6, PlansAreLefts, JobStep
<1> QED BY <1>0, <1>1, <1>3, <1>4, <1>5 DEF Planned

-----------------------------------------------------------------------------
(* The account-facts sync and the staging                                  *)

(* A capture: the workflow goes on with what the service answers it.       *)
LEMMA CaptureStep ==
  ASSUME DInv, UNCHANGED <<revisions, traffic, status, tagged, jobs, several, now, quota>>,
         flow.kind # "deploy", flow.pc # "ok",
         flow' = [flow EXCEPT !.pc = "update", !.before = {View}]
  PROVE  DInv'
<1>1. /\ flow \in Flows /\ Honest(flow, revisions) /\ revisions \in Seq(Revisions)
      /\ Grows(revisions, revisions) /\ View \in Views /\ View.created = Len(revisions)
      /\ Len(revisions) \in Nat /\ revisions' = revisions
  BY ViewType
<1>2. PICK v \in Views : v = View
  BY <1>1
<1>3. "update" \in Pcs /\ {v} \in SUBSET Views /\ flow' = [flow EXCEPT !.pc = "update", !.before = {v}]
  BY <1>2 DEF Pcs
<1> DEFINE B == {v}
<1>4. B \in SUBSET Views /\ flow' = [flow EXCEPT !.pc = "update", !.before = B]
  BY <1>3
<1>5. \A b \in B : b.created <= Len(revisions)
  BY <1>1, <1>2
<1> HIDE DEF B
<1>6. /\ flow' \in Flows /\ SameRun(flow, flow') /\ flow'.pc = "update"
      /\ flow'.before = B /\ flow'.after = flow.after
  BY <1>1, <1>3, <1>4, GoBefore
<1>7. flow.after = {}
  BY <1>1 DEF Honest
<1>8. Honest(flow', revisions')
  BY <1>1, <1>5, <1>6, <1>7 DEF Honest
<1> QED BY <1>6, <1>8, NotesOnly, DeploymentStep

(* A new revision without traffic, then the check of the service.          *)
LEMMA UpdateStep ==
  ASSUME DInv, UNCHANGED <<status, jobs, several, now, quota>>, traffic' = Pinned,
         flow.pc = "update", NEW t \in Templates, NEW ready \in BOOLEAN, NewRevision(t, ready),
         IF ready THEN Go("verify") ELSE Fail,
         tagged' = tagged \/ tagged' = Created + 1
  PROVE  DInv'
<1>1. /\ flow \in Flows /\ Honest(flow, revisions) /\ revisions \in Seq(Revisions)
      /\ Len(revisions) \in Nat /\ now \in 0 .. MaxTime /\ tagged \in 0 .. Len(revisions)
  BY ViewType DEF DInv, Clocked, Served, Created
<1>2. /\ revisions' \in Seq(Revisions) /\ Grows(revisions, revisions')
      /\ Len(revisions') = Len(revisions) + 1
  BY <1>1, NewRevisionGrows
<1>3. tagged' \in 0 .. Len(revisions') /\ Clocked'
  BY <1>1, <1>2 DEF Created, DInv, Clocked
<1>4. CASE Go("failed")
  BY <1>2, <1>3, <1>4, PlainStep DEF Plain
<1>5. CASE Go("verify")
  <2>1. "verify" \in Pcs
    BY DEF Pcs
  <2>2. /\ flow' \in Flows /\ SameRun(flow, flow') /\ flow'.pc = "verify"
        /\ flow'.before = flow.before /\ flow'.after = flow.after
    BY <1>1, <1>5, <2>1, GoMoves
  <2>3. \A b \in flow'.before : b.created \in Nat /\ b.created <= Len(revisions)
    BY <1>1, <2>2 DEF Honest, Flows, Views
  <2>4. \A b \in flow'.before : b.created < Len(revisions')
    BY <1>1, <1>2, <2>3
  <2>5. flow'.pc \notin {"shift", "poll", "update", "jobs", "cleanup", "delete"}
    BY <2>2
  <2>6. Honest(flow', revisions')
    BY <1>1, <1>2, <2>2, <2>4, <2>5, HonestMove
  <2> QED BY <1>2, <1>3, <2>2, <2>5, <2>6, DeploymentStep
<1> QED BY <1>4, <1>5 DEF Fail

(* A report: the workflow ends well with what the service answers it.      *)
LEMMA ReportStep ==
  ASSUME DInv, UNCHANGED <<revisions, traffic, status, tagged, jobs, several, now, quota>>,
         flow.kind # "deploy", flow.pc = "verify",
         flow' = [flow EXCEPT !.pc = "ok", !.after = {View}],
         \A g \in Flows : SameRun(flow, g) /\ g.before = flow.before => Reported(View, g, revisions)
  PROVE  DInv'
<1>1. /\ flow \in Flows /\ View \in Views /\ revisions' = revisions
  BY ViewType
<1>2. PICK v \in Views : v = View
  BY <1>1
<1> DEFINE A == {v}
<1>3. "ok" \in Pcs /\ A \in SUBSET Views /\ flow' = [flow EXCEPT !.pc = "ok", !.after = A]
  BY <1>2 DEF Pcs
<1>4. \A a \in A : a = View
  BY <1>2
<1> HIDE DEF A
<1>5. /\ flow' \in Flows /\ SameRun(flow, flow') /\ flow'.pc = "ok"
      /\ flow'.before = flow.before /\ flow'.after = A
  BY <1>1, <1>3, GoAfter
<1>6. Reported(View, flow', revisions')
  BY <1>1, <1>5
<1>7. Honest(flow', revisions')
  BY <1>4, <1>5, <1>6 DEF Honest
<1> QED BY <1>5, <1>7, NotesOnly, DeploymentStep

LEMMA FactsBeforeHolds ==
  ASSUME DInv, FactsBefore
  PROVE  DInv'
<1>1. /\ UNCHANGED <<revisions, traffic, status, tagged, jobs, several, now, quota>>
      /\ flow.kind = "facts" /\ flow.pc = "begin"
  BY DEF FactsBefore, At
<1>2. Go("failed") \/ flow' = [flow EXCEPT !.pc = "update", !.before = {View}]
  BY DEF FactsBefore, Fail
<1> QED BY <1>1, <1>2, NotesOnly, PlainStep, CaptureStep DEF Plain

LEMMA FactsUpdateHolds ==
  ASSUME DInv, FactsUpdate
  PROVE  DInv'
<1>1. /\ UNCHANGED <<status, tagged, jobs, several, now, quota>> /\ traffic' = Pinned
      /\ flow.kind = "facts" /\ flow.pc = "update"
  BY DEF FactsUpdate, At
<1>2. PICK ready \in BOOLEAN, a \in AliasesAfter(View.template, "desired") :
        /\ NewRevision([View.template EXCEPT !.facts = "desired", !.alias = a], ready)
        /\ IF ready THEN Go("verify") ELSE Fail
  BY DEF FactsUpdate
<1> DEFINE t1 == [View.template EXCEPT !.facts = "desired"]
           t2 == [t1 EXCEPT !.alias = a]
<1>3. NewRevision(t2, ready)
  BY <1>2
<1>4. t1 \in Templates
  BY ViewType, TemplateField
<1> HIDE DEF t1
<1>5. t2 \in Templates
  BY <1>4, AliasesAfterType, TemplateField
<1> HIDE DEF t2
<1> QED BY <1>1, <1>2, <1>3, <1>5, UpdateStep

(* Templates whose digests agree differ in the facts and their secret.     *)
LEMMA UnrelatedAgree ==
  ASSUME NEW s \in Templates, NEW t \in Templates, Unrelated(s) = Unrelated(t),
         s.facts = "desired"
  PROVE  s = [t EXCEPT !.facts = "desired", !.alias = s.alias]
<1> DEFINE us == IF UsedElsewhere(s) THEN "other" ELSE "none"
           ut == IF UsedElsewhere(t) THEN "other" ELSE "none"
           a == [s EXCEPT !.facts = "unset", !.alias = us]
           b == [t EXCEPT !.facts = "unset", !.alias = ut]
<1>1. a = b
  BY DEF Unrelated
<1>2. a.image = s.image /\ a.commit = s.commit /\ a.env = s.env
  BY DEF Templates
<1>3. b.image = t.image /\ b.commit = t.commit /\ b.env = t.env
  BY DEF Templates
<1> HIDE DEF a, b
<1>4. s.image = t.image /\ s.commit = t.commit /\ s.env = t.env
  BY <1>1, <1>2, <1>3
<1> DEFINE t1 == [t EXCEPT !.facts = "desired"]
           t2 == [t1 EXCEPT !.alias = s.alias]
<1>5. /\ t1 \in Templates /\ t1.image = t.image /\ t1.commit = t.commit /\ t1.env = t.env
      /\ t1.facts = "desired"
  BY DEF Templates
<1> HIDE DEF t1
<1>6. /\ t2 \in Templates /\ t2.image = t.image /\ t2.commit = t.commit /\ t2.env = t.env
      /\ t2.facts = "desired" /\ t2.alias = s.alias
  BY <1>5 DEF Templates
<1> HIDE DEF t2
<1>7. s = t2
  BY <1>4, <1>6 DEF Templates
<1> QED BY <1>7 DEF t1, t2

LEMMA FactsAfterHolds ==
  ASSUME DInv, FactsAfter
  PROVE  DInv'
<1>1. /\ UNCHANGED <<revisions, traffic, status, tagged, jobs, several, now, quota>>
      /\ flow.kind = "facts" /\ flow.pc = "verify"
  BY DEF FactsAfter, At
<1>2. CASE Go("failed")
  BY <1>1, <1>2, NotesOnly, PlainStep DEF Plain
<1>3. CASE /\ \A b \in flow.before : FactsUnchanged(View, Baseline(b))
           /\ SourceVerified(Created, flow.sha)
           /\ flow' = [flow EXCEPT !.pc = "ok", !.after = {View}]
  <2>1. /\ flow \in Flows /\ Honest(flow, revisions) /\ flow.before \subseteq Views
        /\ View \in Views /\ View.created = Len(revisions) /\ In(View.created, revisions)
        /\ View.template = revisions[View.created].template /\ View.template \in Templates
        /\ View.status = status
    BY ViewType DEF Flows
  <2>2. ReadyIn(View.status.revision, revisions)
    BY <2>1 DEF DInv, Served
  <2>3. ASSUME NEW b \in flow.before
        PROVE  /\ View.status.revision = b.status.revision /\ View.created > b.created
               /\ View.template = [b.template EXCEPT !.facts = "desired",
                                     !.alias = View.template.alias]
    <3>1. Baseline(View) = Baseline(b) /\ View.template.facts = "desired"
      BY <1>3 DEF FactsUnchanged
    <3>2. Unrelated(View.template) = Unrelated(b.template)
          /\ View.status.revision = b.status.revision
      BY <3>1 DEF Baseline
    <3>3. b.template \in Templates /\ b.created \in Nat
      BY <2>1 DEF Views
    <3>4. b.created < Len(revisions)
      BY <1>1, <2>1 DEF Honest
    <3>5. View.created > b.created
      BY <2>1, <3>3, <3>4, ViewType
    <3> QED BY <2>1, <3>1, <3>2, <3>3, <3>5, UnrelatedAgree
  <2>4. revisions[View.created].template.commit = flow.sha
    BY <1>3, <2>1 DEF SourceVerified, Created
  <2>5. \A g \in Flows : SameRun(flow, g) /\ g.before = flow.before => Reported(View, g, revisions)
    BY <1>1, <2>1, <2>2, <2>3, <2>4 DEF SameRun, Reported
  <2> QED BY <1>1, <1>3, <2>5, ReportStep
<1> QED BY <1>2, <1>3 DEF FactsAfter, Fail

LEMMA StageCaptureHolds ==
  ASSUME DInv, StageCapture
  PROVE  DInv'
<1>1. /\ UNCHANGED <<revisions, traffic, status, tagged, jobs, several, now, quota>>
      /\ flow.kind = "stage" /\ flow.pc = "begin"
  BY DEF StageCapture, At
<1>2. Go("failed") \/ flow' = [flow EXCEPT !.pc = "update", !.before = {View}]
  BY DEF StageCapture, Fail
<1> QED BY <1>1, <1>2, NotesOnly, PlainStep, CaptureStep DEF Plain

LEMMA StageDeployHolds ==
  ASSUME DInv, StageDeploy
  PROVE  DInv'
<1>1. /\ UNCHANGED <<status, jobs, several, now, quota>> /\ traffic' = Pinned
      /\ flow.pc = "update" /\ tagged' = Created + 1
  BY DEF StageDeploy, At
<1>2. PICK ready \in BOOLEAN :
        /\ NewRevision([View.template EXCEPT !.image = Diagnostic], ready)
        /\ IF ready THEN Go("verify") ELSE Fail
  BY DEF StageDeploy
<1> DEFINE t == [View.template EXCEPT !.image = Diagnostic]
<1>3. t \in Templates
  BY ViewType, TemplateField DEF Images
<1>4. NewRevision(t, ready)
  BY <1>2
<1> HIDE DEF t
<1> QED BY <1>1, <1>2, <1>3, <1>4, UpdateStep

(* Templates that agree but for their image.                               *)
LEMMA ImageAgree ==
  ASSUME NEW s \in Templates, NEW t \in Templates, s.image = Diagnostic,
         [s EXCEPT !.image = Diagnostic] = [t EXCEPT !.image = Diagnostic]
  PROVE  s = [t EXCEPT !.image = Diagnostic]
<1>1. s = [s EXCEPT !.image = Diagnostic]
  BY DEF Templates
<1> QED BY <1>1

LEMMA StageVerifyHolds ==
  ASSUME DInv, StageVerify
  PROVE  DInv'
<1>1. /\ UNCHANGED <<revisions, traffic, status, tagged, jobs, several, now, quota>>
      /\ flow.kind = "stage" /\ flow.pc = "verify"
  BY DEF StageVerify, At
<1>2. CASE Go("failed")
  BY <1>1, <1>2, NotesOnly, PlainStep DEF Plain
<1>3. CASE /\ \A b \in flow.before : StageUnchanged(View, StageBaseline(b))
           /\ flow' = [flow EXCEPT !.pc = "ok", !.after = {View}]
  <2>1. /\ flow \in Flows /\ Honest(flow, revisions) /\ flow.before \subseteq Views
        /\ View \in Views /\ View.created = Len(revisions) /\ In(View.created, revisions)
        /\ View.template = revisions[View.created].template /\ View.template \in Templates
        /\ View.status = status
    BY ViewType DEF Flows
  <2>2. ReadyIn(View.status.revision, revisions)
    BY <2>1 DEF DInv, Served
  <2>3. ASSUME NEW b \in flow.before
        PROVE  /\ View.status.revision = b.status.revision /\ View.created > b.created
               /\ View.template = [b.template EXCEPT !.image = Diagnostic]
               /\ View.tagged = View.created /\ View.jobs = b.jobs
    <3>1. StageBaseline(View) = StageBaseline(b) /\ View.template.image = Diagnostic
          /\ View.tagged = View.created
      BY <1>3 DEF StageUnchanged, TagOnNewest
    <3>2. [View.template EXCEPT !.image = Diagnostic] = [b.template EXCEPT !.image = Diagnostic]
          /\ View.status = b.status /\ View.jobs = b.jobs
      BY <3>1 DEF StageBaseline
    <3>3. b.template \in Templates /\ b.created \in Nat
      BY <2>1 DEF Views
    <3>4. b.created < Len(revisions)
      BY <1>1, <2>1 DEF Honest
    <3>5. View.created > b.created
      BY <2>1, <3>3, <3>4, ViewType
    <3> QED BY <2>1, <3>1, <3>2, <3>3, <3>5, ImageAgree
  <2>5. \A g \in Flows : SameRun(flow, g) /\ g.before = flow.before => Reported(View, g, revisions)
    BY <1>1, <2>1, <2>2, <2>3 DEF SameRun, Reported
  <2> QED BY <1>1, <1>3, <2>5, ReportStep
<1> QED BY <1>2, <1>3 DEF StageVerify, Fail

-----------------------------------------------------------------------------
(* The deployment keeps its invariant, whatever the guard does.            *)

LEMMA DeploymentBegins == DeploymentInit => DInv
<1> SUFFICES ASSUME DeploymentInit PROVE DInv
  OBVIOUS
<1>1. PICK s \in Scenarios :
       /\ revisions = <<[template |-> s.template, ready |-> TRUE, created |-> 0],
                        [template |-> [s.template EXCEPT !.image = OldDiagnostic],
                         ready |-> TRUE, created |-> 0]>>
       /\ traffic = [latest |-> s.latest, revision |-> IF s.latest THEN 0 ELSE 1]
       /\ several = s.several /\ quota = s.quota
  BY DEF DeploymentInit
<1>2. /\ now = 0 /\ tagged = 2 /\ flow = Idle
      /\ status = [latest |-> traffic.latest, revision |-> IF traffic.latest THEN 2 ELSE 1]
  BY DEF DeploymentInit
<1>3. s.template \in Templates /\ s.latest \in BOOLEAN /\ s.several \in BOOLEAN /\ s.quota \in Quotas
  BY DEF DeploymentAssumption
<1> DEFINE t == [s.template EXCEPT !.image = OldDiagnostic]
           r1 == [template |-> s.template, ready |-> TRUE, created |-> 0]
           r2 == [template |-> t, ready |-> TRUE, created |-> 0]
<1>4. t \in Templates
  BY <1>3, TemplateField DEF Images
<1> HIDE DEF t
<1>5. r1 \in Revisions /\ r2 \in Revisions /\ r1.ready /\ r2.ready
  BY <1>3, <1>4 DEF Revisions
<1>6. revisions = <<r1, r2>>
  BY <1>1 DEF t
<1> HIDE DEF r1, r2
<1>7. revisions \in Seq(Revisions) /\ Len(revisions) = 2 /\ revisions[1].ready /\ revisions[2].ready
  BY <1>5, <1>6
<1>8. ReadyIn(1, revisions) /\ ReadyIn(2, revisions)
  BY <1>7 DEF ReadyIn, In
<1>9. Served
  <2>1. CASE s.latest
    <3>1. /\ traffic.latest = TRUE /\ traffic.revision = 0
          /\ status.latest = TRUE /\ status.revision = 2
          /\ traffic \in Traffic /\ status \in Traffic
      BY <1>1, <1>2, <2>1 DEF Traffic
    <3> QED BY <1>2, <1>7, <1>8, <3>1 DEF Served, Created
  <2>2. CASE ~s.latest
    <3>1. /\ traffic.latest = FALSE /\ traffic.revision = 1
          /\ status.latest = FALSE /\ status.revision = 1
          /\ traffic \in Traffic /\ status \in Traffic
      BY <1>1, <1>2, <1>3, <2>2 DEF Traffic
    <3> QED BY <1>2, <1>7, <1>8, <3>1 DEF Served, Created
  <2> QED BY <2>1, <2>2
<1>10. Clocked
  BY <1>1, <1>2, <1>3 DEF Clocked, Quotas
<1>11. Monitors
  <2>1. /\ jobs \in [Jobs -> JobStates]
        /\ jobs["dispatcher"] = "elsewhere" => several
    BY DEF DeploymentInit, Jobs, JobStates, DirectJobs
  <2>2. Planned(flow, jobs, several)
    BY <1>2, IdleType DEF Planned
  <2> QED BY <1>1, <1>3, <2>1, <2>2 DEF Monitors
<1>12. Worked
  BY <1>2, IdleType DEF Worked, Honest
<1> QED BY <1>9, <1>10, <1>11, <1>12 DEF DInv

LEMMA DeploymentSteps == DInv /\ DeploymentNext => DInv'
BY ConvergeHolds, BecomeReadyHolds, EditHolds, BeginHolds, SyncOtherHolds, AbortHolds, CaptureHolds,
   ImageHolds, ReadbackHolds, EnvironmentHolds, SelectHolds, ShiftHolds, PollHolds,
   SyncJobHolds, CleanupHolds, DeleteHolds, FactsBeforeHolds, FactsUpdateHolds,
   FactsAfterHolds, StageCaptureHolds, StageDeployHolds, StageVerifyHolds
   DEF DeploymentNext

LEMMA DeploymentStands ==
  ASSUME DInv, UNCHANGED deployment, Clocked'
  PROVE  DInv'
<1>1. UNCHANGED <<revisions, traffic, status, tagged, jobs, several, flow>>
  BY DEF deployment
<1>2. Served' /\ Worked'
  BY <1>1 DEF DInv, Served, Worked, Created
<1>3. Monitors'
  BY <1>1, JobsStay, MonitorsQuiet DEF DInv
<1> QED BY <1>2, <1>3 DEF DInv

LEMMA GuardSteps == DInv /\ GuardNext => DInv'
<1> SUFFICES ASSUME DInv, GuardNext PROVE DInv'
  OBVIOUS
<1>0. Clocked
  BY DEF DInv
<1>1. UNCHANGED deployment
  BY DEF GuardNext, Log, Tick, GuardStart, QueryScheduler, Decide, Send, SaveState, Die,
         QueryService
<1>2. CASE Log
  BY <1>0, <1>1, <1>2, QuotaSpent, DeploymentStands DEF Log
<1>3. CASE GuardStart
  BY <1>0, <1>1, <1>3, QuotaSpent, DeploymentStands DEF GuardStart
<1>4. CASE Tick
  <2>1. quota.ticks > 0 /\ quota' = [quota EXCEPT !.ticks = @ - 1] /\ now' = now + 1
    BY <1>4 DEF Tick
  <2>2. quota' \in Quotas /\ quota'.ticks = quota.ticks - 1 /\ quota.ticks \in 0 .. MaxTime
    BY <1>0, <2>1 DEF Clocked, Quotas
  <2>3. Clocked'
    BY <1>0, <2>1, <2>2 DEF Clocked
  <2> QED BY <1>1, <2>3, DeploymentStands
<1>5. CASE UNCHANGED <<now, quota>>
  <2>1. Clocked'
    BY <1>0, <1>5 DEF Clocked
  <2> QED BY <1>1, <2>1, DeploymentStands
<1> QED BY <1>2, <1>3, <1>4, <1>5 DEF GuardNext, QueryScheduler, Decide, Send, SaveState, Die,
           QueryService

LEMMA DeploymentHolds == Spec => []DInv
<1>1. Init => DInv
  BY DeploymentBegins DEF Init
<1>2. DInv /\ [Next]_vars => DInv'
  <2> SUFFICES ASSUME DInv, [Next]_vars PROVE DInv'
    OBVIOUS
  <2>1. CASE Next
    BY <2>1, DeploymentSteps, GuardSteps DEF Next
  <2>2. CASE UNCHANGED vars
    <3>1. UNCHANGED deployment /\ UNCHANGED <<now, quota>>
      BY <2>2 DEF vars
    <3>2. Clocked'
      BY <3>1 DEF DInv, Clocked
    <3> QED BY <3>1, <3>2, DeploymentStands
  <2> QED BY <2>1, <2>2
<1> QED BY <1>1, <1>2, PTL DEF Spec

LEMMA JobsAreKept == DInv /\ [Next]_vars => MonitorsKept \/ SyncOther
<1> SUFFICES ASSUME DInv, [Next]_vars, ~SyncOther PROVE MonitorsKept
  OBVIOUS
<1>1. CASE UNCHANGED jobs
  <2>1. Monitored => Monitored'
    BY <1>1 DEF Monitored
  <2> QED BY <1>1, <2>1 DEF MonitorsKept
<1>2. CASE jobs' = [jobs EXCEPT !["legacy"] = "absent"]
  <2>1. /\ jobs \in [Jobs -> JobStates] /\ {"legacy", "dispatcher"} \subseteq Jobs
        /\ DirectJobs \subseteq Jobs \ {"legacy", "dispatcher"}
    BY DEF DInv, Monitors, Jobs, DirectJobs
  <2>2. jobs'["dispatcher"] = jobs["dispatcher"] /\ \A j \in DirectJobs : jobs'[j] = jobs[j]
    BY <1>2, <2>1
  <2> QED BY <2>2 DEF MonitorsKept, Monitored
<1>3. CASE SyncJob \/ DeleteJob
  BY <1>3, SyncJobHolds, DeleteHolds
<1>4. CASE Edit
  BY <1>1, <1>2, <1>4 DEF Edit
<1>5. CASE DeploymentNext /\ ~(SyncJob \/ DeleteJob \/ Edit)
  <2>1. UNCHANGED jobs
    BY <1>5 DEF DeploymentNext, Converge, BecomeReady, Begin, Abort, CaptureDeployment,
       DeployImage, DeployReadback, SyncEnvironment, SelectRevision, ShiftTraffic, PollTraffic,
       Cleanup, FactsBefore, FactsUpdate, FactsAfter, StageCapture, StageDeploy, StageVerify
  <2> QED BY <1>1, <2>1
<1>6. CASE GuardNext
  <2>1. UNCHANGED deployment
    BY <1>6 DEF GuardNext, Log, Tick, GuardStart, QueryScheduler, Decide, Send, SaveState, Die,
         QueryService
  <2> QED BY <1>1, <2>1 DEF deployment
<1>7. CASE UNCHANGED vars
  BY <1>1, <1>7 DEF vars, deployment
<1> QED BY <1>3, <1>4, <1>5, <1>6, <1>7 DEF Next

(* Once a job calls this service's monitors one always does, whatever jobs *)
(* the workflow's "Sync Cloud Scheduler schedule" step sets or fails to    *)
(* set and cleanup_legacy_scheduler_jobs of reconcile_cloud_runtime.py     *)
(* deletes, in a migration to the direct jobs or back, until a sync of     *)
(* another service takes the dispatcher; and no cleanup deletes one that   *)
(* calls another service of the plan.                                      *)
THEOREM MonitoredThroughout == Spec => MonitoringIsKept
<1> DEFINE OneStep ==
      /\ Monitored => Monitored' \/ SyncOther
      /\ jobs["dispatcher"] = "elsewhere" => jobs'["dispatcher"] # "absent"
<1>1. ASSUME DInv, [Next]_vars PROVE OneStep
  <2>1. CASE SyncOther
    <3>1. jobs'["dispatcher"] = "elsewhere"
      BY <1>1, <2>1 DEF SyncOther, DInv, Monitors, Jobs
    <3> QED BY <2>1, <3>1
  <2>2. CASE ~SyncOther
    BY <1>1, <2>2, JobsAreKept DEF MonitorsKept
  <2> QED BY <2>1, <2>2
<1> QED BY <1>1, DeploymentHolds, PTL DEF Spec, MonitoringIsKept

(* What the traffic reconciliation, the account-facts sync and the staging *)
(* report is true of the service they read, whatever an operator edits     *)
(* between two of their commands.                                          *)
THEOREM ReportsHold == Spec => []ReportsAreTrue
BY DeploymentHolds, PartsOfDInv, PTL

-----------------------------------------------------------------------------
(* The invariant of the guard, in parts: r is its run, L the log, ch the   *)
(* cache and al the alerts.                                                *)

Ticks == 0 .. MaxTime
RunPcs == {"query", "decide", "send", "save", "done", "dead"}
RunRecords ==
  [pc : RunPcs, required : BOOLEAN, services : SUBSET Services, jobs : SUBSET Services,
   left : SUBSET Services, since : Ticks, starts : [Services -> Ticks],
   failures : SUBSET Entries, issues : SUBSET Issues, ids : SUBSET Ids, state : States,
   decided : Ticks, scope : SUBSET Entries]
Alerts == [events : SUBSET Ids, issues : SUBSET Issues, at : Ticks]

Crowd(e, L) ==
  {f \in L : /\ f.source = e.source /\ f.at >= e.at
             /\ e.source = "run" => f.service = e.service}
Crowded(e, L) == Cardinality(Crowd(e, L)) > Limit

(* A failure that its query should find, and what became of it.            *)
Sought(e, r, source, watched) ==
  e \in Failures(r.scope) /\ e.source = source /\ e.service \in watched /\ e.at >= r.starts[e.service]
RequestFound(e, r, L) ==
  e.id \in r.ids \/ <<"query", Shown[e.service]>> \in r.issues \/ Crowded(e, L)
JobFound(e, r, L) ==
  \/ e.id \in r.ids \/ <<"scheduler query", "all">> \in r.issues \/ Crowded(e, L)
  \/ \E f \in Failures(L) : f.source = "run" /\ SameFailure(e, f) /\ f.id \in r.ids

(* What the queries made so far have found.                                *)
Searched(r, L) ==
  /\ \A e : Sought(e, r, "run", r.services \ r.left) => RequestFound(e, r, L)
  /\ r.pc # "query" => \A e : Sought(e, r, "scheduler", r.jobs) => JobFound(e, r, L)
  /\ r.pc # "query" => r.left = {}
  /\ r.left \subseteq r.services /\ r.scope \subseteq L
  /\ \A f \in r.failures : f \in Failures(L) /\ f.source = "run" /\ f.id \in r.ids
  /\ \A s \in Services : r.starts[s] >= r.since
  /\ r.ids # {} => r.issues # {}

RunFits(r, L) == r \in RunRecords /\ Searched(r, L)

(* An id that an alert had, a set of issues that one had at time t.        *)
Named(id, al) == \E a \in al : id \in a.events
Raised(issues, t, al) == \E a \in al : a.issues = issues /\ a.at = t

(* The state remembers only what an alert had; what a run adds to it, the  *)
(* alert that it is about to send has.                                     *)
Remembers(state, al) ==
  /\ \A event \in state.events : Named(event[1], al)
  /\ \A k \in state.issues : Raised(k[1], k[2], al)
Pending(r) == IF r.pc = "send" THEN {[events |-> r.ids, issues |-> r.issues, at |-> r.decided]} ELSE {}

Timely(r, al) == \E a \in al : a.issues = r.issues /\ r.decided < a.at + Later(Reminder, 1)

AlertsFit(r, ch, al) ==
  /\ al \subseteq Alerts /\ ch \in States
  /\ Remembers(ch, al) /\ Remembers(r.state, al \cup Pending(r))
  /\ r.pc \in {"save", "done"} =>
       (\A id \in r.ids : Named(id, al)) /\ (r.issues # {} => Timely(r, al))

LogFits(L) == L \subseteq Entries /\ IsFiniteSet(L)

GInv == DInv /\ LogFits(log) /\ RunFits(run, log) /\ AlertsFit(run, cache, alerts)

-----------------------------------------------------------------------------
(* What the guard keeps of a run while it goes on.                         *)
SameWatch(r, q) ==
  /\ q.required = r.required /\ q.services = r.services /\ q.jobs = r.jobs
  /\ q.since = r.since /\ q.scope = r.scope

LEMMA RunField ==
  ASSUME NEW r \in RunRecords
  PROVE  /\ \A v \in RunPcs : LET q == [r EXCEPT !.pc = v] IN
              /\ q \in RunRecords /\ SameWatch(r, q)
              /\ q.pc = v /\ q.left = r.left /\ q.starts = r.starts /\ q.failures = r.failures
              /\ q.issues = r.issues /\ q.ids = r.ids /\ q.state = r.state /\ q.decided = r.decided
         /\ \A v \in SUBSET Services : LET q == [r EXCEPT !.left = v] IN
              /\ q \in RunRecords /\ SameWatch(r, q)
              /\ q.pc = r.pc /\ q.left = v /\ q.starts = r.starts /\ q.failures = r.failures
              /\ q.issues = r.issues /\ q.ids = r.ids /\ q.state = r.state /\ q.decided = r.decided
         /\ \A v \in [Services -> Ticks] : LET q == [r EXCEPT !.starts = v] IN
              /\ q \in RunRecords /\ SameWatch(r, q)
              /\ q.pc = r.pc /\ q.left = r.left /\ q.starts = v /\ q.failures = r.failures
              /\ q.issues = r.issues /\ q.ids = r.ids /\ q.state = r.state /\ q.decided = r.decided
         /\ \A v \in SUBSET Entries : LET q == [r EXCEPT !.failures = v] IN
              /\ q \in RunRecords /\ SameWatch(r, q)
              /\ q.pc = r.pc /\ q.left = r.left /\ q.starts = r.starts /\ q.failures = v
              /\ q.issues = r.issues /\ q.ids = r.ids /\ q.state = r.state /\ q.decided = r.decided
         /\ \A v \in SUBSET Issues : LET q == [r EXCEPT !.issues = v] IN
              /\ q \in RunRecords /\ SameWatch(r, q)
              /\ q.pc = r.pc /\ q.left = r.left /\ q.starts = r.starts /\ q.failures = r.failures
              /\ q.issues = v /\ q.ids = r.ids /\ q.state = r.state /\ q.decided = r.decided
         /\ \A v \in SUBSET Ids : LET q == [r EXCEPT !.ids = v] IN
              /\ q \in RunRecords /\ SameWatch(r, q)
              /\ q.pc = r.pc /\ q.left = r.left /\ q.starts = r.starts /\ q.failures = r.failures
              /\ q.issues = r.issues /\ q.ids = v /\ q.state = r.state /\ q.decided = r.decided
         /\ \A v \in States : LET q == [r EXCEPT !.state = v] IN
              /\ q \in RunRecords /\ SameWatch(r, q)
              /\ q.pc = r.pc /\ q.left = r.left /\ q.starts = r.starts /\ q.failures = r.failures
              /\ q.issues = r.issues /\ q.ids = r.ids /\ q.state = v /\ q.decided = r.decided
         /\ \A v \in Ticks : LET q == [r EXCEPT !.decided = v] IN
              /\ q \in RunRecords /\ SameWatch(r, q)
              /\ q.pc = r.pc /\ q.left = r.left /\ q.starts = r.starts /\ q.failures = r.failures
              /\ q.issues = r.issues /\ q.ids = r.ids /\ q.state = r.state /\ q.decided = v
<1>1. \A v \in RunPcs : LET q == [r EXCEPT !.pc = v] IN
      /\ q \in RunRecords /\ SameWatch(r, q)
      /\ q.pc = v /\ q.left = r.left /\ q.starts = r.starts /\ q.failures = r.failures
      /\ q.issues = r.issues /\ q.ids = r.ids /\ q.state = r.state /\ q.decided = r.decided
  BY DEF RunRecords, SameWatch
<1>2. \A v \in SUBSET Services : LET q == [r EXCEPT !.left = v] IN
      /\ q \in RunRecords /\ SameWatch(r, q)
      /\ q.pc = r.pc /\ q.left = v /\ q.starts = r.starts /\ q.failures = r.failures
      /\ q.issues = r.issues /\ q.ids = r.ids /\ q.state = r.state /\ q.decided = r.decided
  BY DEF RunRecords, SameWatch
<1>3. \A v \in [Services -> Ticks] : LET q == [r EXCEPT !.starts = v] IN
      /\ q \in RunRecords /\ SameWatch(r, q)
      /\ q.pc = r.pc /\ q.left = r.left /\ q.starts = v /\ q.failures = r.failures
      /\ q.issues = r.issues /\ q.ids = r.ids /\ q.state = r.state /\ q.decided = r.decided
  BY DEF RunRecords, SameWatch
<1>4. \A v \in SUBSET Entries : LET q == [r EXCEPT !.failures = v] IN
      /\ q \in RunRecords /\ SameWatch(r, q)
      /\ q.pc = r.pc /\ q.left = r.left /\ q.starts = r.starts /\ q.failures = v
      /\ q.issues = r.issues /\ q.ids = r.ids /\ q.state = r.state /\ q.decided = r.decided
  BY DEF RunRecords, SameWatch
<1>5. \A v \in SUBSET Issues : LET q == [r EXCEPT !.issues = v] IN
      /\ q \in RunRecords /\ SameWatch(r, q)
      /\ q.pc = r.pc /\ q.left = r.left /\ q.starts = r.starts /\ q.failures = r.failures
      /\ q.issues = v /\ q.ids = r.ids /\ q.state = r.state /\ q.decided = r.decided
  BY DEF RunRecords, SameWatch
<1>6. \A v \in SUBSET Ids : LET q == [r EXCEPT !.ids = v] IN
      /\ q \in RunRecords /\ SameWatch(r, q)
      /\ q.pc = r.pc /\ q.left = r.left /\ q.starts = r.starts /\ q.failures = r.failures
      /\ q.issues = r.issues /\ q.ids = v /\ q.state = r.state /\ q.decided = r.decided
  BY DEF RunRecords, SameWatch
<1>7. \A v \in States : LET q == [r EXCEPT !.state = v] IN
      /\ q \in RunRecords /\ SameWatch(r, q)
      /\ q.pc = r.pc /\ q.left = r.left /\ q.starts = r.starts /\ q.failures = r.failures
      /\ q.issues = r.issues /\ q.ids = r.ids /\ q.state = v /\ q.decided = r.decided
  BY DEF RunRecords, SameWatch
<1>8. \A v \in Ticks : LET q == [r EXCEPT !.decided = v] IN
      /\ q \in RunRecords /\ SameWatch(r, q)
      /\ q.pc = r.pc /\ q.left = r.left /\ q.starts = r.starts /\ q.failures = r.failures
      /\ q.issues = r.issues /\ q.ids = r.ids /\ q.state = r.state /\ q.decided = v
  BY DEF RunRecords, SameWatch
<1> QED BY <1>1, <1>2, <1>3, <1>4, <1>5, <1>6, <1>7, <1>8

LEMMA PartsOfGInv == GInv => TypeOK /\ NothingIsSilenced
<1> SUFFICES ASSUME GInv PROVE TypeOK /\ NothingIsSilenced
  OBVIOUS
<1>1. DeploymentTypeOK
  BY PartsOfDInv DEF GInv
<1>2. run \in RunRecords /\ run.left \subseteq run.services
  BY DEF GInv, RunFits, Searched
<1>3. TypeOK
  BY <1>1, <1>2 DEF GInv, LogFits, AlertsFit, TypeOK, RunRecords, RunPcs, Alerts, Ticks
<1>4. ASSUME run.pc = "done" PROVE NothingIsSilenced
  <2>1. /\ \A id \in run.ids : Named(id, alerts)
        /\ run.issues # {} => Timely(run, alerts)
    BY <1>4 DEF GInv, AlertsFit
  <2>2. ASSUME NEW e \in Failures(run.scope), Watched(e), e.at >= run.starts[e.service]
        PROVE  \/ Announced(e) \/ QueryFailed(e)
               \/ Cardinality(Competitors(e)) > Limit
               \/ /\ e.source = "scheduler"
                  /\ \E f \in Failures(log) : f.source = "run" /\ SameFailure(e, f) /\ Announced(f)
    <3>1. e.source \in {"run", "scheduler"}
      BY <1>2 DEF RunRecords, Entries, Failures
    <3>2. Crowd(e, log) = Competitors(e)
      BY DEF Crowd, Competitors
    <3>3. \A f : f.id \in run.ids => Announced(f)
      BY <2>1 DEF Named, Announced
    <3>4. CASE e.source = "run"
      <4>1. Sought(e, run, "run", run.services \ run.left)
        BY <1>4, <2>2, <3>4 DEF Sought, Watched, GInv, RunFits, Searched
      <4>2. RequestFound(e, run, log)
        BY <4>1 DEF GInv, RunFits, Searched
      <4> QED BY <3>2, <3>3, <3>4, <4>2 DEF RequestFound, Crowded, QueryFailed
    <3>5. CASE e.source = "scheduler"
      <4>1. Sought(e, run, "scheduler", run.jobs)
        BY <2>2, <3>5 DEF Sought, Watched
      <4>2. JobFound(e, run, log)
        BY <1>4, <4>1 DEF GInv, RunFits, Searched
      <4> QED BY <3>2, <3>3, <3>5, <4>2 DEF JobFound, Crowded, QueryFailed
    <3> QED BY <3>1, <3>4, <3>5
  <2> QED BY <2>1, <2>2 DEF NothingIsSilenced, Timely
<1> QED BY <1>3, <1>4 DEF NothingIsSilenced

-----------------------------------------------------------------------------
(* The logs                                                                *)

LEMMA CrowdGrows ==
  ASSUME NEW L, NEW M, LogFits(M), L \subseteq M, NEW e, Crowded(e, L)
  PROVE  Crowded(e, M)
<1>1. Crowd(e, L) \subseteq Crowd(e, M) /\ Crowd(e, M) \subseteq M
  BY DEF Crowd
<1>2. IsFiniteSet(Crowd(e, M)) /\ Cardinality(Crowd(e, M)) \in Nat
  BY <1>1, FS_Subset, FS_CardinalityType DEF LogFits
<1>3. /\ IsFiniteSet(Crowd(e, L)) /\ Cardinality(Crowd(e, L)) <= Cardinality(Crowd(e, M))
  BY <1>1, <1>2, FS_Subset
<1>4. Cardinality(Crowd(e, L)) \in Nat
  BY <1>3, FS_CardinalityType
<1> QED BY <1>2, <1>3, <1>4 DEF Crowded, GuardAssumption

(* More entries in the logs do not undo a search.                          *)
LEMMA SearchStands ==
  ASSUME NEW L, NEW M, LogFits(M), L \subseteq M, NEW r, RunFits(r, L)
  PROVE  RunFits(r, M)
<1>1. \A e : RequestFound(e, r, L) => RequestFound(e, r, M)
  BY CrowdGrows DEF RequestFound
<1>2. Failures(L) \subseteq Failures(M)
  BY DEF Failures
<1>3. \A e : JobFound(e, r, L) => JobFound(e, r, M)
  BY <1>2, CrowdGrows DEF JobFound
<1>4. Searched(r, M)
  BY <1>1, <1>2, <1>3 DEF RunFits, Searched
<1> QED BY <1>4 DEF RunFits

(* What a query leaves out, as many entries as it may answer crowd out.    *)
LEMMA MissedIsCrowded ==
  ASSUME LogFits(log), NEW matching \in SUBSET log, NEW Q \in Newest(matching),
         NEW e \in matching \ Q,
         \A f \in matching : f.source = e.source /\ (e.source = "run" => f.service = e.service)
  PROVE  Crowded(e, log)
<1>1. Q \subseteq matching /\ \A f \in Q : f.at >= e.at
  BY DEF Newest
<1>2. Cardinality(Q) = Smaller(Limit, Cardinality(matching))
  BY DEF Newest
<1>3. IsFiniteSet(matching) /\ Cardinality(matching) \in Nat
  BY FS_Subset, FS_CardinalityType DEF LogFits
<1>4. IsFiniteSet(Q) /\ Cardinality(Q) \in Nat
  BY <1>1, <1>3, FS_Subset, FS_CardinalityType
<1>5. IsFiniteSet(Q \cup {e}) /\ Cardinality(Q \cup {e}) = Cardinality(Q) + 1
  BY <1>4, FS_AddElement
<1>6. Cardinality(Q \cup {e}) <= Cardinality(matching)
  BY <1>1, <1>3, FS_Subset
<1>7. Cardinality(Q) = Limit
  BY <1>2, <1>3, <1>4, <1>5, <1>6 DEF Smaller, GuardAssumption
<1>8. e.at \in Nat /\ e.at >= e.at
  BY DEF LogFits, Entries
<1>9. Q \cup {e} \subseteq Crowd(e, log)
  BY <1>1, <1>8 DEF Crowd
<1>10. IsFiniteSet(Crowd(e, log)) /\ Cardinality(Crowd(e, log)) \in Nat
  <2>1. Crowd(e, log) \subseteq log
    BY DEF Crowd
  <2> QED BY <2>1, FS_Subset, FS_CardinalityType DEF LogFits
<1>11. Cardinality(Q \cup {e}) <= Cardinality(Crowd(e, log))
  BY <1>9, <1>10, FS_Subset
<1> QED BY <1>5, <1>7, <1>10, <1>11 DEF Crowded, GuardAssumption

(* What remains of a step that leaves the run, the cache and the alerts.   *)
LEMMA GuardStands ==
  ASSUME GInv, DInv', UNCHANGED <<run, cache, alerts>>, log \subseteq log', LogFits(log')
  PROVE  GInv'
<1>1. RunFits(run, log')
  BY SearchStands DEF GInv
<1> QED BY <1>1 DEF GInv

LEMMA LogHolds ==
  ASSUME GInv, Log, DInv'
  PROVE  GInv'
<1>1. PICK e \in Entries : log' = log \cup {e}
  BY DEF Log
<1>2. LogFits(log')
  BY <1>1, FS_AddElement DEF GInv, LogFits
<1> QED BY <1>1, <1>2, GuardStands DEF Log

LEMMA TickGuardHolds ==
  ASSUME GInv, Tick, DInv'
  PROVE  GInv'
BY GuardStands DEF Tick, guard, GInv

-----------------------------------------------------------------------------
(* The start of a run                                                      *)

LEMMA RestFits ==
  /\ Rest \in RunRecords /\ Rest.pc = "done" /\ Rest.left = {} /\ Rest.services = {}
  /\ Rest.scope = {} /\ Rest.failures = {} /\ Rest.ids = {} /\ Rest.issues = {}
  /\ Rest.state = Empty /\ Rest.starts = [s \in Services |-> 0] /\ Rest.since = 0
<1>1. Empty \in States
  BY DEF Empty, States
<1> QED BY <1>1 DEF Rest, RunRecords, RunPcs, Ticks

LEMMA BackType ==
  ASSUME NEW ticks \in Nat, now \in Ticks
  PROVE  Back(ticks) \in Ticks
BY DEF Back, Ticks

LEMMA GuardStartHolds ==
  ASSUME GInv, GuardStart, DInv'
  PROVE  GInv'
<1>0. /\ UNCHANGED <<log, cache, alerts>> /\ now \in Ticks /\ LogFits(log)
      /\ AlertsFit(run, cache, alerts)
  BY DEF GuardStart, GInv, DInv, Clocked, Ticks
<1>1. PICK c \in Configs :
       LET services == IF c.valid THEN LoadServices(c) ELSE {} IN
       run' = [Rest EXCEPT !.pc = "query", !.required = c.required, !.services = services, !.left = services,
                 !.jobs = IF ~CheckScheduler THEN {}
                          ELSE IF ExplicitJobs # {} THEN ExplicitJobs ELSE services,
                 !.since = Back(Lookback), !.starts = [s \in Services |-> Back(Lookback)],
                 !.issues = IF c.valid THEN {} ELSE {<<"configuration", "all">>},
                 !.state = cache, !.scope = log]
  BY DEF GuardStart
<1>2. PICK W : W = IF c.valid THEN LoadServices(c) ELSE {}
  OBVIOUS
<1>3. PICK J : J = IF ~CheckScheduler THEN {} ELSE IF ExplicitJobs # {} THEN ExplicitJobs ELSE W
  OBVIOUS
<1>4. PICK I : I = IF c.valid THEN {} ELSE {<<"configuration", "all">>}
  OBVIOUS
<1>5. PICK b : b = Back(Lookback)
  OBVIOUS
<1>6. b \in Ticks
  BY <1>0, <1>5, BackType DEF GuardAssumption
<1>7. W \subseteq Services
  <2>1. c.listed \subseteq Services /\ \A t \in c.targets : t.service \in Services
    BY DEF GuardAssumption, Targets
  <2>2. LoadServices(c) \subseteq Services
    BY <2>1 DEF LoadServices
  <2> QED BY <1>2, <2>2
<1>8. J \subseteq Services
  BY <1>3, <1>7 DEF GuardAssumption
<1>9. I \subseteq Issues
  <2>1. <<"configuration", "all">> \in Issues
    BY DEF Issues, Kinds
  <2>2. I = {} \/ I = {<<"configuration", "all">>}
    BY <1>4, Zenon
  <2> QED BY <2>1, <2>2
<1>10. c.required \in BOOLEAN
  BY DEF GuardAssumption
<1> DEFINE st == [s \in Services |-> b]
           r == [pc |-> "query", required |-> c.required, services |-> W, jobs |-> J, left |-> W,
                 since |-> b, starts |-> st, failures |-> {}, issues |-> I, ids |-> {},
                 state |-> cache, decided |-> 0, scope |-> log]
<1>11. run' = r
  BY <1>1, <1>2, <1>3, <1>4, <1>5 DEF Rest
<1>12. st \in [Services -> Ticks] /\ \A s \in Services : st[s] = b
  BY <1>6
<1> HIDE DEF st
<1>13. r \in RunRecords
  BY <1>0, <1>6, <1>7, <1>8, <1>9, <1>10, <1>12 DEF RunRecords, RunPcs, Ticks, LogFits, AlertsFit
<1>14. /\ r.pc = "query" /\ r.services = W /\ r.left = W /\ r.since = b /\ r.starts = st
       /\ r.failures = {} /\ r.ids = {} /\ r.state = cache /\ r.scope = log
  OBVIOUS
<1> HIDE DEF r
<1>15. Searched(r, log)
  <2>1. \A e : ~Sought(e, r, "run", r.services \ r.left)
    BY <1>14 DEF Sought
  <2>2. \A s \in Services : r.starts[s] >= r.since
    BY <1>6, <1>12, <1>14 DEF Ticks
  <2> QED BY <1>14, <2>1, <2>2 DEF Searched
<1>16. AlertsFit(r, cache, alerts)
  <2>1. Pending(r) = {}
    BY <1>14 DEF Pending
  <2> QED BY <1>0, <1>14, <2>1 DEF AlertsFit
<1>17. RunFits(run', log') /\ AlertsFit(run', cache', alerts') /\ LogFits(log')
  BY <1>0, <1>11, <1>13, <1>15, <1>16 DEF RunFits
<1> QED BY <1>17 DEF GInv

-----------------------------------------------------------------------------
(* The queries                                                             *)

LEMMA IssuesOf ==
  /\ <<"scheduler query", "all">> \in Issues /\ <<"scheduler failures", "all">> \in Issues
  /\ \A s \in Services :
       /\ <<"query", Shown[s]>> \in Issues /\ <<"failures", Shown[s]>> \in Issues
       /\ <<"silent", Shown[s]>> \in Issues
BY DEF Issues, Kinds

LEMMA StartType ==
  ASSUME GInv, NEW s \in Services, NEW described \in BOOLEAN
  PROVE  Start(s, described) \in Ticks /\ Start(s, described) >= run.since
<1>1. run.since \in Ticks
  BY DEF GInv, RunFits, RunRecords
<1>2. /\ revisions \in Seq(Revisions) /\ status.revision \in Ready
      /\ Ready \subseteq 1 .. Created /\ Created \in Nat
      /\ \A i \in 1 .. Created : revisions[i] \in Revisions
  BY ReadyRevisions DEF GInv, DInv, Served
<1>3. Latest(Ready) \in Ready
  BY <1>2, LatestIsGreatest
<1>4. revisions[Latest(Ready)].created \in Ticks
  BY <1>2, <1>3 DEF Revisions, Ticks
<1> QED BY <1>1, <1>4 DEF Start, Later, Ticks

(* A query of one service: what was found before stands, what it answers   *)
(* or misses is found, crowded out or an issue.                            *)
LEMMA QueryFits ==
  ASSUME GInv, run.pc = "query", NEW s \in run.left, NEW q \in RunRecords, SameWatch(run, q),
         q.pc = run.pc, q.left = run.left \ {s}, NEW start \in Ticks, start >= run.since,
         q.starts = [run.starts EXCEPT ![s] = start],
         run.ids \subseteq q.ids, run.issues \subseteq q.issues, q.ids # run.ids => q.issues # {},
         \A f \in q.failures \ run.failures : f \in Failures(log) /\ f.source = "run" /\ f.id \in q.ids,
         \A e \in Failures(log) :
           e.source = "run" /\ e.service = s /\ e.at >= start => RequestFound(e, q, log)
  PROVE  RunFits(q, log)
<1>1. run \in RunRecords /\ Searched(run, log)
  BY DEF GInv, RunFits
<1>2. s \in Services /\ s \in run.services /\ run.scope \subseteq log
  BY <1>1 DEF Searched, RunRecords
<1>3. \A t \in Services : q.starts[t] = IF t = s THEN start ELSE run.starts[t]
  BY <1>1, <1>2 DEF RunRecords
<1>4. ASSUME NEW e, Sought(e, q, "run", q.services \ q.left)
      PROVE  RequestFound(e, q, log)
  <2>1. /\ e \in Failures(run.scope) /\ e.source = "run" /\ e.service \in run.services
        /\ e.service \notin q.left /\ e.at >= q.starts[e.service] /\ e.service \in Services
    BY <1>1, <1>4 DEF Sought, SameWatch, RunRecords
  <2>2. CASE e.service = s
    <3>1. e \in Failures(log) /\ e.at >= start
      BY <1>2, <1>3, <2>1, <2>2 DEF Failures
    <3> QED BY <2>1, <2>2, <3>1
  <2>3. CASE e.service # s
    <3>1. Sought(e, run, "run", run.services \ run.left)
      BY <1>3, <2>1, <2>3 DEF Sought
    <3>2. RequestFound(e, run, log)
      BY <1>1, <3>1 DEF Searched
    <3> QED BY <3>2 DEF RequestFound
  <2> QED BY <2>2, <2>3
<1>5. \A t \in Services : q.starts[t] >= q.since
  BY <1>1, <1>3 DEF Searched, SameWatch
<1>6. q.ids # {} => q.issues # {}
  BY <1>1 DEF Searched
<1>7. \A f \in q.failures : f \in Failures(log) /\ f.source = "run" /\ f.id \in q.ids
  BY <1>1 DEF Searched
<1>8. Searched(q, log)
  BY <1>1, <1>4, <1>5, <1>6, <1>7 DEF Searched, SameWatch
<1> QED BY <1>8 DEF RunFits

(* The run goes on, with what it remembers and before it decides.          *)
LEMMA GoesOn ==
  ASSUME GInv, DInv', NEW q, RunFits(q, log), run' = q, UNCHANGED <<log, cache, alerts>>,
         run.pc \notin {"send", "save", "done"}, q.pc \notin {"send", "save", "done"},
         q.state = run.state
  PROVE  GInv'
<1>1. Pending(q) = {} /\ Pending(run) = {}
  BY DEF Pending
<1>2. AlertsFit(q, cache, alerts)
  BY <1>1 DEF GInv, AlertsFit
<1> QED BY <1>2 DEF GInv

LEMMA QueryServiceHolds ==
  ASSUME GInv, NEW s \in Services, QueryService(s), DInv'
  PROVE  GInv'
<1>0. /\ UNCHANGED <<log, cache, alerts>> /\ run.pc = "query" /\ s \in run.left
      /\ run \in RunRecords /\ LogFits(log)
  BY DEF QueryService, GInv, RunFits
<1>1. PICK described \in BOOLEAN, answered \in BOOLEAN :
       LET start == Start(s, described)
           base == [run EXCEPT !.left = @ \ {s}, !.starts[s] = start] IN
       IF ~answered THEN run' = [base EXCEPT !.issues = @ \cup {<<"query", Shown[s]>>}]
       ELSE \E Q \in Newest({e \in log : e.source = "run" /\ e.service = s /\ e.at >= start}) :
              run' = [base EXCEPT
                !.failures = @ \cup Failures(Q),
                !.ids = @ \cup {e.id : e \in Failures(Q)},
                !.issues = @ \cup
                  {<<"failures", Shown[s]>> : e \in Failures(Q)} \cup
                  (IF Silent(Q) THEN {<<"silent", Shown[s]>>} ELSE {})]
  BY DEF QueryService
<1>2. PICK start : start = Start(s, described)
  OBVIOUS
<1>3. start \in Ticks /\ start >= run.since
  BY <1>2, StartType
<1> DEFINE left == run.left \ {s}
           starts == [run.starts EXCEPT ![s] = start]
           r1 == [run EXCEPT !.left = left]
           base == [r1 EXCEPT !.starts = starts]
<1>4. left \in SUBSET Services /\ starts \in [Services -> Ticks]
  BY <1>0, <1>3 DEF RunRecords
<1>5. base = [run EXCEPT !.left = @ \ {s}, !.starts[s] = start]
  BY <1>0 DEF RunRecords
<1>6. \/ run' = [base EXCEPT !.issues = @ \cup {<<"query", Shown[s]>>}]
      \/ \E Q \in Newest({e \in log : e.source = "run" /\ e.service = s /\ e.at >= start}) :
           run' = [base EXCEPT
             !.failures = @ \cup Failures(Q),
             !.ids = @ \cup {e.id : e \in Failures(Q)},
             !.issues = @ \cup
               {<<"failures", Shown[s]>> : e \in Failures(Q)} \cup
               (IF Silent(Q) THEN {<<"silent", Shown[s]>>} ELSE {})]
  <2> HIDE DEF base
  <2>1. CASE ~answered
    BY <1>1, <1>2, <1>5, <2>1
  <2>2. CASE answered
    BY <1>1, <1>2, <1>5, <2>2
  <2> QED BY <2>1, <2>2
<1> HIDE DEF left, starts
<1>7. /\ r1 \in RunRecords /\ SameWatch(run, r1) /\ r1.pc = run.pc /\ r1.left = left
      /\ r1.issues = run.issues /\ r1.ids = run.ids /\ r1.failures = run.failures
      /\ r1.state = run.state
  BY <1>0, <1>4, RunField
<1> HIDE DEF r1
<1>8. /\ base \in RunRecords /\ SameWatch(run, base) /\ base.pc = run.pc /\ base.left = left
      /\ base.starts = starts
      /\ base.issues = run.issues /\ base.ids = run.ids /\ base.failures = run.failures
      /\ base.state = run.state
  <2>1. /\ base \in RunRecords /\ SameWatch(r1, base) /\ base.pc = r1.pc /\ base.left = r1.left
        /\ base.starts = starts
        /\ base.issues = r1.issues /\ base.ids = r1.ids /\ base.failures = r1.failures
        /\ base.state = r1.state
    BY <1>4, <1>7, RunField
  <2> HIDE DEF base
  <2> QED BY <1>7, <2>1 DEF SameWatch
<1> HIDE DEF base
<1>9. run.issues \subseteq Issues /\ run.ids \subseteq Ids /\ run.failures \subseteq Entries
  BY <1>0 DEF RunRecords
<1>10. CASE run' = [base EXCEPT !.issues = @ \cup {<<"query", Shown[s]>>}]
  <2> DEFINE issues == run.issues \cup {<<"query", Shown[s]>>}
             q == [base EXCEPT !.issues = issues]
  <2>1. run' = q
    BY <1>8, <1>10
  <2>2. issues \in SUBSET Issues /\ run.issues \subseteq issues /\ <<"query", Shown[s]>> \in issues
    BY <1>9, IssuesOf
  <2> HIDE DEF issues
  <2>3. /\ q \in RunRecords /\ SameWatch(base, q) /\ q.pc = base.pc /\ q.left = base.left
        /\ q.starts = base.starts /\ q.issues = issues /\ q.ids = base.ids
        /\ q.failures = base.failures /\ q.state = base.state
    BY <1>8, <2>2, RunField
  <2> HIDE DEF q
  <2>4. /\ SameWatch(run, q) /\ q.pc = run.pc /\ q.left = run.left \ {s}
        /\ q.starts = [run.starts EXCEPT ![s] = start] /\ q.ids = run.ids
        /\ q.failures = run.failures /\ q.state = run.state
    BY <1>8, <2>3 DEF SameWatch, left, starts
  <2>5. \A e : e.service = s => RequestFound(e, q, log)
    BY <2>2, <2>3 DEF RequestFound
  <2>6. RunFits(q, log)
    BY <1>0, <1>3, <2>2, <2>3, <2>4, <2>5, QueryFits
  <2> QED BY <1>0, <2>1, <2>4, <2>6, GoesOn
<1>11. CASE \E Q \in Newest({e \in log : e.source = "run" /\ e.service = s /\ e.at >= start}) :
           run' = [base EXCEPT
             !.failures = @ \cup Failures(Q),
             !.ids = @ \cup {e.id : e \in Failures(Q)},
             !.issues = @ \cup
               {<<"failures", Shown[s]>> : e \in Failures(Q)} \cup
               (IF Silent(Q) THEN {<<"silent", Shown[s]>>} ELSE {})]
  <2> DEFINE matching == {e \in log : e.source = "run" /\ e.service = s /\ e.at >= start}
  <2>1. PICK Q \in Newest(matching) :
           run' = [base EXCEPT
             !.failures = @ \cup Failures(Q),
             !.ids = @ \cup {e.id : e \in Failures(Q)},
             !.issues = @ \cup
               {<<"failures", Shown[s]>> : e \in Failures(Q)} \cup
               (IF Silent(Q) THEN {<<"silent", Shown[s]>>} ELSE {})]
    BY <1>11
  <2> DEFINE failures == run.failures \cup Failures(Q)
             ids == run.ids \cup {e.id : e \in Failures(Q)}
             found == {<<"failures", Shown[s]>> : e \in Failures(Q)}
             issues == run.issues \cup found \cup
                         (IF Silent(Q) THEN {<<"silent", Shown[s]>>} ELSE {})
             q1 == [base EXCEPT !.failures = failures]
             q2 == [q1 EXCEPT !.ids = ids]
             q == [q2 EXCEPT !.issues = issues]
  <2>2. run' = q
    BY <1>8, <2>1
  <2>3. matching \subseteq log /\ Q \subseteq matching /\ Failures(Q) \subseteq Entries
    BY <1>0 DEF Newest, Failures, LogFits
  <2>4. /\ failures \in SUBSET Entries /\ ids \in SUBSET Ids /\ issues \in SUBSET Issues
        /\ run.ids \subseteq ids /\ run.issues \subseteq issues
        /\ \A e \in Failures(Q) : e.id \in ids
        /\ ids # run.ids => issues # {}
    <3>1. failures \in SUBSET Entries
      BY <1>9, <2>3
    <3>2. \A e \in Failures(Q) : e.id \in Ids
      BY <2>3 DEF Entries
    <3>3. ids \in SUBSET Ids
      BY <1>9, <3>2
    <3>4. found \subseteq Issues
      BY IssuesOf
    <3>5. issues \in SUBSET Issues
      BY <1>9, <3>4, IssuesOf
    <3>6. ids # run.ids => Failures(Q) # {}
      OBVIOUS
    <3>7. Failures(Q) # {} => <<"failures", Shown[s]>> \in issues
      OBVIOUS
    <3> QED BY <3>1, <3>3, <3>5, <3>6, <3>7
  <2>5. \A f \in failures \ run.failures : f \in Failures(Q)
    OBVIOUS
  <2> HIDE DEF failures, ids, issues, found
  <2>6. /\ q1 \in RunRecords /\ SameWatch(base, q1) /\ q1.pc = base.pc /\ q1.left = base.left
        /\ q1.starts = base.starts /\ q1.failures = failures /\ q1.state = base.state
    BY <1>8, <2>4, RunField
  <2> HIDE DEF q1
  <2>7. /\ q2 \in RunRecords /\ SameWatch(q1, q2) /\ q2.pc = q1.pc /\ q2.left = q1.left
        /\ q2.starts = q1.starts /\ q2.failures = q1.failures /\ q2.ids = ids /\ q2.state = q1.state
    BY <2>4, <2>6, RunField
  <2> HIDE DEF q2
  <2>8. /\ q \in RunRecords /\ SameWatch(q2, q) /\ q.pc = q2.pc /\ q.left = q2.left
        /\ q.starts = q2.starts /\ q.failures = q2.failures /\ q.ids = q2.ids
        /\ q.issues = issues /\ q.state = q2.state
    BY <2>4, <2>7, RunField
  <2> HIDE DEF q
  <2>9. /\ SameWatch(run, q) /\ q.pc = run.pc /\ q.left = run.left \ {s}
        /\ q.starts = [run.starts EXCEPT ![s] = start] /\ q.ids = ids
        /\ q.failures = failures /\ q.issues = issues /\ q.state = run.state
    BY <1>8, <2>6, <2>7, <2>8 DEF SameWatch, left, starts
  <2>10. \A f \in q.failures \ run.failures : f \in Failures(log) /\ f.source = "run" /\ f.id \in q.ids
    BY <2>3, <2>4, <2>5, <2>9 DEF Failures
  <2>11. ASSUME NEW e \in Failures(log), e.source = "run" /\ e.service = s /\ e.at >= start
         PROVE  RequestFound(e, q, log)
    <3>1. e \in matching /\ e.kind = "failure"
      BY <2>11 DEF Failures
    <3>2. CASE e \in Q
      BY <2>4, <2>9, <3>1, <3>2 DEF Failures, RequestFound
    <3>3. CASE e \notin Q
      <4>1. \A f \in matching : f.source = e.source /\ (e.source = "run" => f.service = e.service)
        BY <2>11
      <4>2. Crowded(e, log)
        BY <1>0, <2>3, <3>1, <3>3, <4>1, MissedIsCrowded
      <4> QED BY <4>2 DEF RequestFound
    <3> QED BY <3>2, <3>3
  <2>12. RunFits(q, log)
    BY <1>0, <1>3, <2>4, <2>8, <2>9, <2>10, <2>11, QueryFits
  <2> QED BY <1>0, <2>2, <2>9, <2>12, GoesOn
<1> QED BY <1>6, <1>10, <1>11

LEMMA SchedulerFits ==
  ASSUME GInv, run.pc = "query", run.left = {}, NEW q \in RunRecords, SameWatch(run, q),
         q.left = run.left, q.starts = run.starts, q.failures = run.failures,
         run.ids \subseteq q.ids, run.issues \subseteq q.issues, q.ids # run.ids => q.issues # {},
         \A e \in Failures(log) :
           e.source = "scheduler" /\ e.service \in run.jobs /\ e.at >= run.starts[e.service] =>
             JobFound(e, q, log)
  PROVE  RunFits(q, log)
<1>1. run \in RunRecords /\ Searched(run, log)
  BY DEF GInv, RunFits
<1>2. run.scope \subseteq log
  BY <1>1 DEF Searched
<1>3. \A e : Sought(e, q, "run", q.services \ q.left) => RequestFound(e, q, log)
  <2> SUFFICES ASSUME NEW e, Sought(e, q, "run", q.services \ q.left)
               PROVE  RequestFound(e, q, log)
    OBVIOUS
  <2>1. Sought(e, run, "run", run.services \ run.left)
    BY DEF Sought, SameWatch
  <2>2. RequestFound(e, run, log)
    BY <1>1, <2>1 DEF Searched
  <2> QED BY <2>2 DEF RequestFound
<1>4. \A e : Sought(e, q, "scheduler", q.jobs) => JobFound(e, q, log)
  BY <1>2 DEF Sought, SameWatch, Failures
<1>5. \A f \in q.failures : f \in Failures(log) /\ f.source = "run" /\ f.id \in q.ids
  BY <1>1 DEF Searched
<1>6. \A s \in Services : q.starts[s] >= q.since
  BY <1>1 DEF Searched, SameWatch
<1>7. q.ids # {} => q.issues # {}
  BY <1>1 DEF Searched
<1>8. Searched(q, log)
  BY <1>1, <1>3, <1>4, <1>5, <1>6, <1>7 DEF Searched, SameWatch
<1> QED BY <1>8 DEF RunFits

LEMMA QuerySchedulerHolds ==
  ASSUME GInv, QueryScheduler, DInv'
  PROVE  GInv'
<1>0. /\ UNCHANGED <<log, cache, alerts>> /\ run.pc = "query" /\ run.left = {}
      /\ run \in RunRecords /\ LogFits(log) /\ "decide" \in RunPcs
      /\ \A s \in Services : run.starts[s] >= run.since
      /\ \A f \in run.failures : f \in Failures(log) /\ f.source = "run" /\ f.id \in run.ids
  BY DEF QueryScheduler, GInv, RunFits, Searched, RunPcs
<1>1. run.issues \subseteq Issues /\ run.ids \subseteq Ids /\ run.jobs \subseteq Services
  BY <1>0 DEF RunRecords
<1> DEFINE d == [run EXCEPT !.pc = "decide"]
<1>2. /\ d \in RunRecords /\ SameWatch(run, d) /\ d.pc = "decide" /\ d.left = run.left
      /\ d.starts = run.starts /\ d.failures = run.failures /\ d.ids = run.ids
      /\ d.issues = run.issues /\ d.state = run.state
  BY <1>0, RunField
<1>3. CASE run.jobs = {} /\ run' = [run EXCEPT !.pc = "decide"]
  <2>1. run' = d
    BY <1>3
  <2> HIDE DEF d
  <2>2. RunFits(d, log)
    BY <1>0, <1>2, <1>3, SchedulerFits
  <2> QED BY <1>0, <1>2, <2>1, <2>2, GoesOn
<1>4. CASE run' = [run EXCEPT !.pc = "decide", !.issues = @ \cup {<<"scheduler query", "all">>}]
  <2> DEFINE issues == run.issues \cup {<<"scheduler query", "all">>}
             q == [d EXCEPT !.issues = issues]
  <2>1. run' = q
    BY <1>0, <1>4
  <2>2. issues \in SUBSET Issues /\ run.issues \subseteq issues /\ <<"scheduler query", "all">> \in issues
    BY <1>1, IssuesOf
  <2> HIDE DEF issues, d
  <2>3. /\ q \in RunRecords /\ SameWatch(d, q) /\ q.pc = d.pc /\ q.left = d.left
        /\ q.starts = d.starts /\ q.failures = d.failures /\ q.ids = d.ids
        /\ q.issues = issues /\ q.state = d.state
    <3>1. d \in RunRecords
      BY <1>2
    <3>2. issues \in SUBSET Issues
      BY <2>2
    <3> QED BY <3>1, <3>2, RunField
  <2> HIDE DEF q
  <2>4. /\ SameWatch(run, q) /\ q.pc = "decide" /\ q.left = run.left
        /\ q.starts = run.starts /\ q.failures = run.failures /\ q.ids = run.ids
        /\ q.state = run.state
    BY <1>2, <2>3 DEF SameWatch
  <2>5. \A e : JobFound(e, q, log)
    BY <2>2, <2>3 DEF JobFound
  <2>6. RunFits(q, log)
    BY <1>0, <2>2, <2>3, <2>4, <2>5, SchedulerFits
  <2> QED BY <1>0, <2>1, <2>4, <2>6, GoesOn
<1>5. CASE \E Q \in Newest({e \in log : e.source = "scheduler" /\ e.at >= run.since}) :
             run' = [run EXCEPT !.pc = "decide",
               !.ids = @ \cup {e.id : e \in JobFailures(Q)},
               !.issues = @ \cup {<<"scheduler failures", "all">> : e \in JobFailures(Q)}]
  <2> DEFINE matching == {e \in log : e.source = "scheduler" /\ e.at >= run.since}
  <2>1. PICK Q \in Newest(matching) :
             run' = [run EXCEPT !.pc = "decide",
               !.ids = @ \cup {e.id : e \in JobFailures(Q)},
               !.issues = @ \cup {<<"scheduler failures", "all">> : e \in JobFailures(Q)}]
    BY <1>5
  <2> DEFINE ids == run.ids \cup {e.id : e \in JobFailures(Q)}
             found == {<<"scheduler failures", "all">> : e \in JobFailures(Q)}
             issues == run.issues \cup found
             q1 == [d EXCEPT !.ids = ids]
             q == [q1 EXCEPT !.issues = issues]
  <2>2. run' = q
    BY <1>0, <2>1
  <2>3. matching \subseteq log /\ Q \subseteq matching /\ JobFailures(Q) \subseteq Entries
    BY <1>0 DEF Newest, Failures, LogFits, JobFailures
  <2>4. /\ ids \in SUBSET Ids /\ issues \in SUBSET Issues
        /\ run.ids \subseteq ids /\ run.issues \subseteq issues
        /\ \A e \in JobFailures(Q) : e.id \in ids
        /\ ids # run.ids => issues # {}
    <3>1. \A e \in JobFailures(Q) : e.id \in Ids
      BY <2>3 DEF Entries
    <3>2. ids \in SUBSET Ids
      BY <1>1, <3>1
    <3>3. found \subseteq Issues
      BY IssuesOf
    <3>4. ids # run.ids => JobFailures(Q) # {}
      OBVIOUS
    <3>5. JobFailures(Q) # {} => <<"scheduler failures", "all">> \in issues
      OBVIOUS
    <3> QED BY <1>1, <3>2, <3>3, <3>4, <3>5
  <2> HIDE DEF ids, issues, found, d
  <2>5. /\ q1 \in RunRecords /\ SameWatch(d, q1) /\ q1.pc = d.pc /\ q1.left = d.left
        /\ q1.starts = d.starts /\ q1.failures = d.failures /\ q1.ids = ids /\ q1.state = d.state
    BY <1>2, <2>4, RunField
  <2> HIDE DEF q1
  <2>6. /\ q \in RunRecords /\ SameWatch(q1, q) /\ q.pc = q1.pc /\ q.left = q1.left
        /\ q.starts = q1.starts /\ q.failures = q1.failures /\ q.ids = q1.ids
        /\ q.issues = issues /\ q.state = q1.state
    BY <2>4, <2>5, RunField
  <2> HIDE DEF q
  <2>7. /\ SameWatch(run, q) /\ q.pc = "decide" /\ q.left = run.left
        /\ q.starts = run.starts /\ q.failures = run.failures /\ q.ids = ids
        /\ q.issues = issues /\ q.state = run.state
    BY <1>2, <2>5, <2>6 DEF SameWatch
  <2>8. ASSUME NEW e \in Failures(log),
               e.source = "scheduler" /\ e.service \in run.jobs /\ e.at >= run.starts[e.service]
        PROVE  JobFound(e, q, log)
    <3>1. e \in log /\ e.kind = "failure" /\ e.at \in Nat /\ e.service \in Services
      BY <1>0, <1>1, <2>8 DEF Failures, LogFits, Entries
    <3>2. run.starts[e.service] >= run.since /\ run.starts[e.service] \in Nat /\ run.since \in Nat
      BY <1>0, <3>1 DEF RunRecords, Ticks
    <3>3. e.at >= run.since
      BY <2>8, <3>1, <3>2
    <3>4. e \in matching
      BY <2>8, <3>1, <3>3
    <3>5. CASE e \notin Q
      <4>1. \A f \in matching : f.source = e.source /\ (e.source = "run" => f.service = e.service)
        BY <2>8
      <4>2. Crowded(e, log)
        BY <1>0, <2>3, <3>4, <3>5, <4>1, MissedIsCrowded
      <4> QED BY <4>2 DEF JobFound
    <3>6. CASE e \in Q /\ \A f \in run.failures : ~SameFailure(e, f)
      <4>1. e \in JobFailures(Q)
        BY <2>8, <3>1, <3>6 DEF JobFailures, Failures
      <4> QED BY <2>4, <2>7, <4>1 DEF JobFound
    <3>7. CASE \E f \in run.failures : SameFailure(e, f)
      <4>1. PICK f \in run.failures : SameFailure(e, f)
        BY <3>7
      <4>2. f \in Failures(log) /\ f.source = "run" /\ f.id \in q.ids
        BY <1>0, <2>4, <2>7
      <4> QED BY <4>1, <4>2 DEF JobFound
    <3> QED BY <3>5, <3>6, <3>7
  <2>9. RunFits(q, log)
    BY <1>0, <2>4, <2>6, <2>7, <2>8, SchedulerFits
  <2> QED BY <1>0, <2>2, <2>7, <2>9, GoesOn
<1> QED BY <1>3, <1>4, <1>5 DEF QueryScheduler

-----------------------------------------------------------------------------
(* The decision, the send and the save                                     *)

(* What was found stays found once the queries are over.                   *)
LEMMA FoundStands ==
  ASSUME GInv, run.pc # "query", NEW q \in RunRecords, SameWatch(run, q), q.pc # "query",
         q.left = run.left, q.starts = run.starts, q.failures = run.failures,
         q.ids = run.ids, q.issues = run.issues
  PROVE  RunFits(q, log)
<1>1. Searched(run, log)
  BY DEF GInv, RunFits
<1>2. \A e : /\ Sought(e, q, "run", q.services \ q.left) => Sought(e, run, "run", run.services \ run.left)
             /\ Sought(e, q, "scheduler", q.jobs) => Sought(e, run, "scheduler", run.jobs)
             /\ RequestFound(e, run, log) => RequestFound(e, q, log)
             /\ JobFound(e, run, log) => JobFound(e, q, log)
  BY DEF Sought, RequestFound, JobFound, SameWatch
<1>3. Searched(q, log)
  BY <1>1, <1>2 DEF Searched, SameWatch
<1> QED BY <1>3 DEF RunFits

LEMMA MemoryGrows ==
  ASSUME NEW al, NEW bl, al \subseteq bl
  PROVE  /\ \A id : Named(id, al) => Named(id, bl)
         /\ \A I, t : Raised(I, t, al) => Raised(I, t, bl)
         /\ \A st : Remembers(st, al) => Remembers(st, bl)
BY DEF Named, Raised, Remembers

(* The new state, when the run decides.                                    *)
LEMMA RecordedType ==
  ASSUME run \in RunRecords, now \in Ticks
  PROVE  Cleared(run.state) \in States /\ Recorded(run.state) \in States
<1>1. /\ run.state.events \in SUBSET (Ids \X Ticks)
      /\ run.state.issues \in SUBSET ((SUBSET Issues) \X Ticks)
      /\ run.ids \subseteq Ids /\ run.issues \subseteq Issues
  BY DEF RunRecords, States, Ticks
<1>2. Kept(run.state) \subseteq Ids \X Ticks
  BY <1>1 DEF Kept
<1>3. {<<id, now>> : id \in NewIds(run.state)} \subseteq Ids \X Ticks
  BY <1>1 DEF NewIds
<1>4. <<run.issues, now>> \in (SUBSET Issues) \X Ticks
  BY <1>1
<1>5. {k \in run.state.issues : k[1] # run.issues} \cup {<<run.issues, now>>}
        \in SUBSET ((SUBSET Issues) \X Ticks)
  BY <1>1, <1>4
<1>6. Cleared(run.state) \in States
  BY <1>2 DEF Cleared, States, Ticks
<1> DEFINE ev == Kept(run.state) \cup {<<id, now>> : id \in NewIds(run.state)}
           is == IF Repeat(run.state) THEN run.state.issues
                 ELSE {k \in run.state.issues : k[1] # run.issues} \cup {<<run.issues, now>>}
<1>7. ev \in SUBSET (Ids \X Ticks) /\ is \in SUBSET ((SUBSET Issues) \X Ticks)
  BY <1>1, <1>2, <1>3, <1>5
<1>8. Recorded(run.state) = [events |-> ev, issues |-> is]
  BY DEF Recorded
<1> HIDE DEF ev, is
<1> QED BY <1>6, <1>7, <1>8 DEF States, Ticks

LEMMA DecideHolds ==
  ASSUME GInv, Decide, DInv'
  PROVE  GInv'
<1>0. /\ UNCHANGED <<log, cache, alerts>> /\ run.pc = "decide" /\ run \in RunRecords
      /\ now \in Ticks /\ AlertsFit(run, cache, alerts)
      /\ run.ids # {} => run.issues # {}
  BY DEF Decide, GInv, RunFits, Searched, DInv, Clocked, Ticks
<1>1. PICK mode \in Modes :
       run' = [run EXCEPT !.decided = now,
         !.pc = IF run.issues = {} \/ (mode = "on" /\ Repeat(run.state)) THEN "save" ELSE "send",
         !.state = IF mode = "off" THEN @
                   ELSE IF run.issues = {} THEN Cleared(@) ELSE Recorded(@)]
  BY DEF Decide
<1>2. PICK p \in {"save", "send"} :
        p = IF run.issues = {} \/ (mode = "on" /\ Repeat(run.state)) THEN "save" ELSE "send"
  OBVIOUS
<1>3. PICK st : st = IF mode = "off" THEN run.state
                     ELSE IF run.issues = {} THEN Cleared(run.state) ELSE Recorded(run.state)
  OBVIOUS
<1>4. st \in States
  BY <1>0, <1>3, RecordedType DEF RunRecords
<1> DEFINE q1 == [run EXCEPT !.decided = now]
           q2 == [q1 EXCEPT !.pc = p]
           q == [q2 EXCEPT !.state = st]
<1>5. run' = q
  BY <1>0, <1>1, <1>2, <1>3
<1>6. /\ q1 \in RunRecords /\ SameWatch(run, q1) /\ q1.left = run.left /\ q1.starts = run.starts
      /\ q1.failures = run.failures /\ q1.ids = run.ids /\ q1.issues = run.issues
      /\ q1.decided = now
  BY <1>0, RunField
<1> HIDE DEF q1
<1>7. /\ q2 \in RunRecords /\ SameWatch(q1, q2) /\ q2.left = q1.left /\ q2.starts = q1.starts
      /\ q2.failures = q1.failures /\ q2.ids = q1.ids /\ q2.issues = q1.issues
      /\ q2.decided = q1.decided /\ q2.pc = p
  <2>1. p \in RunPcs
    BY DEF RunPcs
  <2> QED BY <1>6, <2>1, RunField
<1> HIDE DEF q2
<1>8. /\ q \in RunRecords /\ SameWatch(q2, q) /\ q.left = q2.left /\ q.starts = q2.starts
      /\ q.failures = q2.failures /\ q.ids = q2.ids /\ q.issues = q2.issues
      /\ q.decided = q2.decided /\ q.pc = q2.pc /\ q.state = st
  BY <1>4, <1>7, RunField
<1> HIDE DEF q
<1>9. /\ SameWatch(run, q) /\ q.left = run.left /\ q.starts = run.starts
      /\ q.failures = run.failures /\ q.ids = run.ids /\ q.issues = run.issues
      /\ q.decided = now /\ q.pc = p /\ q.state = st
  BY <1>6, <1>7, <1>8 DEF SameWatch
<1>10. RunFits(q, log)
  BY <1>0, <1>8, <1>9, FoundStands
<1>11. Remembers(run.state, alerts)
  <2>1. Pending(run) = {}
    BY <1>0 DEF Pending
  <2> QED BY <1>0, <2>1 DEF AlertsFit
<1>12. ASSUME NEW event \in Kept(run.state) PROVE Named(event[1], alerts)
  BY <1>11 DEF Kept, Remembers
<1>13. CASE p = "save"
  <2>1. run.issues = {} \/ Repeat(run.state)
    BY <1>2, <1>13
  <2>2. Pending(q) = {}
    BY <1>9, <1>13 DEF Pending
  <2>3. NewIds(run.state) = {} /\ \A id \in run.ids : Named(id, alerts)
    <3>1. CASE run.issues = {}
      <4>1. run.ids = {}
        BY <1>0, <3>1
      <4> QED BY <4>1 DEF NewIds
    <3>2. CASE Repeat(run.state)
      <4>1. NewIds(run.state) = {}
        BY <3>2 DEF Repeat
      <4>2. ASSUME NEW id \in run.ids PROVE Named(id, alerts)
        <5>1. PICK event \in Kept(run.state) : event[1] = id
          BY <4>1 DEF NewIds
        <5> QED BY <1>12, <5>1
      <4> QED BY <4>1, <4>2
    <3> QED BY <2>1, <3>1, <3>2
  <2>4. Remembers(st, alerts)
    <3>1. CASE mode = "off"
      BY <1>3, <1>11, <3>1
    <3>2. CASE mode # "off" /\ run.issues = {}
      <4>1. st.events = Kept(run.state) /\ st.issues = {}
        BY <1>3, <3>2 DEF Cleared
      <4> QED BY <1>12, <4>1 DEF Remembers
    <3>3. CASE mode # "off" /\ run.issues # {}
      <4>1. Repeat(run.state) /\ st = Recorded(run.state)
        BY <1>3, <2>1, <3>3
      <4>2. st.events = Kept(run.state) /\ st.issues = run.state.issues
        BY <2>3, <4>1 DEF Recorded
      <4> QED BY <1>11, <1>12, <4>2 DEF Remembers
    <3> QED BY <3>1, <3>2, <3>3
  <2>5. ASSUME run.issues # {} PROVE Timely(q, alerts)
    <3>1. PICK at \in LastAlert(run.state) : ~ReminderDue(at)
      BY <2>1, <2>5 DEF Repeat
    <3>2. PICK k \in run.state.issues : k[1] = run.issues /\ k[2] = at
      BY DEF LastAlert
    <3>3. PICK a \in alerts : a.issues = run.issues /\ a.at = at
      BY <1>11, <3>2 DEF Remembers, Raised
    <3>4. a.at \in Nat /\ now \in Nat
      BY <1>0 DEF AlertsFit, Alerts, Ticks
    <3>5. now < a.at + Later(Reminder, 1)
      BY <3>1, <3>3, <3>4 DEF ReminderDue, Later, GuardAssumption
    <3> QED BY <1>9, <3>3, <3>5 DEF Timely
  <2>6. AlertsFit(q, cache, alerts)
    BY <1>0, <1>9, <1>13, <2>2, <2>3, <2>4, <2>5 DEF AlertsFit
  <2> QED BY <1>0, <1>5, <1>10, <2>6 DEF GInv
<1>14. CASE p = "send"
  <2> DEFINE a == [events |-> run.ids, issues |-> run.issues, at |-> now]
  <2>1. Pending(q) = {a}
    BY <1>9, <1>14 DEF Pending
  <2>2. a.events = run.ids /\ a.issues = run.issues /\ a.at = now
    OBVIOUS
  <2> HIDE DEF a
  <2> DEFINE bl == alerts \cup {a}
  <2>3. /\ \A id \in run.ids : Named(id, bl)
        /\ Remembers(run.state, bl)
        /\ \A event \in Kept(run.state) : Named(event[1], bl)
    <3>1. alerts \subseteq bl
      OBVIOUS
    <3>2. \A id \in run.ids : Named(id, bl)
      BY <2>2 DEF Named
    <3> HIDE DEF bl
    <3> QED BY <1>11, <1>12, <3>1, <3>2, MemoryGrows
  <2>4. Raised(run.issues, now, bl)
    BY <2>2 DEF Raised
  <2> HIDE DEF bl
  <2>5. Remembers(st, bl)
    <3>1. CASE mode = "off"
      BY <1>3, <2>3, <3>1
    <3>2. CASE mode # "off"
      <4>1. run.issues # {} /\ st = Recorded(run.state)
        BY <1>2, <1>3, <1>14, <3>2
      <4>2. st.events = Kept(run.state) \cup {<<id, now>> : id \in NewIds(run.state)}
        BY <4>1 DEF Recorded
      <4>3. \A event \in st.events : Named(event[1], bl)
        BY <2>3, <4>2 DEF NewIds
      <4>4. \A k \in st.issues : k \in run.state.issues \/ k = <<run.issues, now>>
        BY <4>1 DEF Recorded
      <4>5. \A k \in st.issues : Raised(k[1], k[2], bl)
        BY <2>3, <2>4, <4>4 DEF Remembers
      <4> QED BY <4>3, <4>5 DEF Remembers
    <3> QED BY <3>1, <3>2
  <2>6. AlertsFit(q, cache, alerts)
    BY <1>0, <1>9, <1>14, <2>1, <2>5 DEF AlertsFit, bl
  <2> QED BY <1>0, <1>5, <1>10, <2>6 DEF GInv
<1> QED BY <1>13, <1>14

LEMMA SendHolds ==
  ASSUME GInv, Send, DInv'
  PROVE  GInv'
<1>0. /\ UNCHANGED <<log, cache>> /\ run.pc = "send" /\ run \in RunRecords
      /\ alerts' = alerts \cup {Alert} /\ run' = [run EXCEPT !.pc = "save"]
      /\ AlertsFit(run, cache, alerts)
  BY DEF Send, GInv, RunFits
<1> DEFINE q == [run EXCEPT !.pc = "save"]
<1>1. /\ q \in RunRecords /\ SameWatch(run, q) /\ q.left = run.left /\ q.starts = run.starts
      /\ q.failures = run.failures /\ q.ids = run.ids /\ q.issues = run.issues
      /\ q.decided = run.decided /\ q.pc = "save" /\ q.state = run.state
  <2>1. "save" \in RunPcs
    BY DEF RunPcs
  <2> QED BY <1>0, <2>1, RunField
<1>2. run' = q
  BY <1>0
<1> HIDE DEF q
<1>3. RunFits(q, log)
  BY <1>0, <1>1, FoundStands
<1>4. Pending(run) = {Alert} /\ Pending(q) = {}
  BY <1>0, <1>1 DEF Pending, Alert
<1>5. Alert.events = run.ids /\ Alert.issues = run.issues /\ Alert.at = run.decided
  BY DEF Alert
<1>6. Alert \in Alerts
  BY <1>0 DEF Alert, Alerts, RunRecords
<1>7. run.decided \in Nat /\ Later(Reminder, 1) \in Nat /\ Later(Reminder, 1) > 0
  BY <1>0 DEF RunRecords, Ticks, Later, GuardAssumption
<1> DEFINE bl == alerts \cup {Alert}
<1>8. \A id \in q.ids : Named(id, bl)
  BY <1>1, <1>5 DEF Named
<1>9. Timely(q, bl)
  BY <1>1, <1>5, <1>7 DEF Timely
<1>10. alerts \subseteq bl /\ bl \subseteq Alerts
  BY <1>0, <1>6 DEF AlertsFit
<1>11. Remembers(q.state, bl)
  BY <1>0, <1>1, <1>4 DEF AlertsFit
<1> HIDE DEF bl
<1>12. Remembers(cache, bl)
  BY <1>0, <1>10, MemoryGrows DEF AlertsFit
<1>13. bl \cup Pending(q) = bl
  BY <1>4
<1>14. AlertsFit(q, cache, bl)
  BY <1>0, <1>8, <1>9, <1>10, <1>11, <1>12, <1>13 DEF AlertsFit
<1>15. alerts' = bl
  BY <1>0 DEF bl
<1> QED BY <1>0, <1>2, <1>3, <1>14, <1>15 DEF GInv

(* A healthy run takes the issues of the alerts back, never what they named. *)
LEMMA TakenBack ==
  ASSUME NEW al \in SUBSET Alerts
  PROVE  LET bl == {[a EXCEPT !.issues = {}] : a \in al} IN
           /\ bl \subseteq Alerts
           /\ \A id : Named(id, al) => Named(id, bl)
<1>1. \A a \in Alerts : [a EXCEPT !.issues = {}] \in Alerts /\ [a EXCEPT !.issues = {}].events = a.events
  BY DEF Alerts
<1> QED BY <1>1 DEF Named

LEMMA SaveHolds ==
  ASSUME GInv, SaveState, DInv'
  PROVE  GInv'
<1>0. /\ UNCHANGED log /\ run.pc = "save" /\ run \in RunRecords
      /\ run' = [run EXCEPT !.pc = "done", !.state = Empty] /\ cache' \in {cache, run.state}
      /\ AlertsFit(run, cache, alerts)
  BY DEF SaveState, GInv, RunFits
<1>1. Empty \in States /\ \A al : Remembers(Empty, al)
  BY DEF Empty, States, Remembers
<1> DEFINE q1 == [run EXCEPT !.pc = "done"]
           q == [q1 EXCEPT !.state = Empty]
<1>2. run' = q
  BY <1>0
<1>3. /\ q1 \in RunRecords /\ SameWatch(run, q1) /\ q1.left = run.left /\ q1.starts = run.starts
      /\ q1.failures = run.failures /\ q1.ids = run.ids /\ q1.issues = run.issues
      /\ q1.decided = run.decided /\ q1.pc = "done"
  <2>1. "done" \in RunPcs
    BY DEF RunPcs
  <2> QED BY <1>0, <2>1, RunField
<1> HIDE DEF q1
<1>4. /\ q \in RunRecords /\ SameWatch(q1, q) /\ q.left = q1.left /\ q.starts = q1.starts
      /\ q.failures = q1.failures /\ q.ids = q1.ids /\ q.issues = q1.issues
      /\ q.decided = q1.decided /\ q.pc = q1.pc /\ q.state = Empty
  BY <1>1, <1>3, RunField
<1> HIDE DEF q
<1>5. /\ SameWatch(run, q) /\ q.left = run.left /\ q.starts = run.starts
      /\ q.failures = run.failures /\ q.ids = run.ids /\ q.issues = run.issues
      /\ q.decided = run.decided /\ q.pc = "done" /\ q.state = Empty
  BY <1>3, <1>4 DEF SameWatch
<1>6. RunFits(q, log)
  BY <1>0, <1>4, <1>5, FoundStands
<1>7. Pending(run) = {} /\ Pending(q) = {}
  BY <1>0, <1>5 DEF Pending
<1>8. Remembers(cache', alerts) /\ cache' \in States
  BY <1>0, <1>7 DEF AlertsFit, RunRecords
<1>9. /\ alerts \in SUBSET Alerts /\ \A id \in q.ids : Named(id, alerts)
      /\ run.issues # {} => Timely(run, alerts)
  BY <1>0, <1>5 DEF AlertsFit
<1>10. CASE run.issues = {} /\ cache'.issues = {}
  <2> DEFINE bl == {[a EXCEPT !.issues = {}] : a \in alerts}
  <2>1. alerts' = bl
    BY <1>10 DEF SaveState
  <2>2. bl \subseteq Alerts /\ \A id : Named(id, alerts) => Named(id, bl)
    BY <1>9, TakenBack
  <2> HIDE DEF bl
  <2>3. Remembers(cache', bl)
    BY <1>8, <1>10, <2>2 DEF Remembers
  <2>4. AlertsFit(q, cache', bl)
    BY <1>1, <1>5, <1>8, <1>9, <1>10, <2>2, <2>3 DEF AlertsFit
  <2> QED BY <1>0, <1>2, <1>6, <2>1, <2>4 DEF GInv
<1>11. CASE ~(run.issues = {} /\ cache'.issues = {})
  <2>1. alerts' = alerts
    BY <1>11 DEF SaveState
  <2>2. run.issues # {} => Timely(q, alerts)
    BY <1>5, <1>9 DEF Timely
  <2>3. AlertsFit(q, cache', alerts)
    BY <1>1, <1>5, <1>8, <1>9, <2>2 DEF AlertsFit
  <2> QED BY <1>0, <1>2, <1>6, <2>1, <2>3 DEF GInv
<1> QED BY <1>10, <1>11

LEMMA DieHolds ==
  ASSUME GInv, Die, DInv'
  PROVE  GInv'
<1>0. /\ UNCHANGED log /\ run \in RunRecords /\ LogFits(log)
      /\ run' = [Rest EXCEPT !.pc = "dead"] /\ cache' \in {cache, run.state}
      /\ alerts' = alerts \cup Pending(run)
      /\ AlertsFit(run, cache, alerts)
  BY DEF Die, GInv, RunFits, Pending, Alert
<1> DEFINE q == [Rest EXCEPT !.pc = "dead"]
<1>1. /\ q \in RunRecords /\ SameWatch(Rest, q) /\ q.pc = "dead" /\ q.left = Rest.left
      /\ q.starts = Rest.starts /\ q.failures = Rest.failures
      /\ q.issues = Rest.issues /\ q.ids = Rest.ids /\ q.state = Rest.state
  <2>1. "dead" \in RunPcs /\ Rest \in RunRecords
    BY RestFits DEF RunPcs
  <2> QED BY <2>1, RunField
<1>2. run' = q
  BY <1>0
<1> HIDE DEF q
<1>3. Searched(q, log)
  BY <1>1, RestFits DEF Searched, Sought, Failures, SameWatch
<1>4. RunFits(q, log)
  BY <1>1, <1>3 DEF RunFits
<1>5. Pending(q) = {} /\ q.state = Empty /\ \A al : Remembers(Empty, al)
  BY <1>1, RestFits DEF Pending, Empty, Remembers
<1>6. Pending(run) \subseteq Alerts
  BY <1>0 DEF Pending, Alerts, RunRecords
<1> DEFINE bl == alerts \cup Pending(run)
<1>7. alerts \subseteq bl /\ bl \subseteq Alerts /\ Remembers(run.state, bl)
  BY <1>0, <1>6 DEF AlertsFit
<1>8. alerts' = bl
  BY <1>0
<1> HIDE DEF bl
<1>9. Remembers(cache, bl)
  BY <1>0, <1>7, MemoryGrows DEF AlertsFit
<1>10. Remembers(cache', bl) /\ cache' \in States
  BY <1>0, <1>7, <1>9 DEF AlertsFit, RunRecords
<1>11. AlertsFit(q, cache', bl)
  BY <1>1, <1>5, <1>7, <1>10 DEF AlertsFit
<1> QED BY <1>0, <1>2, <1>4, <1>8, <1>11 DEF GInv

-----------------------------------------------------------------------------
LEMMA GuardBegins == Init => GInv
<1> SUFFICES ASSUME Init PROVE GInv
  OBVIOUS
<1>1. /\ DInv /\ log = {} /\ cache = Empty /\ run = Rest /\ alerts = {}
  BY DeploymentBegins DEF Init
<1>2. LogFits(log)
  BY <1>1, FS_EmptySet DEF LogFits
<1>3. RunFits(Rest, {})
  BY RestFits DEF RunFits, Searched, Sought, Failures
<1>4. Pending(Rest) = {}
  BY RestFits DEF Pending
<1>5. AlertsFit(Rest, Empty, {})
  BY <1>4, RestFits DEF AlertsFit, Empty, States, Remembers
<1> QED BY <1>1, <1>2, <1>3, <1>5 DEF GInv

LEMMA GuardGoesOn == GInv /\ [Next]_vars => GInv'
<1> SUFFICES ASSUME GInv, [Next]_vars PROVE GInv'
  OBVIOUS
<1>0. DInv /\ LogFits(log)
  BY DEF GInv
<1>1. CASE DeploymentNext /\ UNCHANGED guard
  <2>1. DInv'
    BY <1>0, <1>1, DeploymentSteps
  <2> QED BY <1>0, <1>1, <2>1, GuardStands DEF guard
<1>2. CASE GuardNext
  <2>1. DInv'
    BY <1>0, <1>2, GuardSteps
  <2> QED BY <1>2, <2>1, LogHolds, TickGuardHolds, GuardStartHolds, QuerySchedulerHolds,
             DecideHolds, SendHolds, SaveHolds, DieHolds, QueryServiceHolds DEF GuardNext
<1>3. CASE UNCHANGED vars
  <2>1. DInv'
    <3>1. UNCHANGED deployment /\ UNCHANGED <<now, quota>>
      BY <1>3 DEF vars
    <3>2. Clocked'
      BY <1>0, <3>1 DEF DInv, Clocked
    <3> QED BY <1>0, <3>1, <3>2, DeploymentStands
  <2> QED BY <1>0, <1>3, <2>1, GuardStands DEF vars, guard
<1> QED BY <1>1, <1>2, <1>3 DEF Next

LEMMA GuardHolds == Spec => []GInv
<1> QED BY GuardBegins, GuardGoesOn, PTL DEF Spec

(* The records of the deployment and of the guard's run keep their types.  *)
THEOREM TypeCorrect == Spec => []TypeOK
<1> QED BY GuardHolds, PartsOfGInv, PTL

(* decide() of runtime_guard_alert_dedupe.py, the save of its state, with  *)
(* always(), and a run that dies between them: every failure that was in   *)
(* the logs of a watched service when a run began has been part of an      *)
(* alert when the run ends, but for the stated exceptions, and the issues  *)
(* the run found were all in one alert younger than the reminder.          *)
THEOREM NothingSilenced == Spec => []NothingIsSilenced
<1> QED BY GuardHolds, PartsOfGInv, PTL
=============================================================================
