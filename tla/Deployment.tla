----------------------------- MODULE Deployment -----------------------------
(***************************************************************************)
(* The Cloud Run service and its scheduler jobs as the deploy workflow     *)
(* changes them: a deployment with its configuration sync, traffic         *)
(* reconciliation and job cleanup (reconcile_cloud_runtime.py), the sync   *)
(* of the account-facts settings to a revision without traffic             *)
(* (account_facts_config_sync.py) and the staging of the cached-balance    *)
(* diagnostic (verify_cached_diagnostic_stage.py).                         *)
(*                                                                         *)
(* The workflow's concurrency group lets one of them run at a time; an     *)
(* operator's own edits interleave with it.  One action is one gcloud      *)
(* command with the check the script makes of its answer.  Cloud Run, the  *)
(* scheduler and the workflow's shell are external, modelled from the      *)
(* commands the workflow gives them.                                       *)
(***************************************************************************)
EXTENDS Naturals, Sequences, FiniteSets

CONSTANTS
  Commits,      \* commit SHAs
  ServingSha,   \* the commit the staging requires to be serving
  Diagnostic,   \* image of the cached-balance diagnostic
  OldDiagnostic,\* image of the diagnostic staged before it
  Envs,         \* all other configuration of a template, as one value
  Bound,        \* those whose runtime target is this service's one account
  Scenarios,    \* bounds: how the service is set up and what may happen to it
  MaxTime       \* last tick modelled

VARIABLES
  now,        \* ticks since the model began
  revisions,  \* the revisions in the order of their creation
  traffic,    \* spec.traffic: the latest ready revision, or a named one
  status,     \* status.traffic: what requests reach
  tagged,     \* the revision with the diagnostic tag, 0 for none
  jobs,       \* the scheduler jobs of the monitors
  several,    \* the sync plan has several targets
  flow,       \* the workflow that runs, or the last one that did
  quota       \* bound: what may still begin

deployment == <<revisions, traffic, status, tagged, jobs, several, flow>>

Images == Commits \cup {Diagnostic, OldDiagnostic}

(* A revision's template.  "facts" are the account-facts variables; their  *)
(* token's secret has no alias, one of its "own", one "shared" with some   *)
(* other reference, or an alias that only the "other" reference uses.      *)
Templates == [image : Images, commit : Commits, env : Envs,
              facts : {"unset", "desired"}, alias : {"none", "own", "shared", "other"}]
Quotas == [guards : Nat, entries : Nat, flows : Nat, edits : Nat, ticks : 0 .. MaxTime]
Revisions == [template : Templates, ready : BOOLEAN, created : 0 .. MaxTime]
Traffic == [latest : BOOLEAN, revision : Nat]

ASSUME DeploymentAssumption ==
  /\ ServingSha \in Commits /\ Diagnostic # OldDiagnostic
  /\ {Diagnostic, OldDiagnostic} \cap Commits = {}
  /\ Bound \subseteq Envs /\ MaxTime \in Nat
  /\ \A s \in Scenarios : s.template \in Templates /\ s.template.image = ServingSha
       /\ s.template.commit = ServingSha /\ {s.several, s.latest} \subseteq BOOLEAN
       /\ s.quota \in Quotas

(* One dispatcher serves the whole location.  It calls one service, which  *)
(* calls the monitors of the targets its configuration lists, and a sync   *)
(* lists this service's own target alone.  The job is "live" when it calls *)
(* this service and aims "elsewhere" when it calls another one of the      *)
(* plan.  Probe and precheck are the direct jobs of this service, dormant  *)
(* while the dispatcher is used; "legacy" stands for the other jobs the    *)
(* cleanup names.  The target is enabled: no sync pauses its jobs.         *)
Jobs == {"dispatcher", "probe", "precheck", "legacy"}
DirectJobs == {"probe", "precheck"}
JobStates == {"absent", "live", "dormant", "elsewhere"}

Created == Len(revisions)
Ready == {i \in 1 .. Created : revisions[i].ready}
Latest(S) == CHOOSE i \in S : \A j \in S : j <= i

(* What one description of the service answers.                            *)
View == [template |-> revisions[Created].template, created |-> Created,
         traffic |-> traffic, status |-> status, tagged |-> tagged, jobs |-> jobs]
Views == [template : Templates, created : Nat, traffic : Traffic,
          status : Traffic, tagged : Nat, jobs : [Jobs -> JobStates]]

Idle == [kind |-> "none", pc |-> "ok", sha |-> ServingSha, before |-> {},
         after |-> {}, target |-> 0, migration |-> FALSE, left |-> <<>>]
Flows == [kind : {"none", "deploy", "facts", "stage"},
          pc : {"begin", "image", "readback", "env", "select", "shift", "poll", "jobs", "cleanup",
                "delete", "update", "verify", "ok", "failed"},
          sha : Commits, before : SUBSET Views, after : SUBSET Views,
          target : Nat, migration : BOOLEAN, left : Seq(Jobs \X JobStates)]

DeploymentInit ==
  /\ now = 0
  /\ \E s \in Scenarios :
       /\ revisions = <<[template |-> s.template, ready |-> TRUE, created |-> 0],
                        [template |-> [s.template EXCEPT !.image = OldDiagnostic],
                         ready |-> TRUE, created |-> 0]>>
       /\ traffic = [latest |-> s.latest, revision |-> IF s.latest THEN 0 ELSE 1]
       /\ several = s.several /\ quota = s.quota
  /\ status = [latest |-> traffic.latest, revision |-> IF traffic.latest THEN 2 ELSE 1]
  /\ tagged = 2
  /\ jobs = [j \in Jobs |-> IF j \in DirectJobs THEN "absent" ELSE "live"]
  /\ flow = Idle

Running == flow.pc \notin {"ok", "failed"}
Go(pc) == flow' = [flow EXCEPT !.pc = pc]
Fail == Go("failed")

(* A gcloud command that makes a revision waits until it is ready; without *)
(* traffic, a service that follows the latest revision is pinned to the    *)
(* one it serves.                                                          *)
NewRevision(t, ready) ==
  revisions' = Append(revisions, [template |-> t, ready |-> ready, created |-> now])
(* Fault: the new revision is not kept without traffic. *)
Promoted == [latest |-> FALSE, revision |-> Created + 1]
Pinned == IF traffic.latest THEN [latest |-> FALSE, revision |-> status.revision] ELSE traffic

(* Cloud Run carries out spec.traffic; a slow revision becomes ready.      *)
Converge ==
  /\ status' = [latest |-> traffic.latest,
                revision |-> IF traffic.latest THEN Latest(Ready) ELSE traffic.revision]
  /\ status' # status
  /\ UNCHANGED <<revisions, traffic, tagged, jobs, several, flow, now, quota>>

BecomeReady ==
  /\ \E i \in 1 .. Created :
       ~revisions[i].ready /\ revisions' = [revisions EXCEPT ![i].ready = TRUE]
  /\ UNCHANGED <<traffic, status, tagged, jobs, several, flow, now, quota>>

(* An operator edits the configuration, sends the traffic elsewhere, or    *)
(* removes a job that no monitor needs.                                    *)
Edits(t) == {[t EXCEPT !.env = e] : e \in Envs} \cup {[t EXCEPT !.alias = "shared"]}

Edit ==
  /\ quota.edits > 0 /\ quota' = [quota EXCEPT !.edits = @ - 1]
  /\ \/ /\ \E t \in Edits(View.template) \ {View.template} : NewRevision(t, TRUE)
        /\ UNCHANGED <<traffic, jobs>>
     \/ /\ \E i \in Ready : traffic' = [latest |-> FALSE, revision |-> i]
        /\ UNCHANGED <<revisions, jobs>>
     \/ /\ jobs["legacy"] # "absent" /\ jobs' = [jobs EXCEPT !["legacy"] = "absent"]
        /\ UNCHANGED <<revisions, traffic>>
  /\ UNCHANGED <<status, tagged, several, flow, now>>

-----------------------------------------------------------------------------
(* A workflow is dispatched for a commit, when none runs.                  *)
Begin ==
  /\ ~Running
  /\ quota.flows > 0 /\ quota' = [quota EXCEPT !.flows = @ - 1]
  /\ \E k \in {"deploy", "facts", "stage"}, c \in Commits, m \in BOOLEAN :
       /\ k = "stage" => c = ServingSha
       /\ m => k = "deploy"
       /\ flow' = [Idle EXCEPT !.kind = k, !.pc = "begin", !.sha = c, !.migration = m]
  /\ UNCHANGED <<revisions, traffic, status, tagged, jobs, several, now>>

(* The workflow runs for another service of the plan.  Its sync takes the  *)
(* location's one dispatcher, and lists no target of this service.         *)
SyncOther ==
  /\ ~Running /\ several
  /\ quota.flows > 0 /\ quota' = [quota EXCEPT !.flows = @ - 1]
  /\ jobs' = [jobs EXCEPT !["dispatcher"] = "elsewhere"]
  /\ UNCHANGED <<revisions, traffic, status, tagged, several, flow, now>>

(* A command fails, or the job is cancelled or times out between two.      *)
Abort ==
  /\ Running /\ Fail
  /\ UNCHANGED <<revisions, traffic, status, tagged, jobs, several, now, quota>>

At(kind, pc) == flow.kind = kind /\ flow.pc = pc

(* Fault: the direct jobs make room before the dispatcher's job is there.  *)
JobPlanDormantFirst(migrated) ==
  IF migrated THEN <<<<"probe", "live">>, <<"precheck", "live">>>>
  ELSE <<<<"probe", "dormant">>, <<"precheck", "dormant">>, <<"dispatcher", "live">>>>

(* The jobs a sync sets, in its order.                                     *)
JobPlan(migrated) ==
  IF migrated THEN <<<<"probe", "live">>, <<"precheck", "live">>>>
  ELSE <<<<"dispatcher", "live">>, <<"probe", "dormant">>, <<"precheck", "dormant">>>>
ToJobs == flow' = [flow EXCEPT !.pc = "jobs", !.left = JobPlan(flow.migration)]

CaptureDeployment ==
  /\ At("deploy", "begin")
  /\ flow' = [flow EXCEPT !.pc = "image", !.before = {View}]
  /\ UNCHANGED <<revisions, traffic, status, tagged, jobs, several, now, quota>>

(* The image is deployed without traffic, labelled with the commit.        *)
DeployImage ==
  /\ At("deploy", "image")
  /\ \E ready \in BOOLEAN :
       /\ NewRevision([View.template EXCEPT !.image = flow.sha, !.commit = flow.sha], ready)
       /\ IF ready THEN Go("readback") ELSE Fail
  /\ traffic' = Pinned
  /\ UNCHANGED <<status, tagged, jobs, several, now, quota>>

(* The newest revision is of the commit and ready, the requests are served *)
(* as before, the jobs and the names of the variables are what they were.  *)
(* The configuration is then synced, if that was asked.                    *)
SameService(v, b) ==
  /\ v.status.revision = b.status.revision /\ v.jobs = b.jobs
  /\ v.template.facts = b.template.facts /\ v.template.alias = b.template.alias

DeployReadback ==
  /\ At("deploy", "readback")
  /\ IF /\ revisions[Created].ready
        /\ View.template.commit = flow.sha /\ View.template.image = flow.sha
        /\ \A b \in flow.before : SameService(View, b)
     THEN \E sync \in BOOLEAN : Go(IF sync THEN "env" ELSE "ok") ELSE Fail
  /\ UNCHANGED <<revisions, traffic, status, tagged, jobs, several, now, quota>>

(* What the template's secret aliases are once the token's reference has   *)
(* been set or removed: it refers to its secret by name or by an alias     *)
(* made for it, and an alias it shared stays with the other reference.     *)
UsedElsewhere(t) == t.alias \in {"shared", "other"}
AliasesAfter(t, facts) ==
  IF UsedElsewhere(t) THEN {"other"} ELSE IF facts = "unset" THEN {"none"} ELSE {"none", "own"}

(* The environment is synced, the account-facts variables and their secret *)
(* with it; traffic is promoted only when it was asked.                    *)
SyncEnvironment ==
  /\ At("deploy", "env")
  /\ View.template.commit = flow.sha
  /\ \E e \in Envs, f \in {"unset", "desired"}, ready, promote \in BOOLEAN :
       /\ \E a \in AliasesAfter(View.template, f) :
            NewRevision([View.template EXCEPT !.env = e, !.facts = f, !.alias = a], ready)
       /\ IF ~ready THEN Fail ELSE IF promote THEN Go("select") ELSE ToJobs
  /\ UNCHANGED <<traffic, status, tagged, jobs, several, now, quota>>

-----------------------------------------------------------------------------
(* Traffic reconciliation: the latest ready revision if it is of the       *)
(* commit, else the newest ready one that is.                              *)
OfCommit(c) == {i \in Ready : revisions[i].template.commit = c}
Target(c) == IF Latest(Ready) \in OfCommit(c) THEN Latest(Ready) ELSE Latest(OfCommit(c))
Reconciled(v, target) == v.status.revision = target

SelectRevision ==
  /\ At("deploy", "select")
  /\ IF OfCommit(flow.sha) = {} THEN Fail
     ELSE flow' = [flow EXCEPT !.target = Target(flow.sha),
                   !.pc = IF Reconciled(View, Target(flow.sha)) THEN "poll" ELSE "shift"]
  /\ UNCHANGED <<revisions, traffic, status, tagged, jobs, several, now, quota>>

ShiftTraffic ==
  /\ At("deploy", "shift") /\ Go("poll")
  /\ traffic' = [latest |-> FALSE, revision |-> flow.target]
  /\ UNCHANGED <<revisions, status, tagged, jobs, several, now, quota>>

(* The service is read again until its traffic is reconciled.              *)
PollTraffic ==
  /\ At("deploy", "poll") /\ Reconciled(View, flow.target)
  /\ flow' = [flow EXCEPT !.pc = "jobs", !.left = JobPlan(flow.migration), !.after = {View}]
  /\ UNCHANGED <<revisions, traffic, status, tagged, jobs, several, now, quota>>

(* The scheduler jobs are created or updated one after the other.          *)
SyncJob ==
  /\ At("deploy", "jobs")
  /\ jobs' = [jobs EXCEPT ![Head(flow.left)[1]] = Head(flow.left)[2]]
  /\ flow' = [flow EXCEPT !.left = Tail(@), !.pc = IF Len(flow.left) = 1 THEN "cleanup" ELSE "jobs"]
  /\ UNCHANGED <<revisions, traffic, status, tagged, several, now, quota>>

(* The dispatcher's job goes only when the migration was made, this run    *)
(* has synced the direct jobs, the plan has one target and both jobs can   *)
(* be described.                                                           *)
(* Fault: the targets of the plan are not counted. *)
MayDeleteWhenSynced(described) ==
  flow.migration /\ described /\ \A j \in DirectJobs : jobs[j] # "absent"
MayDeleteDispatcher(described) ==
  /\ flow.migration /\ ~several
  /\ described /\ \A j \in DirectJobs : jobs[j] # "absent"

Cleanup ==
  /\ At("deploy", "cleanup")
  /\ \E described \in BOOLEAN :
       flow' = [flow EXCEPT !.pc = "delete", !.left =
                  <<<<"legacy", "absent">>>> \o
                  (IF MayDeleteDispatcher(described) THEN <<<<"dispatcher", "absent">>>> ELSE <<>>)]
  /\ UNCHANGED <<revisions, traffic, status, tagged, jobs, several, now, quota>>

(* A job that cannot be described counts as deleted.                       *)
DeleteJob ==
  /\ At("deploy", "delete")
  /\ \E described \in BOOLEAN :
       jobs' = IF described THEN [jobs EXCEPT ![Head(flow.left)[1]] = "absent"] ELSE jobs
  /\ flow' = [flow EXCEPT !.left = Tail(@), !.pc = IF Len(flow.left) = 1 THEN "ok" ELSE "delete"]
  /\ UNCHANGED <<revisions, traffic, status, tagged, several, now, quota>>

-----------------------------------------------------------------------------
(* The account-facts sync.  The digests leave out the facts variables and  *)
(* an alias only their token uses, and compare everything else.            *)
Unrelated(t) ==
  [t EXCEPT !.facts = "unset", !.alias = IF UsedElsewhere(t) THEN "other" ELSE "none"]
SpecRevision(v) == IF v.traffic.latest THEN v.created ELSE v.traffic.revision
(* Fault: the traffic that requests see is not part of the baseline. *)
DesiredOnly(v) ==
  [template |-> Unrelated(v.template), spec |-> SpecRevision(v), tagged |-> v.tagged]
Baseline(v) == [template |-> Unrelated(v.template), spec |-> SpecRevision(v),
                status |-> v.status.revision, tagged |-> v.tagged]

(* verify_revision: the latest revision is ready and of the commit.        *)
SourceVerified(i, c) == revisions[i].ready /\ revisions[i].template.commit = c

(* The template's runtime target must be the account the facts are for.    *)
BoundTarget(t) == t.env \in Bound

(* A status that follows the latest revision cannot be a baseline.         *)
FactsBefore ==
  /\ At("facts", "begin")
  /\ IF BoundTarget(View.template) /\ ~status.latest /\ SourceVerified(Created, flow.sha)
     THEN flow' = [flow EXCEPT !.pc = "update", !.before = {View}] ELSE Fail
  /\ UNCHANGED <<revisions, traffic, status, tagged, jobs, several, now, quota>>

(* The facts variables and the token's secret are set without traffic.     *)
FactsUpdate ==
  /\ At("facts", "update")
  /\ \E ready \in BOOLEAN, a \in AliasesAfter(View.template, "desired") :
       /\ NewRevision([View.template EXCEPT !.facts = "desired", !.alias = a], ready)
       /\ IF ready THEN Go("verify") ELSE Fail
  /\ traffic' = Pinned
  /\ UNCHANGED <<status, tagged, jobs, several, now, quota>>

(* The token's own reference, by an alias nothing else uses or by name.    *)
TokenReadBack(t) == t.alias # "shared"
FactsUnchanged(v, baseline) ==
  /\ BoundTarget(v.template) /\ TokenReadBack(v.template)
  /\ v.template.facts = "desired" /\ ~v.status.latest
  /\ Baseline(v) = baseline

FactsAfter ==
  /\ At("facts", "verify")
  /\ IF /\ \A v \in flow.before : FactsUnchanged(View, Baseline(v))
        /\ SourceVerified(Created, flow.sha)
     THEN flow' = [flow EXCEPT !.pc = "ok", !.after = {View}] ELSE Fail
  /\ UNCHANGED <<revisions, traffic, status, tagged, jobs, several, now, quota>>

-----------------------------------------------------------------------------
(* Staging the diagnostic.  The template but for its image, the traffic    *)
(* and the jobs must be what they were; the tag is on the newest revision. *)
Config(t) == <<t.env, t.facts, t.alias>>
StageBaseline(v) == [template |-> [v.template EXCEPT !.image = Diagnostic],
                     spec |-> v.traffic, status |-> v.status, jobs |-> v.jobs]

(* The traffic is frozen, and the revision that serves is of the pinned    *)
(* commit and configured like the template, whose image is the diagnostic  *)
(* staged before.                                                          *)
Frozen(v) == ~v.traffic.latest /\ v.traffic.revision = v.status.revision
TagOnNewest(v) == v.tagged = v.created
ServingVerified(v, c) ==
  LET serving == revisions[v.status.revision].template IN
  serving.commit = c /\ Config(serving) = Config(v.template)

StageCapture ==
  /\ At("stage", "begin")
  /\ IF /\ Frozen(View) /\ ServingVerified(View, flow.sha)
        /\ TagOnNewest(View) /\ View.template.image = OldDiagnostic
     THEN flow' = [flow EXCEPT !.pc = "update", !.before = {View}] ELSE Fail
  /\ UNCHANGED <<revisions, traffic, status, tagged, jobs, several, now, quota>>

StageDeploy ==
  /\ At("stage", "update")
  /\ \E ready \in BOOLEAN :
       /\ NewRevision([View.template EXCEPT !.image = Diagnostic], ready)
       /\ IF ready THEN Go("verify") ELSE Fail
  /\ traffic' = Pinned /\ tagged' = Created + 1
  /\ UNCHANGED <<status, jobs, several, now, quota>>

StageUnchanged(v, baseline) ==
  /\ v.template.image = Diagnostic /\ TagOnNewest(v) /\ ~v.traffic.latest
  /\ StageBaseline(v) = baseline

StageVerify ==
  /\ At("stage", "verify")
  /\ IF \A v \in flow.before : StageUnchanged(View, StageBaseline(v))
     THEN flow' = [flow EXCEPT !.pc = "ok", !.after = {View}] ELSE Fail
  /\ UNCHANGED <<revisions, traffic, status, tagged, jobs, several, now, quota>>

DeploymentNext ==
  \/ Converge \/ BecomeReady \/ Edit \/ Begin \/ SyncOther \/ Abort
  \/ CaptureDeployment \/ DeployImage \/ DeployReadback \/ SyncEnvironment
  \/ SelectRevision \/ ShiftTraffic \/ PollTraffic
  \/ SyncJob \/ Cleanup \/ DeleteJob
  \/ FactsBefore \/ FactsUpdate \/ FactsAfter
  \/ StageCapture \/ StageDeploy \/ StageVerify

-----------------------------------------------------------------------------
DeploymentTypeOK ==
  /\ now \in 0 .. MaxTime /\ revisions \in Seq(Revisions)
  /\ traffic \in Traffic /\ status \in Traffic /\ tagged \in 0 .. Created
  /\ status.revision \in Ready
  /\ jobs \in [Jobs -> JobStates] /\ several \in BOOLEAN
  /\ flow \in Flows
  /\ quota \in Quotas

(* What a script reports is true of the service it read.  A facts sync or  *)
(* a staging that succeeds has left the requests with the revision that    *)
(* served them, and its newest revision is the one it began with but for   *)
(* the facts and their secret, or but for the image; reconciled traffic    *)
(* is with a ready revision of the commit.  An operator may edit the       *)
(* service between any two of its commands.                                *)
ReportsAreTrue ==
  \A v \in flow.after :
    LET newest == revisions[v.created].template
        serving == revisions[v.status.revision] IN
    /\ flow.kind = "deploy" => serving.ready /\ serving.template.commit = flow.sha
    /\ flow.kind # "deploy" => \A b \in flow.before :
         /\ v.status.revision = b.status.revision
         /\ v.created > b.created
         /\ flow.kind = "facts" =>
              /\ newest = [b.template EXCEPT !.facts = "desired", !.alias = newest.alias]
              /\ newest.commit = flow.sha
         /\ flow.kind = "stage" =>
              /\ newest = [b.template EXCEPT !.image = Diagnostic]
              /\ v.tagged = v.created /\ v.jobs = b.jobs

(* Once a job calls this service's monitors, one always does: through a    *)
(* migration to the direct jobs or back, with any step of it failing, the  *)
(* dispatcher's job or both direct jobs.  The exemption is what the        *)
(* workflow does to the others of the plan when it syncs one service: it   *)
(* takes the dispatcher from them.  It never deletes one that calls        *)
(* another service.                                                        *)
Monitored ==
  jobs["dispatcher"] = "live" \/ \A j \in DirectJobs : jobs[j] = "live"
MonitoringIsKept ==
  [][/\ Monitored => Monitored' \/ SyncOther
     /\ jobs["dispatcher"] = "elsewhere" => jobs'["dispatcher"] # "absent"]_jobs
=============================================================================
