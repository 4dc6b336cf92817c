---------------------------- MODULE RuntimeGuard ----------------------------
(***************************************************************************)
(* The runtime guard: every half hour a workflow restores the alert state  *)
(* from its cache, cloud_run_runtime_guard.py reads the logs of the        *)
(* watched services and of their scheduler jobs, and                       *)
(* runtime_guard_alert_dedupe.py decides whether the alert is a repeat;    *)
(* the state is written before the alert is sent, and cached after it.     *)
(*                                                                         *)
(* It runs beside Deployment: what the service logged before its latest    *)
(* ready revision was created is not looked at.  One action is one query,  *)
(* the decision, the send or the save; the logs, the cache and Telegram    *)
(* are external.  An entry's insertId is its id.                           *)
(***************************************************************************)
EXTENDS Deployment

CONSTANTS
  Services,        \* services whose logs the project holds
  Deployed,        \* the service of Deployment, the one with a known region
  Shown,           \* a service's name as fingerprints show it, digits as #
  Ids,             \* log entries
  Configs,         \* values of the variables that list the services
  ExplicitJobs,    \* services whose jobs RUNTIME_GUARD_SCHEDULER_JOB_PATTERN names
  Modes,           \* values of RUNTIME_GUARD_ALERT_DEDUPE_MODE
  CheckScheduler,  \* RUNTIME_GUARD_CHECK_SCHEDULER
  IgnorePreReady,  \* RUNTIME_GUARD_IGNORE_PRE_READY_REVISION_LOGS
  Lookback, Limit, Tolerance, Reminder, Retention   \* in ticks, Limit in entries

(* A target may be switched by its own setting, by the defaults' one or by *)
(* its runtime target's.                                                   *)
Settings == {"unset", "true", "false"}
Targets == [service : Services, own : Settings, inherited : Settings, runtime : Settings]

ASSUME GuardAssumption ==
  /\ Deployed \in Services /\ ExplicitJobs \subseteq Services
  /\ DOMAIN Shown = Services
  /\ Configs \subseteq [valid : BOOLEAN, listed : SUBSET Services,
                        targets : SUBSET Targets, required : BOOLEAN]
  /\ Modes \subseteq {"off", "dry_run", "on"}
  /\ {CheckScheduler, IgnorePreReady} \subseteq BOOLEAN
  /\ {Lookback, Limit, Tolerance, Reminder, Retention} \subseteq Nat

VARIABLES
  log,      \* entries of Cloud Logging
  cache,    \* the alert state the next run restores
  run,      \* the guard's run in progress, or the last one
  alerts    \* history: alerts handed to Telegram, or lost on the way

guard == <<log, cache, run, alerts>>
vars == <<deployment, now, quota, guard>>

Entries == [id : Ids, service : Services, source : {"run", "scheduler"},
            kind : {"failure", "success"}, at : 0 .. MaxTime]
Kinds == {"configuration", "query", "failures", "silent", "scheduler query", "scheduler failures"}
Issues == Kinds \X ({Shown[s] : s \in Services} \cup {"all"})
States == [events : SUBSET (Ids \X (0 .. MaxTime)),
           issues : SUBSET ((SUBSET Issues) \X (0 .. MaxTime))]
Empty == [events |-> {}, issues |-> {}]

Rest == [pc |-> "done", required |-> FALSE, services |-> {}, jobs |-> {}, left |-> {}, since |-> 0,
         starts |-> [s \in Services |-> 0], failures |-> {}, issues |-> {}, ids |-> {},
         state |-> Empty, decided |-> 0, scope |-> {}]

Init ==
  /\ DeploymentInit
  /\ log = {} /\ cache = Empty /\ run = Rest /\ alerts = {}

Later(a, b) == IF a < b THEN b ELSE a
Back(ticks) == IF now < ticks THEN 0 ELSE now - ticks

(* What happens after the decision and before the end of a run happens, in *)
(* the model, after its end: the run reads neither the clock nor the logs. *)
Attentive == run.pc \notin {"send", "save"}

(* Environment: a request or a job is logged, perhaps a tick late.         *)
Log ==
  /\ Attentive
  /\ quota.entries > 0 /\ quota' = [quota EXCEPT !.entries = @ - 1]
  /\ \E e \in Entries :
       /\ e.at \in Back(1) .. now
       /\ \A other \in log : other.id # e.id
       /\ log' = log \cup {e}
  /\ UNCHANGED <<deployment, now, cache, run, alerts>>

Tick ==
  /\ Attentive
  /\ quota.ticks > 0 /\ quota' = [quota EXCEPT !.ticks = @ - 1]
  /\ now' = now + 1
  /\ UNCHANGED <<deployment, guard>>

-----------------------------------------------------------------------------
(* The first setting made counts, the target's own before the defaults'.   *)
TargetEnabled(t) ==
  /\ t.own # "false"
  /\ t.own = "unset" => t.inherited # "false"
  /\ t.own = "unset" /\ t.inherited = "unset" => t.runtime # "false"

(* A disabled target removes a service unless another target enables it.   *)
LoadServices(c) ==
  LET enabled == {t.service : t \in {t \in c.targets : TargetEnabled(t)}}
      disabled == {t.service : t \in c.targets} \ enabled IN
  (c.listed \cup enabled) \ disabled

(* The workflow restores the newest state saved and the script begins.     *)
GuardStart ==
  /\ run.pc \in {"done", "dead"}
  /\ quota.guards > 0 /\ quota' = [quota EXCEPT !.guards = @ - 1]
  /\ \E c \in Configs :
       LET services == IF c.valid THEN LoadServices(c) ELSE {} IN
       run' = [Rest EXCEPT !.pc = "query", !.required = c.required, !.services = services, !.left = services,
                 !.jobs = IF ~CheckScheduler THEN {}
                          ELSE IF ExplicitJobs # {} THEN ExplicitJobs ELSE services,
                 !.since = Back(Lookback), !.starts = [s \in Services |-> Back(Lookback)],
                 !.issues = IF c.valid THEN {} ELSE {<<"configuration", "all">>},
                 !.state = cache, !.scope = log]
  /\ UNCHANGED <<deployment, now, log, cache, alerts>>

(* A query answers its newest entries, Limit of them at most.              *)
Smaller(a, b) == IF a < b THEN a ELSE b
Newest(matching) ==
  {Q \in SUBSET matching :
     /\ Cardinality(Q) = Smaller(Limit, Cardinality(matching))
     /\ \A e \in Q, missed \in matching \ Q : e.at >= missed.at}

Failures(Q) == {e \in Q : e.kind = "failure"}

(* A success is missed only where RUNTIME_GUARD_REQUIRE_SUCCESS asks for   *)
(* one and the query was answered.                                         *)
Silent(Q) == run.required /\ \A e \in Q : e.kind # "success"

(* The window of the deployed service begins at its latest ready revision, *)
(* unless that cannot be read; a failed query is itself an issue.          *)
Start(s, described) ==
  IF IgnorePreReady /\ s = Deployed /\ described
  THEN Later(run.since, revisions[Latest(Ready)].created) ELSE run.since

QueryService(s) ==
  /\ run.pc = "query" /\ s \in run.left
  /\ \E described, answered \in BOOLEAN :
       LET start == Start(s, described)
           base == [run EXCEPT !.left = @ \ {s}, !.starts[s] = start] IN
       IF ~answered THEN run' = [base EXCEPT !.issues = @ \cup {<<"query", Shown[s]>>}]
       ELSE \E Q \in Newest({e \in log : e.source = "run" /\ e.service = s /\ e.at >= start}) :
              run' = [base EXCEPT
                !.failures = @ \cup Failures(Q),
                !.ids = @ \cup {e.id : e \in Failures(Q)},
                !.issues = @ \cup
                  {<<"failures", Shown[s]>> : e \in Failures(Q)} \cup
                  (IF Silent(Q) THEN {<<"silent", Shown[s]>>} ELSE {})]
  /\ UNCHANGED <<deployment, now, quota, log, cache, alerts>>

(* A job's failure within the tolerance of a failed request of its service *)
(* is the same failure.                                                    *)
Near(a, b) == a.at <= b.at + Tolerance /\ b.at <= a.at + Tolerance
SameFailure(e, f) == f.service = e.service /\ Near(e, f)
JobFailures(Q) ==
  {e \in Failures(Q) :
     /\ e.service \in run.jobs
     /\ e.at >= run.starts[e.service]
     /\ \A f \in run.failures : ~SameFailure(e, f)}

QueryScheduler ==
  /\ run.pc = "query" /\ run.left = {}
  /\ \/ /\ run.jobs = {} /\ run' = [run EXCEPT !.pc = "decide"]
     \/ /\ run.jobs # {}
        /\ run' = [run EXCEPT !.pc = "decide", !.issues = @ \cup {<<"scheduler query", "all">>}]
     \/ /\ run.jobs # {}
        /\ \E Q \in Newest({e \in log : e.source = "scheduler" /\ e.at >= run.since}) :
             run' = [run EXCEPT !.pc = "decide",
               !.ids = @ \cup {e.id : e \in JobFailures(Q)},
               !.issues = @ \cup {<<"scheduler failures", "all">> : e \in JobFailures(Q)}]
  /\ UNCHANGED <<deployment, now, quota, log, cache, alerts>>

-----------------------------------------------------------------------------
(* runtime_guard_alert_dedupe.decide.  Events are forgotten after a while, *)
(* the time of a set of issues when a run finds none.                      *)
Kept(state) == {event \in state.events : event[2] + Retention >= now}
NewIds(state) == {id \in run.ids : \A event \in Kept(state) : event[1] # id}
LastAlert(state) == {known[2] : known \in {k \in state.issues : k[1] = run.issues}}
ReminderDue(at) == now >= at + Reminder
Repeat(state) ==
  /\ NewIds(state) = {}
  /\ \E at \in LastAlert(state) : ~ReminderDue(at)

(* Fault: a repeat postpones the reminder. *)
Refreshed(state) ==
  [events |-> Kept(state) \cup {<<id, now>> : id \in NewIds(state)},
   issues |-> {k \in state.issues : k[1] # run.issues} \cup {<<run.issues, now>>}]
Recorded(state) ==
  [events |-> Kept(state) \cup {<<id, now>> : id \in NewIds(state)},
   issues |-> IF Repeat(state) THEN state.issues
              ELSE {k \in state.issues : k[1] # run.issues} \cup {<<run.issues, now>>}]
Cleared(state) == [events |-> Kept(state), issues |-> {}]

(* The state is written before anything is sent.                           *)
Decide ==
  /\ run.pc = "decide"
  /\ \E mode \in Modes :
       run' = [run EXCEPT !.decided = now,
         !.pc = IF run.issues = {} \/ (mode = "on" /\ Repeat(run.state)) THEN "save" ELSE "send",
         !.state = IF mode = "off" THEN @
                   ELSE IF run.issues = {} THEN Cleared(@) ELSE Recorded(@)]
  /\ UNCHANGED <<deployment, now, quota, log, cache, alerts>>

Alert == [events |-> run.ids, issues |-> run.issues, at |-> run.decided]

(* The result of the send is not looked at.                                *)
Send ==
  /\ run.pc = "send"
  /\ alerts' = alerts \cup {Alert}
  /\ run' = [run EXCEPT !.pc = "save"]
  /\ UNCHANGED <<deployment, now, quota, log, cache>>

(* The workflow's last step saves the state, whatever became of the check. *)
(* A healthy run that leaves no issue in the cache takes back the issues   *)
(* of the alerts before it.                                                *)
SaveState ==
  /\ run.pc = "save" /\ run' = [run EXCEPT !.pc = "done", !.state = Empty]
  /\ cache' \in {cache, run.state}
  /\ alerts' = IF run.issues = {} /\ cache'.issues = {}
               THEN {[a EXCEPT !.issues = {}] : a \in alerts} ELSE alerts
  /\ UNCHANGED <<deployment, now, quota, log>>

(* The job is cancelled or its runner lost; the save may still be made.    *)
Die ==
  /\ run.pc \notin {"done", "dead"}
  /\ run' = [Rest EXCEPT !.pc = "dead"]
  /\ alerts' = IF run.pc = "send" THEN alerts \cup {Alert} ELSE alerts
  /\ cache' \in {cache, run.state}
  /\ UNCHANGED <<deployment, now, quota, log>>

GuardNext ==
  \/ Log \/ Tick \/ GuardStart \/ QueryScheduler \/ Decide \/ Send \/ SaveState \/ Die
  \/ \E s \in Services : QueryService(s)

Next == (DeploymentNext /\ UNCHANGED guard) \/ GuardNext
Spec == Init /\ [][Next]_vars

-----------------------------------------------------------------------------
TypeOK ==
  /\ DeploymentTypeOK
  /\ log \subseteq Entries /\ cache \in States
  /\ alerts \subseteq [events : SUBSET Ids, issues : SUBSET Issues, at : 0 .. MaxTime]
  /\ run.pc \in {"query", "decide", "send", "save", "done", "dead"}
  /\ run.left \subseteq run.services /\ run.services \cup run.jobs \subseteq Services
  /\ run.required \in BOOLEAN /\ run.since \in 0 .. MaxTime /\ run.starts \in [Services -> 0 .. MaxTime]
  /\ run.failures \cup run.scope \subseteq Entries
  /\ run.issues \subseteq Issues /\ run.ids \subseteq Ids
  /\ run.state \in States /\ run.decided \in 0 .. MaxTime

(* The entries the query that should find e has found or preferred to it.  *)
Competitors(e) ==
  {f \in log : /\ f.source = e.source /\ f.at >= e.at
               /\ e.source = "run" => f.service = e.service}
Announced(e) == \E a \in alerts : e.id \in a.events
Watched(e) == e.service \in IF e.source = "run" THEN run.services ELSE run.jobs
QueryFailed(e) ==
  IF e.source = "run" THEN <<"query", Shown[e.service]>> \in run.issues
  ELSE <<"scheduler query", "all">> \in run.issues

(* When a run of the guard has ended, whatever it and the runs before it   *)
(* suppressed, lost or found healthy: a failure that was in the logs when  *)
(* it began, of a watched service and within its window, was part of an    *)
(* alert (one that Telegram refused or a killed run lost included), unless *)
(* its query failed, Limit entries as new crowd it out, or it is a job's   *)
(* trace of a request that was part of one; and the issues the run found   *)
(* were all in one alert less than Reminder before, with no healthy run    *)
(* saved in between.                                                       *)
NothingIsSilenced ==
  run.pc = "done" =>
    /\ \A e \in Failures(run.scope) :
         Watched(e) /\ e.at >= run.starts[e.service] =>
           \/ Announced(e) \/ QueryFailed(e)
           \/ Cardinality(Competitors(e)) > Limit
           \/ /\ e.source = "scheduler"
              /\ \E f \in Failures(log) : f.source = "run" /\ SameFailure(e, f) /\ Announced(f)
    /\ run.issues # {} =>
         \E a \in alerts : a.issues = run.issues /\ run.decided < a.at + Later(Reminder, 1)
=============================================================================
