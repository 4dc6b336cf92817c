---------------------------- MODULE AccountFacts ----------------------------
(***************************************************************************)
(* The daily snapshot of the account: /account-facts-sync observes the     *)
(* account through a cached session, archives the observation in the state *)
(* bucket and publishes it to the console; the session check archives its  *)
(* own; sync_cached_account_facts dispatches the scheduler job once and    *)
(* reads the logs for the outcome; publish_archived_account_history sends  *)
(* the one saved observation of a past day.                                *)
(*                                                                         *)
(* One action is one access to the broker, the bucket, the console, the    *)
(* scheduler or the logs.  The console is external: it may answer anything *)
(* but never claims to have stored what it has not.  An observation's      *)
(* finish time, kept to the microsecond, names it; the path of an archived *)
(* observation has its start in whole seconds.                             *)
(***************************************************************************)
EXTENDS Naturals, FiniteSets

CONSTANTS
  Calls,       \* requests to /account-facts-sync
  Checks,      \* session checks that persist a snapshot
  Scripts,     \* executions of sync_cached_account_facts
  Backfills,   \* executions of publish_archived_account_history
  Accounts,    \* accounts the broker may list
  Listings,    \* sets of accounts a session may list
  Selected,    \* the account selector of the runtime target, perhaps a label
  Archiving,   \* FIRSTRADE_PERSIST_ACCOUNT_SNAPSHOT
  MaxTime,     \* last second modelled
  DayLength,   \* seconds of a day
  None         \* no observation, no account

ASSUME FactsAssumption ==
  /\ IsFiniteSet(Accounts) /\ Listings \subseteq SUBSET Accounts
  /\ None \notin Accounts \cup [by : Calls \cup Checks, account : Accounts, at : Nat]
  /\ Calls \cap Checks = {}
  /\ Archiving \in BOOLEAN /\ MaxTime \in Nat /\ DayLength \in Nat \ {0}

VARIABLES
  now,       \* seconds since the model began
  broker,    \* accounts the broker lists for the session
  latest,    \* latest[a]: the observation in funds/latest.json
  history,   \* history[a][t]: generation and observation in funds/history
  console,   \* external: observations the console has stored
  logs,      \* rows of Cloud Logging
  call,      \* call[c]: one request
  check,     \* check[k]: one session check
  script,    \* script[s]: one dispatch
  backfill,  \* backfill[b]: one publication of a past day
  claims     \* history: what was said to be stored or archived

vars == <<now, broker, latest, history, console, logs, call, check, script, backfill, claims>>

Times == 0 .. MaxTime
Day(t) == t \div DayLength

Observations == [by : Calls \cup Checks, account : Accounts, at : Times]
Stored == [generation : Nat, value : Observations \cup {None}]

(* HTTP statuses as sync_cached_account_facts tells them apart: "ok" is    *)
(* 200, "failure" 401, 403, 429 and 500 to 504, "other" 404 and 409.       *)
Statuses == {"ok", "failure", "other"}

(* Fault: a status the script's lists do not have. *)
RowUnclassified(kind, at, status) ==
  [kind |-> kind, at |-> at, status |-> IF status = "other" THEN "unclassified" ELSE status]

(* A row says ok for the endpoint's status, or for the scheduler's attempt. *)
Row(kind, at, status) == [kind |-> kind, at |-> at, status |-> status]
Rows == [kind : {"app", "attempt"}, at : Times, status : Statuses]

CallSteps == {"idle", "sent", "collect", "reading", "latest", "history", "publish", "answered"}
CallRecords ==
  [step : CallSteps, scheduled : BOOLEAN, ok : BOOLEAN, received : Times, started : Times,
   account : Accounts \cup {None}]
CheckRecords == [step : {"idle", "reading", "latest", "history", "done"}, at : Times, account : Accounts \cup {None}]
ScriptRecords == [step : {"idle", "ready", "watching", "completed", "failed"}, since : Times]
BackfillRecords ==
  [step : {"idle", "selected", "loaded", "done"}, at : Times, generation : Nat,
   account : Accounts \cup {None}, value : Observations \cup {None}]
Claims == [of : {"stored", "archived"}, value : Observations]

IdleCall == [step |-> "idle", scheduled |-> FALSE, ok |-> FALSE, received |-> 0, started |-> 0, account |-> None]
IdleCheck == [step |-> "idle", at |-> 0, account |-> None]
IdleBackfill == [step |-> "idle", at |-> 0, generation |-> 0, account |-> None, value |-> None]

TypeOK ==
  /\ now \in Times
  /\ broker \subseteq Accounts
  /\ latest \in [Accounts -> Observations \cup {None}]
  /\ history \in [Accounts -> [Times -> Stored]]
  /\ console \subseteq Observations
  /\ logs \subseteq Rows
  /\ call \in [Calls -> CallRecords]
  /\ check \in [Checks -> CheckRecords]
  /\ script \in [Scripts -> ScriptRecords]
  /\ backfill \in [Backfills -> BackfillRecords]
  /\ claims \subseteq Claims

Init ==
  /\ now = 0
  /\ broker \in Listings
  /\ latest = [a \in Accounts |-> None]
  /\ history = [a \in Accounts |-> [t \in Times |-> [generation |-> 0, value |-> None]]]
  /\ console = {} /\ logs = {}
  /\ call = [c \in Calls |-> IdleCall]
  /\ check = [k \in Checks |-> IdleCheck]
  /\ script = [s \in Scripts |-> [step |-> "idle", since |-> 0]]
  /\ backfill = [b \in Backfills |-> IdleBackfill]
  /\ claims = {}

Tick ==
  /\ now < MaxTime
  /\ now' = now + 1
  /\ UNCHANGED <<broker, latest, history, console, logs, call, check, script, backfill, claims>>

-----------------------------------------------------------------------------
(* The archive. *)

Observed(c) == [by |-> c, account |-> call[c].account, at |-> call[c].started]
Checked(k) == [by |-> k, account |-> check[k].account, at |-> check[k].at]

PutLatest(o) == latest' = [latest EXCEPT ![o.account] = o]

PutHistory(o) ==
  history' = [history EXCEPT ![o.account][o.at] = [generation |-> @.generation + 1, value |-> o]]

(* Its path holds the observation, or another of the same second and account. *)
Archived(o) == history[o.account][o.at].value # None

-----------------------------------------------------------------------------
(* The endpoint. *)

CallAt(c, step) == call[c].step = step
Go(c, step) == call' = [call EXCEPT ![c].step = step]

(* The request is answered, and Cloud Run logs it under the time it came;  *)
(* what it had read is gone.                                               *)
Answer(c, status) ==
  /\ call' = [call EXCEPT ![c] =
       [IdleCall EXCEPT !.step = "answered", !.scheduled = call[c].scheduled, !.ok = (status = "ok")]]
  /\ logs' = logs \cup {Row("app", call[c].received, status)}

Claim(of, o) == claims' = claims \cup {[of |-> of, value |-> o]}

(* A request of the scheduler's own timetable or of an operator. *)
Request(c) ==
  /\ CallAt(c, "idle")
  /\ \E scheduled \in BOOLEAN :
       call' = [call EXCEPT ![c].step = "sent", ![c].scheduled = scheduled]
  /\ UNCHANGED <<now, broker, latest, history, console, logs, check, script, backfill, claims>>

Receive(c) ==
  /\ CallAt(c, "sent")
  /\ call' = [call EXCEPT ![c].step = "collect", ![c].received = now]
  /\ UNCHANGED <<now, broker, latest, history, console, logs, check, script, backfill, claims>>

(* Disabled, misconfigured, unauthorised or of another runtime target; or  *)
(* no cached session to read with.                                         *)
Refuse(c) ==
  /\ CallAt(c, "collect")
  /\ \E status \in {"failure", "other"} : Answer(c, status)
  /\ UNCHANGED <<now, broker, latest, history, console, check, script, backfill, claims>>

(* The account the facts are bound to: the selector, or the sole account   *)
(* of the session when the selector is none of its accounts.               *)
BoundAccount ==
  IF Selected \notin broker /\ Cardinality(broker) = 1 THEN broker ELSE broker \cap {Selected}

StartReading(c) ==
  /\ CallAt(c, "collect")
  /\ \E a \in BoundAccount :
       call' = [call EXCEPT ![c].step = "reading", ![c].started = now, ![c].account = a]
  /\ UNCHANGED <<now, broker, latest, history, console, logs, check, script, backfill, claims>>

(* The balances and positions are read and make a snapshot, or they are    *)
(* missing, ambiguous, of no known currency or out of range, or there is   *)
(* no store to archive them in.                                            *)
FinishReading(c) ==
  /\ CallAt(c, "reading")
  /\ \/ Go(c, IF Archiving THEN "latest" ELSE "publish") /\ UNCHANGED logs
     \/ Answer(c, "failure")
  /\ UNCHANGED <<now, broker, latest, history, console, check, script, backfill, claims>>

(* Fault: a snapshot that cannot be archived is published all the same. *)
ArchiveBestEffort(c) ==
  /\ \/ CallAt(c, "latest") /\ PutLatest(Observed(c)) /\ Go(c, "history") /\ UNCHANGED <<history, logs>>
     \/ CallAt(c, "history") /\ PutHistory(Observed(c)) /\ Go(c, "publish") /\ UNCHANGED <<latest, logs>>
     \/ call[c].step \in {"latest", "history"} /\ Go(c, "publish") /\ UNCHANGED <<latest, history, logs>>
  /\ UNCHANGED <<now, broker, console, check, script, backfill, claims>>

(* archive_cached_account_facts writes latest and then history; a write    *)
(* that raises may have been made, and ends the request.                   *)
Archive(c) ==
  /\ \/ CallAt(c, "latest") /\ PutLatest(Observed(c)) /\ Go(c, "history") /\ UNCHANGED <<history, logs>>
     \/ CallAt(c, "history") /\ PutHistory(Observed(c)) /\ Go(c, "publish") /\ UNCHANGED <<latest, logs>>
     \/ /\ call[c].step \in {"latest", "history"}
        /\ \/ UNCHANGED <<latest, history>>
           \/ CallAt(c, "latest") /\ PutLatest(Observed(c)) /\ UNCHANGED history
           \/ CallAt(c, "history") /\ PutHistory(Observed(c)) /\ UNCHANGED latest
        /\ Answer(c, "failure")
  /\ UNCHANGED <<now, broker, console, check, script, backfill, claims>>

(* Fault: any acknowledgement of the account will do. *)
AckMatchesAccount(ack, o) == ack.account = o.account

(* The acknowledgement names the day and the finish time of the observation. *)
AckMatches(ack, o) == ack = o

(* One POST.  The console stores the observation or not; it acknowledges   *)
(* something it holds, or its answer is lost, late or anything else.       *)
Publish(c) ==
  /\ CallAt(c, "publish")
  /\ console' \in {console, console \cup {Observed(c)}}
  /\ \/ \E ack \in console' :
          AckMatches(ack, Observed(c)) /\ Answer(c, "ok") /\ Claim("stored", Observed(c))
     \/ Answer(c, "failure") /\ UNCHANGED claims
  /\ UNCHANGED <<now, broker, latest, history, check, script, backfill>>

(* The instance is stopped, and the platform answers in its place; a POST  *)
(* that was under way may have been stored.                                *)
Killed(c) ==
  /\ call[c].step \notin {"idle", "sent", "answered"}
  /\ \/ UNCHANGED console
     \/ CallAt(c, "publish") /\ console' = console \cup {Observed(c)}
  /\ Answer(c, "failure")
  /\ UNCHANGED <<now, broker, latest, history, check, script, backfill, claims>>

(* The scheduler logs the end of its attempt, or gives it up before. *)
EndAttempt(c) ==
  /\ call[c].scheduled /\ ~CallAt(c, "idle")
  /\ call' = [call EXCEPT ![c].scheduled = FALSE]
  /\ logs' = logs \cup {Row("attempt", now, IF call[c].ok THEN "ok" ELSE "failure")}
  /\ UNCHANGED <<now, broker, latest, history, console, check, script, backfill, claims>>

-----------------------------------------------------------------------------
(* run_session_check with its funds snapshot. *)

CheckAt(k, step) == check[k].step = step

(* select_account: the configured account must be listed. *)
StartCheck(k) ==
  /\ CheckAt(k, "idle")
  /\ \/ \E a \in broker \cap {Selected} :
          check' = [check EXCEPT ![k] = [step |-> "reading", at |-> now, account |-> a]]
     \/ check' = [check EXCEPT ![k].step = "done"]
  /\ UNCHANGED <<now, broker, latest, history, console, logs, call, script, backfill, claims>>

EndCheck(k) == check' = [check EXCEPT ![k] = [IdleCheck EXCEPT !.step = "done"]]

ReadFunds(k) ==
  /\ CheckAt(k, "reading")
  /\ \/ Archiving /\ check' = [check EXCEPT ![k].step = "latest"]
     \/ EndCheck(k)
  /\ UNCHANGED <<now, broker, latest, history, console, logs, call, script, backfill, claims>>

(* persist_funds_snapshot: latest first, then history. *)
WriteLatest(k) ==
  /\ CheckAt(k, "latest")
  /\ PutLatest(Checked(k))
  /\ check' = [check EXCEPT ![k].step = "history"]
  /\ UNCHANGED <<now, broker, history, console, logs, call, script, backfill, claims>>

(* Both are written: the check answers that its snapshot is persisted. *)
WriteHistory(k) ==
  /\ CheckAt(k, "history")
  /\ PutHistory(Checked(k))
  /\ EndCheck(k)
  /\ Claim("archived", Checked(k))
  /\ UNCHANGED <<now, broker, latest, console, logs, call, script, backfill>>

(* A write that raises, and may have been made, is reported by the check   *)
(* and does not fail it.                                                   *)
WriteRaises(k) ==
  /\ check[k].step \in {"latest", "history"}
  /\ \/ UNCHANGED <<latest, history>>
     \/ CheckAt(k, "latest") /\ PutLatest(Checked(k)) /\ UNCHANGED history
     \/ CheckAt(k, "history") /\ PutHistory(Checked(k)) /\ UNCHANGED latest
  /\ EndCheck(k)
  /\ UNCHANGED <<now, broker, console, logs, call, script, backfill, claims>>

-----------------------------------------------------------------------------
(* sync_cached_account_facts. *)

ScriptAt(s, step) == script[s].step = step

(* The bridge is read and matches, or the script ends without a dispatch. *)
ReadBridge(s) ==
  /\ ScriptAt(s, "idle")
  /\ \/ script' = [script EXCEPT ![s].step = "ready", ![s].since = now]
     \/ script' = [script EXCEPT ![s].step = "failed"]
  /\ UNCHANGED <<now, broker, latest, history, console, logs, call, check, backfill, claims>>

(* The job is run once; a command that fails may have run it. *)
Dispatch(s) ==
  /\ ScriptAt(s, "ready")
  /\ \E result \in {"watching", "failed"} : script' = [script EXCEPT ![s].step = result]
  /\ \/ \E c \in Calls :
          CallAt(c, "idle") /\ call' = [call EXCEPT ![c].step = "sent", ![c].scheduled = TRUE]
     \/ ScriptAt(s, "ready") /\ script'[s].step = "failed" /\ UNCHANGED call
  /\ UNCHANGED <<now, broker, latest, history, console, logs, check, backfill, claims>>

(* Fault: the log is read from its beginning. *)
MatchingRowsEver(since) == logs

(* The rows of the job and the endpoint since the script looked at the clock. *)
MatchingRows(since) == {row \in logs : row.at >= since}

Failing(rows) == \E row \in rows : row.status = "failure"

CompletedSnapshot(rows) ==
  /\ \E row \in rows : row.kind = "attempt"
  /\ \E row \in rows : row.kind = "app" /\ row.status = "ok"

(* One poll: rows may be late, and no more than some are returned. *)
Poll(s) ==
  /\ ScriptAt(s, "watching")
  /\ \E rows \in SUBSET MatchingRows(script[s].since) :
       script' = [script EXCEPT ![s].step =
         IF Failing(rows) THEN "failed" ELSE IF CompletedSnapshot(rows) THEN "completed" ELSE @]
  /\ UNCHANGED <<now, broker, latest, history, console, logs, call, check, backfill, claims>>

(* The deadline, or a command that fails: the outcome stays unverified. *)
GiveUp(s) ==
  /\ ScriptAt(s, "watching")
  /\ script' = [script EXCEPT ![s].step = "failed"]
  /\ UNCHANGED <<now, broker, latest, history, console, logs, call, check, backfill, claims>>

-----------------------------------------------------------------------------
(* publish_archived_account_history. *)

BackfillAt(b, step) == backfill[b].step = step
EndBackfill(b) == backfill' = [backfill EXCEPT ![b] = [IdleBackfill EXCEPT !.step = "done"]]

(* The objects of account a archived for day d. *)
ArchivedOn(a, d) == {t \in Times : Day(t) = d /\ history[a][t].value # None}

(* selected_archive: the day must have one object. *)
SelectArchive(b) ==
  /\ BackfillAt(b, "idle")
  /\ \/ \E d \in {Day(t) : t \in Times}, a \in Accounts \cap {Selected} :
          /\ d < Day(now)
          /\ Cardinality(ArchivedOn(a, d)) = 1
          /\ \E t \in ArchivedOn(a, d) :
               backfill' = [backfill EXCEPT ![b] =
                 [@ EXCEPT !.step = "selected", !.at = t, !.account = a,
                           !.generation = history[a][t].generation]]
     \/ EndBackfill(b)
  /\ UNCHANGED <<now, broker, latest, history, console, logs, call, check, script, claims>>

(* The body is read at the generation of the listing, and must be complete. *)
LoadArchive(b) ==
  LET object == history[backfill[b].account][backfill[b].at] IN
  /\ BackfillAt(b, "selected")
  /\ \/ /\ object.generation = backfill[b].generation
        /\ backfill' = [backfill EXCEPT ![b] = [@ EXCEPT !.step = "loaded", !.value = object.value]]
     \/ EndBackfill(b)
  /\ UNCHANGED <<now, broker, latest, history, console, logs, call, check, script, claims>>

(* One POST to the history route; a preview ends before it.  What is posted *)
(* stands for the archived observation: it has its account, instant and    *)
(* balances, while the finish time is the instant, the currency is USD and *)
(* the positions are left out.                                             *)
PublishArchive(b) ==
  LET o == backfill[b].value IN
  /\ BackfillAt(b, "loaded")
  /\ EndBackfill(b)
  /\ console' \in {console, console \cup {o}}
  /\ \/ \E ack \in console' : AckMatches(ack, o) /\ Claim("stored", o)
     \/ UNCHANGED claims
  /\ UNCHANGED <<now, broker, latest, history, logs, call, check, script>>

-----------------------------------------------------------------------------
Call(c) ==
  \/ Request(c) \/ Receive(c) \/ Refuse(c) \/ StartReading(c) \/ FinishReading(c) \/ Archive(c)
  \/ Publish(c) \/ Killed(c) \/ EndAttempt(c)

Check(k) == StartCheck(k) \/ ReadFunds(k) \/ WriteLatest(k) \/ WriteHistory(k) \/ WriteRaises(k)
Script(s) == ReadBridge(s) \/ Dispatch(s) \/ Poll(s) \/ GiveUp(s)
Backfill(b) == SelectArchive(b) \/ LoadArchive(b) \/ PublishArchive(b)

Next ==
  \/ Tick
  \/ \E c \in Calls : Call(c)
  \/ \E k \in Checks : Check(k)
  \/ \E s \in Scripts : Script(s)
  \/ \E b \in Backfills : Backfill(b)

Spec == Init /\ [][Next]_vars

-----------------------------------------------------------------------------
(* Whatever the console has, by either route and whatever failed, has its  *)
(* account and second in the archive: a snapshot is archived before it is  *)
(* published.  The object there is this observation or another of the same *)
(* second, which replaced it: the path holds no more than the second.      *)
ConsoleHoldsOnlyArchived == Archiving => \A o \in console : Archived(o)

(* A success is never claimed for less than was done: HTTP 200 and         *)
(* "published" mean the console has this very observation, and persisted   *)
(* that the funds history has it, or another of its second.                *)
ClaimsAreTrue ==
  \A claim \in claims :
    IF claim.of = "stored" THEN claim.value \in console ELSE Archived(claim.value)

(* The dispatching script says completed only when the console has an      *)
(* observation made after the script began, whatever other requests,       *)
(* attempts and late log rows surround it.                                 *)
CompletedMeansFresh ==
  \A s \in Scripts : ScriptAt(s, "completed") =>
    \E o \in console : o.by \in Calls /\ o.at >= script[s].since
=============================================================================
