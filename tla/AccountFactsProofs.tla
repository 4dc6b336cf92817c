------------------------- MODULE AccountFactsProofs -------------------------
(***************************************************************************)
(* The daily account snapshot, for any requests, checks, scripts, accounts *)
(* and times: what the console holds is archived, what is claimed is true, *)
(* and a dispatch that completes has published something new.              *)
(***************************************************************************)
EXTENDS AccountFacts, TLAPS

USE FactsAssumption

-----------------------------------------------------------------------------
(* The invariant, in parts that speak of one piece of state each.  h is    *)
(* the history, k the console, t the clock.                                *)

(* The path of account a and second t holds an observation.                *)
Holds(h, a, t) == h[a][t].value # None

HistoryFits(h) ==
  /\ h \in [Accounts -> [Times -> Stored]]
  /\ \A a \in Accounts, t \in Times : Holds(h, a, t) =>
       h[a][t].value \in Observations /\ h[a][t].value.account = a /\ h[a][t].value.at = t

Keeps(h, g) == \A a \in Accounts, t \in Times : Holds(h, a, t) => Holds(g, a, t)

(* A request reads after it was received, and what it publishes is archived. *)
CallFits(r, h, t) ==
  /\ r \in CallRecords /\ r.received <= t
  /\ r.step \in {"reading", "latest", "history", "publish"} =>
       r.account \in Accounts /\ r.received <= r.started
  /\ r.step = "publish" /\ Archiving => Holds(h, r.account, r.started)

CheckFits(r) ==
  /\ r \in CheckRecords
  /\ r.step \in {"reading", "latest", "history"} => r.account \in Accounts

BackfillFits(r, h) ==
  /\ r \in BackfillRecords
  /\ r.step = "selected" => r.account \in Accounts /\ Holds(h, r.account, r.at)
  /\ r.step = "loaded" => r.value \in Observations /\ Holds(h, r.value.account, r.value.at)

(* The console has an observation of a request, made at t or later.        *)
Fresh(k, t) == \E o \in k : o.by \in Calls /\ o.at >= t

ScriptFits(r, k) ==
  /\ r \in ScriptRecords
  /\ r.step = "completed" => Fresh(k, r.since)

(* A row that says ok of a request was logged under the time it came.      *)
RowFits(row, k) ==
  /\ row \in Rows
  /\ row.kind = "app" /\ row.status = "ok" => Fresh(k, row.at)

Kept(o, h) == o \in Observations /\ (Archiving => Holds(h, o.account, o.at))

ClaimFits(claim, k, h) ==
  /\ claim \in Claims
  /\ claim.of = "stored" => claim.value \in k
  /\ claim.of = "archived" => Holds(h, claim.value.account, claim.value.at)

Inv ==
  /\ now \in Times /\ broker \subseteq Accounts
  /\ latest \in [Accounts -> Observations \cup {None}]
  /\ HistoryFits(history)
  /\ call = [c \in Calls |-> call[c]] /\ \A c \in Calls : CallFits(call[c], history, now)
  /\ check = [k \in Checks |-> check[k]] /\ \A k \in Checks : CheckFits(check[k])
  /\ script = [s \in Scripts |-> script[s]] /\ \A s \in Scripts : ScriptFits(script[s], console)
  /\ backfill = [b \in Backfills |-> backfill[b]]
  /\ \A b \in Backfills : BackfillFits(backfill[b], history)
  /\ \A o \in console : Kept(o, history)
  /\ \A row \in logs : RowFits(row, console)
  /\ \A claim \in claims : ClaimFits(claim, console, history)

LEMMA PartsOfInv ==
  Inv => TypeOK /\ ConsoleHoldsOnlyArchived /\ ClaimsAreTrue /\ CompletedMeansFresh
<1> SUFFICES ASSUME Inv
             PROVE TypeOK /\ ConsoleHoldsOnlyArchived /\ ClaimsAreTrue /\ CompletedMeansFresh
  OBVIOUS
<1>1. call \in [Calls -> CallRecords] /\ check \in [Checks -> CheckRecords]
  BY DEF Inv, CallFits, CheckFits
<1>2. script \in [Scripts -> ScriptRecords] /\ backfill \in [Backfills -> BackfillRecords]
  BY DEF Inv, ScriptFits, BackfillFits
<1>3. console \subseteq Observations /\ logs \subseteq Rows /\ claims \subseteq Claims
  BY DEF Inv, Kept, RowFits, ClaimFits
<1>4. TypeOK
  BY <1>1, <1>2, <1>3 DEF Inv, TypeOK, HistoryFits
<1>5. ConsoleHoldsOnlyArchived
  BY DEF Inv, Kept, ConsoleHoldsOnlyArchived, Archived, Holds
<1>6. ClaimsAreTrue
  BY DEF Inv, ClaimFits, Claims, ClaimsAreTrue, Archived, Holds
<1>7. CompletedMeansFresh
  BY DEF Inv, ScriptFits, ScriptAt, Fresh, CompletedMeansFresh
<1> QED BY <1>4, <1>5, <1>6, <1>7

(* What is archived stays archived, what the console has it keeps, the     *)
(* clock does not go back: what fits goes on fitting.                      *)
LEMMA FitsOn ==
  ASSUME NEW h, NEW g, Keeps(h, g), NEW k, NEW m, k \subseteq m,
         NEW t \in Times, NEW u \in Times, t <= u
  PROVE  /\ \A r : CallFits(r, h, t) => CallFits(r, g, u)
         /\ \A r : BackfillFits(r, h) => BackfillFits(r, g)
         /\ \A r : ScriptFits(r, k) => ScriptFits(r, m)
         /\ \A o : Kept(o, h) => Kept(o, g)
         /\ \A row : RowFits(row, k) => RowFits(row, m)
         /\ \A x : ClaimFits(x, k, h) => ClaimFits(x, m, g)
<1>1. \A r : CallFits(r, h, t) => CallFits(r, g, u)
  BY DEF CallFits, CallRecords, Keeps, Times
<1>2. \A r : BackfillFits(r, h) => BackfillFits(r, g)
  BY DEF BackfillFits, BackfillRecords, Observations, Keeps
<1>3. \A x : Fresh(k, x) => Fresh(m, x)
  BY DEF Fresh
<1>4. \A o : Kept(o, h) => Kept(o, g)
  BY DEF Kept, Keeps, Observations
<1>5. \A x : ClaimFits(x, k, h) => ClaimFits(x, m, g)
  BY DEF ClaimFits, Keeps, Claims, Observations
<1> QED BY <1>1, <1>2, <1>3, <1>4, <1>5 DEF ScriptFits, RowFits

(* Every step: the archive, the console and the clock only gain, and what  *)
(* it sets anew fits.                                                      *)
LEMMA Gains ==
  ASSUME Inv, now' \in Times, now <= now', broker' \subseteq Accounts,
         latest' \in [Accounts -> Observations \cup {None}],
         HistoryFits(history'), Keeps(history, history'), console \subseteq console',
         \/ call' = call
         \/ \E c \in Calls : \E r : call' = [call EXCEPT ![c] = r] /\ CallFits(r, history', now'),
         \/ check' = check
         \/ \E c \in Checks : \E r : check' = [check EXCEPT ![c] = r] /\ CheckFits(r),
         \/ script' = script
         \/ \E s \in Scripts : \E r : script' = [script EXCEPT ![s] = r] /\ ScriptFits(r, console'),
         \/ backfill' = backfill
         \/ \E b \in Backfills : \E r : backfill' = [backfill EXCEPT ![b] = r] /\ BackfillFits(r, history'),
         \A o \in console' \ console : Kept(o, history'),
         \A row \in logs' \ logs : RowFits(row, console'),
         \A x \in claims' \ claims : ClaimFits(x, console', history')
  PROVE  Inv'
<1>0. now \in Times
  BY DEF Inv
<1>1. call' = [c \in Calls |-> call'[c]] /\ \A c \in Calls : CallFits(call'[c], history', now')
  <2>1. \A c \in Calls : CallFits(call[c], history', now')
    BY <1>0, FitsOn DEF Inv
  <2>2. CASE call' = call
    BY <2>1, <2>2 DEF Inv
  <2>3. CASE \E c \in Calls : \E r : call' = [call EXCEPT ![c] = r] /\ CallFits(r, history', now')
    <3>0. PICK c \in Calls : \E r : call' = [call EXCEPT ![c] = r] /\ CallFits(r, history', now')
      BY <2>3
    <3>1. PICK r : call' = [call EXCEPT ![c] = r] /\ CallFits(r, history', now')
      BY <3>0
    <3>2. \A d \in Calls : call'[d] = IF d = c THEN r ELSE call[d]
      BY <3>1 DEF Inv
    <3> QED BY <2>1, <3>1, <3>2 DEF Inv
  <2> QED BY <2>2, <2>3
<1>2. check' = [c \in Checks |-> check'[c]] /\ \A c \in Checks : CheckFits(check'[c])
  <2>2. CASE check' = check
    BY <2>2 DEF Inv
  <2>3. CASE \E c \in Checks : \E r : check' = [check EXCEPT ![c] = r] /\ CheckFits(r)
    <3>0. PICK c \in Checks : \E r : check' = [check EXCEPT ![c] = r] /\ CheckFits(r)
      BY <2>3
    <3>1. PICK r : check' = [check EXCEPT ![c] = r] /\ CheckFits(r)
      BY <3>0
    <3>2. \A d \in Checks : check'[d] = IF d = c THEN r ELSE check[d]
      BY <3>1 DEF Inv
    <3> QED BY <3>1, <3>2 DEF Inv
  <2> QED BY <2>2, <2>3
<1>3. script' = [s \in Scripts |-> script'[s]] /\ \A s \in Scripts : ScriptFits(script'[s], console')
  <2>1. \A s \in Scripts : ScriptFits(script[s], console')
    BY <1>0, FitsOn DEF Inv
  <2>2. CASE script' = script
    BY <2>1, <2>2 DEF Inv
  <2>3. CASE \E s \in Scripts : \E r : script' = [script EXCEPT ![s] = r] /\ ScriptFits(r, console')
    <3>0. PICK s \in Scripts : \E r : script' = [script EXCEPT ![s] = r] /\ ScriptFits(r, console')
      BY <2>3
    <3>1. PICK r : script' = [script EXCEPT ![s] = r] /\ ScriptFits(r, console')
      BY <3>0
    <3>2. \A d \in Scripts : script'[d] = IF d = s THEN r ELSE script[d]
      BY <3>1 DEF Inv
    <3> QED BY <2>1, <3>1, <3>2 DEF Inv
  <2> QED BY <2>2, <2>3
<1>4. /\ backfill' = [b \in Backfills |-> backfill'[b]]
      /\ \A b \in Backfills : BackfillFits(backfill'[b], history')
  <2>1. \A b \in Backfills : BackfillFits(backfill[b], history')
    BY <1>0, FitsOn DEF Inv
  <2>2. CASE backfill' = backfill
    BY <2>1, <2>2 DEF Inv
  <2>3. CASE \E b \in Backfills : \E r : backfill' = [backfill EXCEPT ![b] = r] /\ BackfillFits(r, history')
    <3>0. PICK b \in Backfills : \E r : backfill' = [backfill EXCEPT ![b] = r] /\ BackfillFits(r, history')
      BY <2>3
    <3>1. PICK r : backfill' = [backfill EXCEPT ![b] = r] /\ BackfillFits(r, history')
      BY <3>0
    <3>2. \A d \in Backfills : backfill'[d] = IF d = b THEN r ELSE backfill[d]
      BY <3>1 DEF Inv
    <3> QED BY <2>1, <3>1, <3>2 DEF Inv
  <2> QED BY <2>2, <2>3
<1>5. \A o \in console' : Kept(o, history')
  BY <1>0, FitsOn DEF Inv
<1>6. \A row \in logs' : RowFits(row, console')
  BY <1>0, FitsOn DEF Inv
<1>7. \A x \in claims' : ClaimFits(x, console', history')
  BY <1>0, FitsOn DEF Inv
<1> QED BY <1>1, <1>2, <1>3, <1>4, <1>5, <1>6, <1>7 DEF Inv

-----------------------------------------------------------------------------
(* Records and the archive                                                 *)

LEMMA CallField ==
  ASSUME NEW r \in CallRecords
  PROVE  /\ \A v \in CallSteps : LET q == [r EXCEPT !.step = v] IN
              /\ q \in CallRecords /\ q.step = v /\ q.scheduled = r.scheduled /\ q.ok = r.ok
              /\ q.received = r.received /\ q.started = r.started /\ q.account = r.account
         /\ \A v \in BOOLEAN : LET q == [r EXCEPT !.scheduled = v] IN
              /\ q \in CallRecords /\ q.step = r.step /\ q.scheduled = v /\ q.ok = r.ok
              /\ q.received = r.received /\ q.started = r.started /\ q.account = r.account
         /\ \A v \in BOOLEAN : LET q == [r EXCEPT !.ok = v] IN
              /\ q \in CallRecords /\ q.step = r.step /\ q.scheduled = r.scheduled /\ q.ok = v
              /\ q.received = r.received /\ q.started = r.started /\ q.account = r.account
         /\ \A v \in Times : LET q == [r EXCEPT !.received = v] IN
              /\ q \in CallRecords /\ q.step = r.step /\ q.scheduled = r.scheduled /\ q.ok = r.ok
              /\ q.received = v /\ q.started = r.started /\ q.account = r.account
         /\ \A v \in Times : LET q == [r EXCEPT !.started = v] IN
              /\ q \in CallRecords /\ q.step = r.step /\ q.scheduled = r.scheduled /\ q.ok = r.ok
              /\ q.received = r.received /\ q.started = v /\ q.account = r.account
         /\ \A v \in Accounts \cup {None} : LET q == [r EXCEPT !.account = v] IN
              /\ q \in CallRecords /\ q.step = r.step /\ q.scheduled = r.scheduled /\ q.ok = r.ok
              /\ q.received = r.received /\ q.started = r.started /\ q.account = v
<1>1. \A v \in CallSteps : LET q == [r EXCEPT !.step = v] IN
        /\ q \in CallRecords /\ q.step = v /\ q.scheduled = r.scheduled /\ q.ok = r.ok
        /\ q.received = r.received /\ q.started = r.started /\ q.account = r.account
  BY DEF CallRecords
<1>2. \A v \in BOOLEAN : LET q == [r EXCEPT !.scheduled = v] IN
        /\ q \in CallRecords /\ q.step = r.step /\ q.scheduled = v /\ q.ok = r.ok
        /\ q.received = r.received /\ q.started = r.started /\ q.account = r.account
  BY DEF CallRecords
<1>3. \A v \in BOOLEAN : LET q == [r EXCEPT !.ok = v] IN
        /\ q \in CallRecords /\ q.step = r.step /\ q.scheduled = r.scheduled /\ q.ok = v
        /\ q.received = r.received /\ q.started = r.started /\ q.account = r.account
  BY DEF CallRecords
<1>4. \A v \in Times : LET q == [r EXCEPT !.received = v] IN
        /\ q \in CallRecords /\ q.step = r.step /\ q.scheduled = r.scheduled /\ q.ok = r.ok
        /\ q.received = v /\ q.started = r.started /\ q.account = r.account
  BY DEF CallRecords
<1>5. \A v \in Times : LET q == [r EXCEPT !.started = v] IN
        /\ q \in CallRecords /\ q.step = r.step /\ q.scheduled = r.scheduled /\ q.ok = r.ok
        /\ q.received = r.received /\ q.started = v /\ q.account = r.account
  BY DEF CallRecords
<1>6. \A v \in Accounts \cup {None} : LET q == [r EXCEPT !.account = v] IN
        /\ q \in CallRecords /\ q.step = r.step /\ q.scheduled = r.scheduled /\ q.ok = r.ok
        /\ q.received = r.received /\ q.started = r.started /\ q.account = v
  BY DEF CallRecords
<1> QED BY <1>1, <1>2, <1>3, <1>4, <1>5, <1>6

LEMMA IdleCallFits == IdleCall \in CallRecords /\ IdleCall.received = 0
BY DEF IdleCall, CallRecords, CallSteps, Times

(* What leaves the archive and the console as they are.                    *)
LEMMA ArchiveStands ==
  ASSUME Inv, UNCHANGED history
  PROVE  HistoryFits(history') /\ Keeps(history, history')
BY DEF Inv, Keeps

LEMMA WriteHistoryFits ==
  ASSUME Inv, NEW o \in Observations, PutHistory(o)
  PROVE  /\ HistoryFits(history') /\ Keeps(history, history')
         /\ Holds(history', o.account, o.at)
<1>1. o.account \in Accounts /\ o.at \in Times
  BY DEF Observations
<1>2. /\ history \in [Accounts -> [Times -> Stored]]
      /\ history[o.account] \in [Times -> Stored]
      /\ history[o.account][o.at] \in Stored
  BY <1>1 DEF Inv, HistoryFits
<1> DEFINE n == [generation |-> history[o.account][o.at].generation + 1, value |-> o]
           line == [history[o.account] EXCEPT ![o.at] = n]
<1>3. n \in Stored /\ n.value = o
  BY <1>2 DEF Stored
<1>4. history' = [history EXCEPT ![o.account] = line]
  BY DEF PutHistory
<1> HIDE DEF n
<1>5. /\ line \in [Times -> Stored]
      /\ \A t \in Times : line[t] = IF t = o.at THEN n ELSE history[o.account][t]
  BY <1>1, <1>2, <1>3
<1> HIDE DEF line
<1>6. /\ history' \in [Accounts -> [Times -> Stored]]
      /\ \A a \in Accounts : history'[a] = IF a = o.account THEN line ELSE history[a]
  BY <1>1, <1>2, <1>4, <1>5
<1>7. \A a \in Accounts, t \in Times :
        history'[a][t] = IF a = o.account /\ t = o.at THEN n ELSE history[a][t]
  BY <1>5, <1>6
<1>8. o # None
  BY DEF FactsAssumption, Observations, Times
<1> HIDE DEF line
<1>9. Holds(history', o.account, o.at)
  BY <1>1, <1>3, <1>7, <1>8 DEF Holds
<1>10. Keeps(history, history')
  BY <1>3, <1>7, <1>8 DEF Keeps, Holds
<1>11. \A a \in Accounts, t \in Times : Holds(history', a, t) =>
         /\ history'[a][t].value \in Observations
         /\ history'[a][t].value.account = a /\ history'[a][t].value.at = t
  <2> SUFFICES ASSUME NEW a \in Accounts, NEW t \in Times, Holds(history', a, t)
               PROVE  /\ history'[a][t].value \in Observations
                      /\ history'[a][t].value.account = a /\ history'[a][t].value.at = t
    OBVIOUS
  <2>1. CASE a = o.account /\ t = o.at
    BY <1>3, <1>7, <2>1
  <2>2. CASE ~(a = o.account /\ t = o.at)
    BY <1>7, <2>2 DEF Inv, HistoryFits, Holds
  <2> QED BY <2>1, <2>2
<1> QED BY <1>6, <1>9, <1>10, <1>11 DEF HistoryFits

LEMMA WriteLatestFits ==
  ASSUME Inv, NEW o \in Observations, PutLatest(o)
  PROVE  latest' \in [Accounts -> Observations \cup {None}]
BY DEF Inv, PutLatest, Observations

LEMMA ObservedIsOne ==
  ASSUME Inv, NEW c \in Calls, call[c].step \in {"reading", "latest", "history", "publish"}
  PROVE  /\ Observed(c) \in Observations /\ Observed(c).by \in Calls
         /\ Observed(c).account = call[c].account /\ Observed(c).at = call[c].started
         /\ call[c].received <= Observed(c).at
<1>1. call[c].account \in Accounts /\ call[c].started \in Times /\ call[c].received <= call[c].started
  BY DEF Inv, CallFits, CallRecords
<1> QED BY <1>1 DEF Observed, Observations

LEMMA CheckedIsOne ==
  ASSUME Inv, NEW k \in Checks, check[k].step \in {"reading", "latest", "history"}
  PROVE  /\ Checked(k) \in Observations
         /\ Checked(k).account = check[k].account /\ Checked(k).at = check[k].at
<1>1. check[k].account \in Accounts /\ check[k].at \in Times
  BY DEF Inv, CheckFits, CheckRecords
<1> QED BY <1>1 DEF Checked, Observations

LEMMA AnswerFits ==
  ASSUME Inv, NEW c \in Calls, NEW status \in Statuses, Answer(c, status)
  PROVE  /\ \A h : \A t \in Times : now <= t =>
              \E r : call' = [call EXCEPT ![c] = r] /\ CallFits(r, h, t)
         /\ logs' = logs \cup {Row("app", call[c].received, status)}
         /\ Row("app", call[c].received, status) \in Rows
<1>1. call[c] \in CallRecords /\ call[c].scheduled \in BOOLEAN /\ call[c].received \in Times /\ now \in Times
  BY DEF Inv, CallFits, CallRecords
<1> DEFINE r1 == [IdleCall EXCEPT !.step = "answered"]
           r2 == [r1 EXCEPT !.scheduled = call[c].scheduled]
           r3 == [r2 EXCEPT !.ok = (status = "ok")]
<1>2. call' = [call EXCEPT ![c] = r3]
  BY DEF Answer
<1>3. "answered" \in CallSteps
  BY DEF CallSteps
<1>4. r1 \in CallRecords /\ r1.received = 0 /\ r1.step = "answered"
  BY <1>3, IdleCallFits, CallField
<1> HIDE DEF r1
<1>5. r2 \in CallRecords /\ r2.received = 0 /\ r2.step = "answered"
  BY <1>1, <1>4, CallField
<1> HIDE DEF r2
<1>6. r3 \in CallRecords /\ r3.received = 0 /\ r3.step = "answered"
  BY <1>5 DEF CallRecords
<1> HIDE DEF r3
<1>7. \A h : \A t \in Times : now <= t => CallFits(r3, h, t)
  BY <1>6 DEF CallFits, Times
<1>8. Row("app", call[c].received, status) \in Rows
  BY <1>1 DEF Row, Rows
<1> QED BY <1>2, <1>7, <1>8 DEF Answer

-----------------------------------------------------------------------------
(* Steps of the endpoint                                                   *)

LEMMA CallOnly ==
  ASSUME Inv, UNCHANGED <<now, broker, latest, history, console, logs, check, script, backfill, claims>>,
         NEW c \in Calls, NEW r, call' = [call EXCEPT ![c] = r], CallFits(r, history, now)
  PROVE  Inv'
<1>1. HistoryFits(history') /\ Keeps(history, history')
  BY ArchiveStands
<1>2. now \in Times /\ now <= now
  BY DEF Inv, Times
<1>3. broker' \subseteq Accounts /\ latest' \in [Accounts -> Observations \cup {None}]
  BY DEF Inv
<1>4. \E d \in Calls : \E q : call' = [call EXCEPT ![d] = q] /\ CallFits(q, history', now')
  OBVIOUS
<1> QED BY <1>1, <1>2, <1>3, <1>4, Gains

(* A request that is answered, after it wrote or published or not.         *)
LEMMA AnswerStep ==
  ASSUME Inv, UNCHANGED <<now, broker, check, script, backfill>>,
         latest' \in [Accounts -> Observations \cup {None}],
         HistoryFits(history'), Keeps(history, history'), console \subseteq console',
         \A o \in console' \ console : Kept(o, history'),
         \A x \in claims' \ claims : ClaimFits(x, console', history'),
         NEW c \in Calls, NEW status \in Statuses, Answer(c, status),
         status = "ok" => Fresh(console', call[c].received)
  PROVE  Inv'
<1>1. now \in Times /\ now <= now /\ broker' \subseteq Accounts
  BY DEF Inv, Times
<1>2. \E d \in Calls : \E q : call' = [call EXCEPT ![d] = q] /\ CallFits(q, history', now')
  BY <1>1, AnswerFits
<1>3. \A row \in logs' \ logs : RowFits(row, console')
  <2> DEFINE row == Row("app", call[c].received, status)
  <2>1. logs' = logs \cup {row} /\ row \in Rows
    BY AnswerFits
  <2>2. row.at = call[c].received /\ row.status = status
    BY DEF Row
  <2> HIDE DEF row
  <2>3. RowFits(row, console')
    BY <2>1, <2>2 DEF RowFits
  <2> QED BY <2>1, <2>3
<1> QED BY <1>1, <1>2, <1>3, Gains

LEMMA RequestHolds ==
  ASSUME Inv, NEW c \in Calls, Request(c)
  PROVE  Inv'
<1>1. UNCHANGED <<now, broker, latest, history, console, logs, check, script, backfill, claims>>
  BY DEF Request
<1>2. PICK s \in BOOLEAN : call' = [call EXCEPT ![c].step = "sent", ![c].scheduled = s]
  BY DEF Request
<1> DEFINE r1 == [call[c] EXCEPT !.step = "sent"]
           r2 == [r1 EXCEPT !.scheduled = s]
<1>3. call' = [call EXCEPT ![c] = r2]
  BY <1>2 DEF Inv
<1>4. call[c] \in CallRecords /\ call[c].received <= now /\ "sent" \in CallSteps
  BY DEF Inv, CallFits, CallSteps
<1>5. r1 \in CallRecords /\ r1.received = call[c].received /\ r1.step = "sent"
  BY <1>4, CallField
<1> HIDE DEF r1
<1>6. r2 \in CallRecords /\ r2.received = call[c].received /\ r2.step = "sent"
  BY <1>5, CallField
<1> HIDE DEF r2
<1>7. CallFits(r2, history, now)
  BY <1>4, <1>6 DEF CallFits
<1> QED BY <1>1, <1>3, <1>7, CallOnly

LEMMA ReceiveHolds ==
  ASSUME Inv, NEW c \in Calls, Receive(c)
  PROVE  Inv'
<1>1. UNCHANGED <<now, broker, latest, history, console, logs, check, script, backfill, claims>>
  BY DEF Receive
<1>2. call' = [call EXCEPT ![c].step = "collect", ![c].received = now]
  BY DEF Receive
<1> DEFINE r1 == [call[c] EXCEPT !.step = "collect"]
           r2 == [r1 EXCEPT !.received = now]
<1>3. call' = [call EXCEPT ![c] = r2]
  BY <1>2 DEF Inv
<1>4. call[c] \in CallRecords /\ now \in Times /\ "collect" \in CallSteps
  BY DEF Inv, CallFits, CallSteps
<1>5. r1 \in CallRecords /\ r1.step = "collect"
  BY <1>4, CallField
<1> HIDE DEF r1
<1>6. r2 \in CallRecords /\ r2.received = now /\ r2.step = "collect"
  BY <1>4, <1>5, CallField
<1> HIDE DEF r2
<1>7. CallFits(r2, history, now)
  BY <1>4, <1>6 DEF CallFits, Times
<1> QED BY <1>1, <1>3, <1>7, CallOnly

LEMMA RefuseHolds ==
  ASSUME Inv, NEW c \in Calls, Refuse(c)
  PROVE  Inv'
<1>1. UNCHANGED <<now, broker, latest, history, console, check, script, backfill, claims>>
  BY DEF Refuse
<1>2. PICK status \in {"failure", "other"} : Answer(c, status)
  BY DEF Refuse
<1>3. status \in Statuses /\ status # "ok"
  BY DEF Statuses
<1>4. HistoryFits(history') /\ Keeps(history, history')
  BY <1>1, ArchiveStands
<1>5. latest' \in [Accounts -> Observations \cup {None}]
  BY <1>1 DEF Inv
<1> QED BY <1>1, <1>2, <1>3, <1>4, <1>5, AnswerStep

LEMMA StartReadingHolds ==
  ASSUME Inv, NEW c \in Calls, StartReading(c)
  PROVE  Inv'
<1>1. UNCHANGED <<now, broker, latest, history, console, logs, check, script, backfill, claims>>
  BY DEF StartReading
<1>2. PICK a \in BoundAccount :
        call' = [call EXCEPT ![c].step = "reading", ![c].started = now, ![c].account = a]
  BY DEF StartReading
<1>a. a \in Accounts
  BY DEF BoundAccount, Inv
<1> DEFINE r1 == [call[c] EXCEPT !.step = "reading"]
           r2 == [r1 EXCEPT !.started = now]
           r3 == [r2 EXCEPT !.account = a]
<1>3. call' = [call EXCEPT ![c] = r3]
  BY <1>2 DEF Inv
<1>4. call[c] \in CallRecords /\ call[c].received <= now /\ now \in Times /\ "reading" \in CallSteps
  BY DEF Inv, CallFits, CallSteps
<1>5. r1 \in CallRecords /\ r1.step = "reading" /\ r1.received = call[c].received
  BY <1>4, CallField
<1> HIDE DEF r1
<1>6. r2 \in CallRecords /\ r2.started = now /\ r2.step = "reading" /\ r2.received = call[c].received
  BY <1>4, <1>5, CallField
<1> HIDE DEF r2
<1>7. /\ r3 \in CallRecords /\ r3.started = now /\ r3.step = "reading"
      /\ r3.received = call[c].received /\ r3.account = a
  BY <1>a, <1>6, CallField
<1> HIDE DEF r3
<1>8. CallFits(r3, history, now)
  BY <1>a, <1>4, <1>7 DEF CallFits
<1> QED BY <1>1, <1>3, <1>8, CallOnly

(* The next step of a request: what it has read stays with it.             *)
LEMMA GoFits ==
  ASSUME Inv, NEW c \in Calls, NEW step \in {"latest", "history", "publish"}, Go(c, step),
         call[c].step \in {"reading", "latest", "history"}, NEW h,
         step = "publish" /\ Archiving => Holds(h, call[c].account, call[c].started)
  PROVE  \E r : call' = [call EXCEPT ![c] = r] /\ CallFits(r, h, now)
<1> DEFINE r == [call[c] EXCEPT !.step = step]
<1>1. call' = [call EXCEPT ![c] = r]
  BY DEF Go
<1>2. /\ call[c] \in CallRecords /\ call[c].received <= now /\ step \in CallSteps
      /\ call[c].account \in Accounts /\ call[c].received <= call[c].started
  BY DEF Inv, CallFits, CallSteps
<1>3. /\ r \in CallRecords /\ r.step = step /\ r.received = call[c].received
      /\ r.started = call[c].started /\ r.account = call[c].account
  BY <1>2, CallField
<1> HIDE DEF r
<1>4. CallFits(r, h, now)
  BY <1>2, <1>3 DEF CallFits
<1> QED BY <1>1, <1>4

LEMMA FinishReadingHolds ==
  ASSUME Inv, NEW c \in Calls, FinishReading(c)
  PROVE  Inv'
<1>1. /\ UNCHANGED <<now, broker, latest, history, console, check, script, backfill, claims>>
      /\ call[c].step = "reading"
  BY DEF FinishReading, CallAt
<1>2. CASE Go(c, IF Archiving THEN "latest" ELSE "publish") /\ UNCHANGED logs
  <2>1. PICK step \in {"latest", "publish"} : Go(c, step) /\ (step = "publish" => ~Archiving)
    BY <1>2
  <2>2. \E r : call' = [call EXCEPT ![c] = r] /\ CallFits(r, history, now)
    BY <1>1, <2>1, GoFits
  <2> QED BY <1>1, <1>2, <2>2, CallOnly
<1>3. CASE Answer(c, "failure")
  <2>1. "failure" \in Statuses
    BY DEF Statuses
  <2>2. HistoryFits(history') /\ Keeps(history, history')
    BY <1>1, ArchiveStands
  <2>3. latest' \in [Accounts -> Observations \cup {None}]
    BY <1>1 DEF Inv
  <2> QED BY <1>1, <1>3, <2>1, <2>2, <2>3, AnswerStep
<1> QED BY <1>2, <1>3 DEF FinishReading

LEMMA ArchiveHolds ==
  ASSUME Inv, NEW c \in Calls, Archive(c)
  PROVE  Inv'
<1>1. UNCHANGED <<now, broker, console, check, script, backfill, claims>>
  BY DEF Archive
<1>2. call[c].step \in {"latest", "history"}
  BY DEF Archive, CallAt
<1>3. /\ Observed(c) \in Observations /\ Observed(c).account = call[c].account
      /\ Observed(c).at = call[c].started
  BY <1>2, ObservedIsOne
<1>4. now \in Times /\ now <= now /\ broker' \subseteq Accounts
  BY <1>1 DEF Inv, Times
<1>5. CASE CallAt(c, "latest") /\ PutLatest(Observed(c)) /\ Go(c, "history") /\ UNCHANGED <<history, logs>>
  <2>1. latest' \in [Accounts -> Observations \cup {None}]
    BY <1>3, <1>5, WriteLatestFits
  <2>2. HistoryFits(history') /\ Keeps(history, history')
    BY <1>5, ArchiveStands
  <2>3. \E r : call' = [call EXCEPT ![c] = r] /\ CallFits(r, history', now)
    BY <1>2, <1>5, GoFits
  <2> QED BY <1>1, <1>4, <1>5, <2>1, <2>2, <2>3, Gains
<1>6. CASE CallAt(c, "history") /\ PutHistory(Observed(c)) /\ Go(c, "publish") /\ UNCHANGED <<latest, logs>>
  <2>1. latest' \in [Accounts -> Observations \cup {None}]
    BY <1>6 DEF Inv
  <2>2. /\ HistoryFits(history') /\ Keeps(history, history')
        /\ Holds(history', call[c].account, call[c].started)
    BY <1>3, <1>6, WriteHistoryFits
  <2>3. \E r : call' = [call EXCEPT ![c] = r] /\ CallFits(r, history', now)
    BY <1>2, <1>6, <2>2, GoFits
  <2> QED BY <1>1, <1>4, <1>6, <2>1, <2>2, <2>3, Gains
<1>7. CASE /\ \/ UNCHANGED <<latest, history>>
              \/ CallAt(c, "latest") /\ PutLatest(Observed(c)) /\ UNCHANGED history
              \/ CallAt(c, "history") /\ PutHistory(Observed(c)) /\ UNCHANGED latest
           /\ Answer(c, "failure")
  <2>1. latest' \in [Accounts -> Observations \cup {None}]
    BY <1>3, <1>7, WriteLatestFits DEF Inv
  <2>2. HistoryFits(history') /\ Keeps(history, history')
    BY <1>3, <1>7, WriteHistoryFits, ArchiveStands
  <2>3. "failure" \in Statuses
    BY DEF Statuses
  <2> QED BY <1>1, <1>7, <2>1, <2>2, <2>3, AnswerStep
<1> QED BY <1>5, <1>6, <1>7 DEF Archive

LEMMA PublishHolds ==
  ASSUME Inv, NEW c \in Calls, Publish(c)
  PROVE  Inv'
<1>1. /\ UNCHANGED <<now, broker, latest, history, check, script, backfill>>
      /\ call[c].step = "publish" /\ console' \in {console, console \cup {Observed(c)}}
  BY DEF Publish, CallAt
<1>2. /\ Observed(c) \in Observations /\ Observed(c).by \in Calls
      /\ Observed(c).account = call[c].account /\ Observed(c).at = call[c].started
      /\ call[c].received <= Observed(c).at /\ Observed(c).at \in Times
      /\ call[c].received \in Times
  BY <1>1, ObservedIsOne DEF Inv, CallFits, CallRecords, Observations
<1>3. HistoryFits(history') /\ Keeps(history, history')
  BY <1>1, ArchiveStands
<1>4. latest' \in [Accounts -> Observations \cup {None}] /\ console \subseteq console'
  BY <1>1 DEF Inv
<1>5. \A o \in console' \ console : Kept(o, history')
  BY <1>1, <1>2 DEF Inv, CallFits, Kept
<1>6. "ok" \in Statuses /\ "failure" \in Statuses
  BY DEF Statuses
<1>7. CASE /\ \E ack \in console' : AckMatches(ack, Observed(c))
           /\ Answer(c, "ok") /\ Claim("stored", Observed(c))
  <2>1. Observed(c) \in console'
    BY <1>7 DEF AckMatches
  <2>2. Fresh(console', call[c].received)
    BY <1>2, <2>1 DEF Fresh, Times
  <2>3. \A x \in claims' \ claims : ClaimFits(x, console', history')
    BY <1>2, <1>7, <2>1 DEF Claim, ClaimFits, Claims
  <2> QED BY <1>1, <1>3, <1>4, <1>5, <1>6, <1>7, <2>2, <2>3, AnswerStep
<1>8. CASE Answer(c, "failure") /\ UNCHANGED claims
  BY <1>1, <1>3, <1>4, <1>5, <1>6, <1>8, AnswerStep
<1> QED BY <1>7, <1>8 DEF Publish

LEMMA KilledHolds ==
  ASSUME Inv, NEW c \in Calls, Killed(c)
  PROVE  Inv'
<1>1. /\ UNCHANGED <<now, broker, latest, history, check, script, backfill, claims>>
      /\ Answer(c, "failure")
      /\ \/ console' = console
         \/ call[c].step = "publish" /\ console' = console \cup {Observed(c)}
  BY DEF Killed, CallAt
<1>2. call[c].step = "publish" =>
        /\ Observed(c) \in Observations
        /\ Observed(c).account = call[c].account /\ Observed(c).at = call[c].started
  BY ObservedIsOne
<1>3. HistoryFits(history') /\ Keeps(history, history')
  BY <1>1, ArchiveStands
<1>4. latest' \in [Accounts -> Observations \cup {None}] /\ console \subseteq console'
  BY <1>1 DEF Inv
<1>5. \A o \in console' \ console : Kept(o, history')
  BY <1>1, <1>2 DEF Inv, CallFits, Kept
<1>6. "failure" \in Statuses
  BY DEF Statuses
<1> QED BY <1>1, <1>3, <1>4, <1>5, <1>6, AnswerStep

LEMMA EndAttemptHolds ==
  ASSUME Inv, NEW c \in Calls, EndAttempt(c)
  PROVE  Inv'
<1>1. /\ UNCHANGED <<now, broker, latest, history, console, check, script, backfill, claims>>
      /\ call' = [call EXCEPT ![c].scheduled = FALSE]
      /\ logs' = logs \cup {Row("attempt", now, IF call[c].ok THEN "ok" ELSE "failure")}
  BY DEF EndAttempt
<1> DEFINE r == [call[c] EXCEPT !.scheduled = FALSE]
<1>2. call' = [call EXCEPT ![c] = r]
  BY <1>1
<1>3. CallFits(call[c], history, now) /\ call[c] \in CallRecords /\ now \in Times /\ now <= now
  BY DEF Inv, CallFits, Times
<1>4. /\ r \in CallRecords /\ r.step = call[c].step /\ r.received = call[c].received
      /\ r.started = call[c].started /\ r.account = call[c].account
  BY <1>3, CallField
<1> HIDE DEF r
<1>5. CallFits(r, history, now)
  BY <1>3, <1>4 DEF CallFits
<1>6. HistoryFits(history') /\ Keeps(history, history')
  BY <1>1, ArchiveStands
<1>7. \A row \in logs' \ logs : RowFits(row, console')
  BY <1>1, <1>3 DEF Row, Rows, Statuses, RowFits
<1>8. latest' \in [Accounts -> Observations \cup {None}] /\ broker' \subseteq Accounts
  BY <1>1 DEF Inv
<1>9. \E d \in Calls : \E q : call' = [call EXCEPT ![d] = q] /\ CallFits(q, history', now')
  BY <1>1, <1>2, <1>5
<1> QED BY <1>1, <1>3, <1>6, <1>7, <1>8, <1>9, Gains

-----------------------------------------------------------------------------
(* Steps of the session check                                              *)

LEMMA CheckField ==
  ASSUME NEW r \in CheckRecords, NEW v \in {"idle", "reading", "latest", "history", "done"}
  PROVE  LET q == [r EXCEPT !.step = v] IN
         q \in CheckRecords /\ q.step = v /\ q.at = r.at /\ q.account = r.account
BY DEF CheckRecords

(* A step of a check that answers for itself only.                         *)
LEMMA CheckStep ==
  ASSUME Inv, UNCHANGED <<now, broker, console, logs, call, script, backfill>>,
         latest' \in [Accounts -> Observations \cup {None}],
         HistoryFits(history'), Keeps(history, history'),
         NEW k \in Checks, NEW r, check' = [check EXCEPT ![k] = r], CheckFits(r),
         \A x \in claims' \ claims : ClaimFits(x, console', history')
  PROVE  Inv'
<1>1. now \in Times /\ now <= now /\ broker' \subseteq Accounts
  BY DEF Inv, Times
<1>2. \E d \in Checks : \E q : check' = [check EXCEPT ![d] = q] /\ CheckFits(q)
  OBVIOUS
<1> QED BY <1>1, <1>2, Gains

LEMMA EndCheckFits ==
  ASSUME NEW k \in Checks, EndCheck(k)
  PROVE  \E r : check' = [check EXCEPT ![k] = r] /\ CheckFits(r)
<1> DEFINE r == [IdleCheck EXCEPT !.step = "done"]
<1>1. IdleCheck \in CheckRecords
  BY DEF IdleCheck, CheckRecords, Times
<1>2. r \in CheckRecords /\ r.step = "done"
  BY <1>1, CheckField
<1>3. check' = [check EXCEPT ![k] = r]
  BY DEF EndCheck
<1> HIDE DEF r
<1>4. CheckFits(r)
  BY <1>2 DEF CheckFits
<1> QED BY <1>3, <1>4

LEMMA GoCheckFits ==
  ASSUME Inv, NEW k \in Checks, NEW step \in {"latest", "history", "done"},
         check' = [check EXCEPT ![k].step = step],
         check[k].step \in {"reading", "latest"} \/ step = "done"
  PROVE  \E r : check' = [check EXCEPT ![k] = r] /\ CheckFits(r)
<1> DEFINE r == [check[k] EXCEPT !.step = step]
<1>1. CheckFits(check[k]) /\ check[k] \in CheckRecords
  BY DEF Inv, CheckFits
<1>2. r \in CheckRecords /\ r.step = step /\ r.account = check[k].account
  BY <1>1 DEF CheckRecords
<1>3. check' = [check EXCEPT ![k] = r]
  OBVIOUS
<1> HIDE DEF r
<1>4. CheckFits(r)
  BY <1>1, <1>2 DEF CheckFits
<1> QED BY <1>3, <1>4

LEMMA CheckHolds ==
  ASSUME Inv, NEW k \in Checks, Check(k)
  PROVE  Inv'
<1>0. /\ UNCHANGED <<now, broker, console, logs, call, script, backfill>>
      /\ now \in Times /\ latest \in [Accounts -> Observations \cup {None}]
  BY DEF Inv, Check, StartCheck, ReadFunds, WriteLatest, WriteHistory, WriteRaises
<1>1. CASE StartCheck(k)
  <2>1. UNCHANGED <<latest, history, claims>> /\ HistoryFits(history') /\ Keeps(history, history')
    BY <1>1, ArchiveStands DEF StartCheck
  <2>2. \E r : check' = [check EXCEPT ![k] = r] /\ CheckFits(r)
    <3>1. CASE check' = [check EXCEPT ![k].step = "done"]
      BY <3>1, GoCheckFits
    <3>2. CASE \E a \in broker \cap {Selected} :
                 check' = [check EXCEPT ![k] = [step |-> "reading", at |-> now, account |-> a]]
      <4>1. PICK a \in broker :
              check' = [check EXCEPT ![k] = [step |-> "reading", at |-> now, account |-> a]]
        BY <3>2
      <4> DEFINE r == [step |-> "reading", at |-> now, account |-> a]
      <4>2. a \in Accounts
        BY DEF Inv
      <4>3. CheckFits(r)
        BY <1>0, <4>2 DEF CheckFits, CheckRecords
      <4> QED BY <4>1, <4>3
    <3> QED BY <1>1, <3>1, <3>2 DEF StartCheck
  <2> QED BY <1>0, <2>1, <2>2, CheckStep
<1>2. CASE ReadFunds(k)
  <2>1. UNCHANGED <<latest, history, claims>> /\ HistoryFits(history') /\ Keeps(history, history')
    BY <1>2, ArchiveStands DEF ReadFunds
  <2>2. \E r : check' = [check EXCEPT ![k] = r] /\ CheckFits(r)
    BY <1>2, GoCheckFits, EndCheckFits DEF ReadFunds, CheckAt
  <2> QED BY <1>0, <2>1, <2>2, CheckStep
<1>3. CASE WriteLatest(k)
  <2>1. /\ UNCHANGED <<history, claims>> /\ HistoryFits(history') /\ Keeps(history, history')
        /\ check[k].step = "latest"
    BY <1>3, ArchiveStands DEF WriteLatest, CheckAt
  <2>2. latest' \in [Accounts -> Observations \cup {None}]
    BY <1>3, <2>1, CheckedIsOne, WriteLatestFits DEF WriteLatest
  <2>3. \E r : check' = [check EXCEPT ![k] = r] /\ CheckFits(r)
    BY <1>3, <2>1, GoCheckFits DEF WriteLatest
  <2> QED BY <1>0, <2>1, <2>2, <2>3, CheckStep
<1>4. CASE WriteHistory(k)
  <2>1. /\ UNCHANGED latest /\ check[k].step = "history" /\ PutHistory(Checked(k))
        /\ EndCheck(k) /\ Claim("archived", Checked(k))
    BY <1>4 DEF WriteHistory, CheckAt
  <2>2. Checked(k) \in Observations
    BY <2>1, CheckedIsOne
  <2>3. /\ HistoryFits(history') /\ Keeps(history, history')
        /\ Holds(history', Checked(k).account, Checked(k).at)
    BY <2>1, <2>2, WriteHistoryFits
  <2>4. \E r : check' = [check EXCEPT ![k] = r] /\ CheckFits(r)
    BY <2>1, EndCheckFits
  <2>5. \A x \in claims' \ claims : ClaimFits(x, console', history')
    BY <2>1, <2>2, <2>3 DEF Claim, ClaimFits, Claims
  <2> QED BY <1>0, <2>1, <2>3, <2>4, <2>5, CheckStep
<1>5. CASE WriteRaises(k)
  <2>1. /\ UNCHANGED claims /\ check[k].step \in {"latest", "history"} /\ EndCheck(k)
        /\ \/ UNCHANGED <<latest, history>>
           \/ PutLatest(Checked(k)) /\ UNCHANGED history
           \/ PutHistory(Checked(k)) /\ UNCHANGED latest
    BY <1>5 DEF WriteRaises
  <2>2. Checked(k) \in Observations
    BY <2>1, CheckedIsOne
  <2>3. HistoryFits(history') /\ Keeps(history, history')
    BY <2>1, <2>2, WriteHistoryFits, ArchiveStands
  <2>4. latest' \in [Accounts -> Observations \cup {None}]
    BY <1>0, <2>1, <2>2, WriteLatestFits
  <2>5. \E r : check' = [check EXCEPT ![k] = r] /\ CheckFits(r)
    BY <2>1, EndCheckFits
  <2> QED BY <1>0, <2>1, <2>3, <2>4, <2>5, CheckStep
<1> QED BY <1>1, <1>2, <1>3, <1>4, <1>5 DEF Check

-----------------------------------------------------------------------------
(* Steps of the dispatching script                                         *)

LEMMA ScriptField ==
  ASSUME NEW r \in ScriptRecords,
         NEW v \in {"idle", "ready", "watching", "completed", "failed"}
  PROVE  LET q == [r EXCEPT !.step = v] IN
         q \in ScriptRecords /\ q.step = v /\ q.since = r.since
BY DEF ScriptRecords

(* A step of a script that changes nothing but itself and, perhaps, a call. *)
LEMMA ScriptStep ==
  ASSUME Inv, UNCHANGED <<now, broker, latest, history, console, logs, check, backfill, claims>>,
         \/ call' = call
         \/ \E c \in Calls : \E r : call' = [call EXCEPT ![c] = r] /\ CallFits(r, history, now),
         \/ script' = script
         \/ \E s \in Scripts : \E r : script' = [script EXCEPT ![s] = r] /\ ScriptFits(r, console)
  PROVE  Inv'
<1>1. HistoryFits(history') /\ Keeps(history, history')
  BY ArchiveStands
<1>2. /\ now \in Times /\ now <= now /\ broker' \subseteq Accounts
      /\ latest' \in [Accounts -> Observations \cup {None}]
  BY DEF Inv, Times
<1> QED BY <1>1, <1>2, Gains

LEMMA GoScriptFits ==
  ASSUME Inv, NEW s \in Scripts, NEW step \in {"ready", "watching", "completed", "failed"},
         script' = [script EXCEPT ![s].step = step],
         step = "completed" => Fresh(console, script[s].since)
  PROVE  \E r : script' = [script EXCEPT ![s] = r] /\ ScriptFits(r, console)
<1> DEFINE r == [script[s] EXCEPT !.step = step]
<1>1. script[s] \in ScriptRecords
  BY DEF Inv, ScriptFits
<1>2. r \in ScriptRecords /\ r.step = step /\ r.since = script[s].since
  BY <1>1 DEF ScriptRecords
<1>3. script' = [script EXCEPT ![s] = r]
  OBVIOUS
<1> HIDE DEF r
<1>4. ScriptFits(r, console)
  BY <1>2 DEF ScriptFits
<1> QED BY <1>3, <1>4

LEMMA ScriptHolds ==
  ASSUME Inv, NEW s \in Scripts, Script(s)
  PROVE  Inv'
<1>0. UNCHANGED <<now, broker, latest, history, console, logs, check, backfill, claims>>
  BY DEF Script, ReadBridge, Dispatch, Poll, GiveUp
<1>1. CASE ReadBridge(s)
  <2>1. UNCHANGED call
    BY <1>1 DEF ReadBridge
  <2>2. CASE script' = [script EXCEPT ![s].step = "ready", ![s].since = now]
    <3> DEFINE r1 == [script[s] EXCEPT !.step = "ready"]
               r2 == [r1 EXCEPT !.since = now]
    <3>1. script' = [script EXCEPT ![s] = r2]
      BY <2>2 DEF Inv
    <3>2. script[s] \in ScriptRecords /\ now \in Times
      BY DEF Inv, ScriptFits
    <3>3. r1 \in ScriptRecords /\ r1.step = "ready"
      BY <3>2, ScriptField
    <3> HIDE DEF r1
    <3>4. r2 \in ScriptRecords /\ r2.step = "ready"
      BY <3>2, <3>3 DEF ScriptRecords
    <3> HIDE DEF r2
    <3>5. ScriptFits(r2, console)
      BY <3>4 DEF ScriptFits
    <3> QED BY <1>0, <2>1, <3>1, <3>5, ScriptStep
  <2>3. CASE script' = [script EXCEPT ![s].step = "failed"]
    <3>1. \E r : script' = [script EXCEPT ![s] = r] /\ ScriptFits(r, console)
      BY <2>3, GoScriptFits
    <3> QED BY <1>0, <2>1, <3>1, ScriptStep
  <2> QED BY <1>1, <2>2, <2>3 DEF ReadBridge
<1>2. CASE Dispatch(s)
  <2>1. PICK result \in {"watching", "failed"} : script' = [script EXCEPT ![s].step = result]
    BY <1>2 DEF Dispatch
  <2>2. \E r : script' = [script EXCEPT ![s] = r] /\ ScriptFits(r, console)
    BY <2>1, GoScriptFits
  <2>3. \/ call' = call
        \/ \E c \in Calls : \E r : call' = [call EXCEPT ![c] = r] /\ CallFits(r, history, now)
    <3>1. CASE \E c \in Calls :
                 CallAt(c, "idle") /\ call' = [call EXCEPT ![c].step = "sent", ![c].scheduled = TRUE]
      <4>1. PICK c \in Calls : call' = [call EXCEPT ![c].step = "sent", ![c].scheduled = TRUE]
        BY <3>1
      <4> DEFINE r1 == [call[c] EXCEPT !.step = "sent"]
                 r2 == [r1 EXCEPT !.scheduled = TRUE]
      <4>3. call' = [call EXCEPT ![c] = r2]
        BY <4>1 DEF Inv
      <4>4. call[c] \in CallRecords /\ call[c].received <= now /\ "sent" \in CallSteps
        BY DEF Inv, CallFits, CallSteps
      <4>5. r1 \in CallRecords /\ r1.received = call[c].received /\ r1.step = "sent"
        BY <4>4, CallField
      <4> HIDE DEF r1
      <4>6. r2 \in CallRecords /\ r2.received = call[c].received /\ r2.step = "sent"
        BY <4>5, CallField
      <4> HIDE DEF r2
      <4>7. CallFits(r2, history, now)
        BY <4>4, <4>6 DEF CallFits
      <4> QED BY <4>3, <4>7
    <3> QED BY <1>2, <3>1 DEF Dispatch
  <2> QED BY <1>0, <2>2, <2>3, ScriptStep
<1>3. CASE Poll(s)
  <2>1. PICK rows \in SUBSET MatchingRows(script[s].since) :
          script' = [script EXCEPT ![s].step =
            IF Failing(rows) THEN "failed" ELSE IF CompletedSnapshot(rows) THEN "completed" ELSE @]
    BY <1>3 DEF Poll
  <2>2. script[s].step = "watching" /\ UNCHANGED call
    BY <1>3 DEF Poll, ScriptAt
  <2>3. PICK step \in {"failed", "completed", "watching"} :
          /\ script' = [script EXCEPT ![s].step = step]
          /\ step = "completed" => CompletedSnapshot(rows)
    BY <2>1, <2>2
  <2>4. CompletedSnapshot(rows) => Fresh(console, script[s].since)
    <3> SUFFICES ASSUME CompletedSnapshot(rows) PROVE Fresh(console, script[s].since)
      OBVIOUS
    <3>1. PICK row \in rows : row.kind = "app" /\ row.status = "ok"
      BY DEF CompletedSnapshot
    <3>2. row \in logs /\ row.at >= script[s].since
      BY DEF MatchingRows
    <3>3. Fresh(console, row.at) /\ row.at \in Times
      BY <3>1, <3>2 DEF Inv, RowFits, Rows
    <3>4. script[s].since \in Times
      BY DEF Inv, ScriptFits, ScriptRecords
    <3>5. \A o \in console : o.at \in Times
      BY DEF Inv, Kept, Observations
    <3> QED BY <3>2, <3>3, <3>4, <3>5 DEF Fresh, Times
  <2>5. \E r : script' = [script EXCEPT ![s] = r] /\ ScriptFits(r, console)
    BY <2>3, <2>4, GoScriptFits
  <2> QED BY <1>0, <2>2, <2>5, ScriptStep
<1>4. CASE GiveUp(s)
  <2>1. script' = [script EXCEPT ![s].step = "failed"] /\ UNCHANGED call
    BY <1>4 DEF GiveUp
  <2>2. \E r : script' = [script EXCEPT ![s] = r] /\ ScriptFits(r, console)
    BY <2>1, GoScriptFits
  <2> QED BY <1>0, <2>1, <2>2, ScriptStep
<1> QED BY <1>1, <1>2, <1>3, <1>4 DEF Script

-----------------------------------------------------------------------------
(* Steps of the publication of a past day, and of the clock                *)

LEMMA BackfillStep ==
  ASSUME Inv, UNCHANGED <<now, broker, latest, history, logs, call, check, script>>,
         NEW b \in Backfills, NEW r, backfill' = [backfill EXCEPT ![b] = r], BackfillFits(r, history),
         console \subseteq console', \A o \in console' \ console : Kept(o, history),
         \A x \in claims' \ claims : ClaimFits(x, console', history)
  PROVE  Inv'
<1>1. HistoryFits(history') /\ Keeps(history, history') /\ history' = history
  BY ArchiveStands
<1>2. /\ now \in Times /\ now <= now /\ broker' \subseteq Accounts
      /\ latest' \in [Accounts -> Observations \cup {None}]
  BY DEF Inv, Times
<1>3. \E d \in Backfills : \E q : backfill' = [backfill EXCEPT ![d] = q] /\ BackfillFits(q, history')
  <2>1. history' = history
    BY <1>1
  <2>2. BackfillFits(r, history')
    BY <2>1, Zenon
  <2> QED BY <2>2
<1>4. /\ \A o \in console' \ console : Kept(o, history')
      /\ \A x \in claims' \ claims : ClaimFits(x, console', history')
  BY <1>1
<1> QED BY <1>1, <1>2, <1>3, <1>4, Gains

LEMMA EndBackfillFits ==
  ASSUME NEW b \in Backfills, EndBackfill(b)
  PROVE  \E r : backfill' = [backfill EXCEPT ![b] = r] /\ BackfillFits(r, history)
<1> DEFINE r == [IdleBackfill EXCEPT !.step = "done"]
<1>1. IdleBackfill \in BackfillRecords
  BY DEF IdleBackfill, BackfillRecords, Times
<1>2. r \in BackfillRecords /\ r.step = "done"
  BY <1>1 DEF BackfillRecords
<1>3. backfill' = [backfill EXCEPT ![b] = r]
  BY DEF EndBackfill
<1> HIDE DEF r
<1>4. BackfillFits(r, history)
  BY <1>2 DEF BackfillFits
<1> QED BY <1>3, <1>4

LEMMA SelectArchiveHolds ==
  ASSUME Inv, NEW b \in Backfills, SelectArchive(b)
  PROVE  Inv'
<1>1. UNCHANGED <<now, broker, latest, history, console, logs, call, check, script, claims>>
  BY DEF SelectArchive
<1>2. CASE EndBackfill(b)
  <2>1. \E r : backfill' = [backfill EXCEPT ![b] = r] /\ BackfillFits(r, history)
    BY <1>2, EndBackfillFits
  <2> QED BY <1>1, <2>1, BackfillStep
<1>3. CASE ~EndBackfill(b)
  <2>1. PICK d \in {Day(t) : t \in Times}, a \in Accounts :
          \E t \in ArchivedOn(a, d) :
            backfill' = [backfill EXCEPT ![b] =
              [@ EXCEPT !.step = "selected", !.at = t, !.account = a,
                        !.generation = history[a][t].generation]]
    BY <1>3 DEF SelectArchive
  <2>2. PICK t \in ArchivedOn(a, d) :
          backfill' = [backfill EXCEPT ![b] =
            [@ EXCEPT !.step = "selected", !.at = t, !.account = a,
                      !.generation = history[a][t].generation]]
    BY <2>1
  <2>3. t \in Times /\ Holds(history, a, t)
    BY DEF ArchivedOn, Holds
  <2> DEFINE g == history[a][t].generation
             r1 == [backfill[b] EXCEPT !.step = "selected"]
             r2 == [r1 EXCEPT !.at = t]
             r3 == [r2 EXCEPT !.account = a]
             r4 == [r3 EXCEPT !.generation = g]
  <2>4. backfill' = [backfill EXCEPT ![b] = r4]
    BY <2>2
  <2>5. g \in Nat
    BY <2>3 DEF Inv, HistoryFits, Stored
  <2>6. backfill[b] \in BackfillRecords
    BY DEF Inv, BackfillFits
  <2> HIDE DEF g
  <2>7. r1 \in BackfillRecords /\ r1.step = "selected"
    BY <2>6 DEF BackfillRecords
  <2> HIDE DEF r1
  <2>8. r2 \in BackfillRecords /\ r2.step = "selected" /\ r2.at = t
    BY <2>3, <2>7 DEF BackfillRecords
  <2> HIDE DEF r2
  <2>9. r3 \in BackfillRecords /\ r3.step = "selected" /\ r3.at = t /\ r3.account = a
    BY <2>8 DEF BackfillRecords
  <2> HIDE DEF r3
  <2>10. r4 \in BackfillRecords /\ r4.step = "selected" /\ r4.at = t /\ r4.account = a
    BY <2>5, <2>9 DEF BackfillRecords
  <2> HIDE DEF r4
  <2>11. BackfillFits(r4, history)
    BY <2>3, <2>10 DEF BackfillFits
  <2> QED BY <1>1, <2>4, <2>11, BackfillStep
<1> QED BY <1>2, <1>3

LEMMA LoadArchiveHolds ==
  ASSUME Inv, NEW b \in Backfills, LoadArchive(b)
  PROVE  Inv'
<1>1. UNCHANGED <<now, broker, latest, history, console, logs, call, check, script, claims>>
  BY DEF LoadArchive
<1>2. CASE EndBackfill(b)
  <2>1. \E r : backfill' = [backfill EXCEPT ![b] = r] /\ BackfillFits(r, history)
    BY <1>2, EndBackfillFits
  <2> QED BY <1>1, <2>1, BackfillStep
<1>3. CASE ~EndBackfill(b)
  <2> DEFINE v == history[backfill[b].account][backfill[b].at].value
             r1 == [backfill[b] EXCEPT !.step = "loaded"]
             r2 == [r1 EXCEPT !.value = v]
  <2>1. backfill[b].step = "selected" /\ backfill' = [backfill EXCEPT ![b] = r2]
    BY <1>3 DEF LoadArchive, BackfillAt
  <2>2. /\ backfill[b] \in BackfillRecords /\ backfill[b].account \in Accounts
        /\ backfill[b].at \in Times /\ Holds(history, backfill[b].account, backfill[b].at)
    BY <2>1 DEF Inv, BackfillFits, BackfillRecords
  <2>3. /\ v \in Observations /\ v.account = backfill[b].account /\ v.at = backfill[b].at
    BY <2>2 DEF Inv, HistoryFits
  <2>4. Holds(history, v.account, v.at)
    BY <2>2, <2>3
  <2> HIDE DEF v
  <2>5. r1 \in BackfillRecords /\ r1.step = "loaded"
    BY <2>2 DEF BackfillRecords
  <2> HIDE DEF r1
  <2>6. r2 \in BackfillRecords /\ r2.step = "loaded" /\ r2.value = v
    BY <2>3, <2>5 DEF BackfillRecords
  <2> HIDE DEF r2
  <2>7. BackfillFits(r2, history)
    BY <2>3, <2>4, <2>6 DEF BackfillFits
  <2> QED BY <1>1, <2>1, <2>7, BackfillStep
<1> QED BY <1>2, <1>3

LEMMA PublishArchiveHolds ==
  ASSUME Inv, NEW b \in Backfills, PublishArchive(b)
  PROVE  Inv'
<1> DEFINE o == backfill[b].value
<1>1. /\ UNCHANGED <<now, broker, latest, history, logs, call, check, script>>
      /\ backfill[b].step = "loaded" /\ EndBackfill(b)
      /\ console' \in {console, console \cup {o}}
      /\ \/ o \in console' /\ Claim("stored", o)
         \/ UNCHANGED claims
  BY DEF PublishArchive, BackfillAt, AckMatches
<1>2. o \in Observations /\ Holds(history, o.account, o.at)
  BY <1>1 DEF Inv, BackfillFits
<1> HIDE DEF o
<1>3. \E r : backfill' = [backfill EXCEPT ![b] = r] /\ BackfillFits(r, history)
  BY <1>1, EndBackfillFits
<1>4. console \subseteq console' /\ \A x \in console' \ console : Kept(x, history)
  BY <1>1, <1>2 DEF Kept
<1>5. \A x \in claims' \ claims : ClaimFits(x, console', history)
  BY <1>1, <1>2 DEF Claim, ClaimFits, Claims
<1> QED BY <1>1, <1>3, <1>4, <1>5, BackfillStep

LEMMA TickHolds ==
  ASSUME Inv, Tick
  PROVE  Inv'
<1>1. /\ now' \in Times /\ now <= now'
      /\ UNCHANGED <<broker, latest, history, console, logs, call, check, script, backfill, claims>>
  BY DEF Tick, Inv, Times
<1>2. HistoryFits(history') /\ Keeps(history, history')
  BY <1>1, ArchiveStands
<1>3. broker' \subseteq Accounts /\ latest' \in [Accounts -> Observations \cup {None}]
  BY <1>1 DEF Inv
<1> QED BY <1>1, <1>2, <1>3, Gains

-----------------------------------------------------------------------------
LEMMA InvBegins == Init => Inv
<1> SUFFICES ASSUME Init PROVE Inv
  OBVIOUS
<1>1. /\ now = 0 /\ broker \subseteq Accounts /\ latest = [a \in Accounts |-> None]
      /\ history = [a \in Accounts |-> [t \in Times |-> [generation |-> 0, value |-> None]]]
      /\ console = {} /\ logs = {} /\ claims = {}
      /\ call = [c \in Calls |-> IdleCall] /\ check = [k \in Checks |-> IdleCheck]
      /\ script = [s \in Scripts |-> [step |-> "idle", since |-> 0]]
      /\ backfill = [b \in Backfills |-> IdleBackfill]
  BY DEF Init, FactsAssumption
<1>2. now \in Times /\ 0 \in Times
  BY <1>1 DEF Times
<1>3. HistoryFits(history)
  BY <1>1 DEF HistoryFits, Stored, Holds
<1>4. CallFits(IdleCall, history, now)
  BY <1>1, IdleCallFits DEF CallFits, IdleCall
<1>5. CheckFits(IdleCheck)
  BY <1>2 DEF CheckFits, IdleCheck, CheckRecords
<1>6. ScriptFits([step |-> "idle", since |-> 0], console)
  BY <1>2 DEF ScriptFits, ScriptRecords
<1>7. BackfillFits(IdleBackfill, history)
  BY <1>2 DEF BackfillFits, IdleBackfill, BackfillRecords
<1>8. call = [c \in Calls |-> call[c]] /\ \A c \in Calls : CallFits(call[c], history, now)
  BY <1>1, <1>4
<1>9. check = [k \in Checks |-> check[k]] /\ \A k \in Checks : CheckFits(check[k])
  BY <1>1, <1>5
<1>10. script = [s \in Scripts |-> script[s]] /\ \A s \in Scripts : ScriptFits(script[s], console)
  BY <1>1, <1>6
<1>11. /\ backfill = [b \in Backfills |-> backfill[b]]
       /\ \A b \in Backfills : BackfillFits(backfill[b], history)
  BY <1>1, <1>7
<1> QED BY <1>1, <1>2, <1>3, <1>8, <1>9, <1>10, <1>11 DEF Inv

LEMMA InvStands == Inv /\ UNCHANGED vars => Inv'
BY DEF Inv, vars

LEMMA InvHolds == Spec => []Inv
<1>1. Inv /\ Next => Inv'
  <2> SUFFICES ASSUME Inv, Next PROVE Inv'
    OBVIOUS
  <2>1. ASSUME NEW c \in Calls, Call(c) PROVE Inv'
    BY <2>1, RequestHolds, ReceiveHolds, RefuseHolds, StartReadingHolds, FinishReadingHolds,
       ArchiveHolds, PublishHolds, KilledHolds, EndAttemptHolds DEF Call
  <2>2. ASSUME NEW b \in Backfills, Backfill(b) PROVE Inv'
    BY <2>2, SelectArchiveHolds, LoadArchiveHolds, PublishArchiveHolds DEF Backfill
  <2> QED BY <2>1, <2>2, CheckHolds, ScriptHolds, TickHolds DEF Next
<1> QED BY <1>1, InvBegins, InvStands, PTL DEF Spec

(* The records of requests, checks, scripts and publications stay what     *)
(* account_facts and its scripts make of them.                             *)
THEOREM TypeCorrect == Spec => []TypeOK
BY InvHolds, PartsOfInv, PTL

(* Whatever fails between the archive and the console, and by either route *)
(* (/account-facts-sync or publish_archived_account_history), the console  *)
(* has no observation whose account and second the archive lacks.          *)
THEOREM ArchivedFirst == Spec => []ConsoleHoldsOnlyArchived
BY InvHolds, PartsOfInv, PTL

(* HTTP 200, "published" and "persisted" are said of what was stored.      *)
THEOREM ClaimsHold == Spec => []ClaimsAreTrue
BY InvHolds, PartsOfInv, PTL

(* sync_cached_account_facts completes only when an observation made after *)
(* it began is at the console.                                             *)
THEOREM CompletionIsFresh == Spec => []CompletedMeansFresh
BY InvHolds, PartsOfInv, PTL
=============================================================================
