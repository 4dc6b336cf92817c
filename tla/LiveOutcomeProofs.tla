------------------------- MODULE LiveOutcomeProofs --------------------------
(***************************************************************************)
(* Theorems about what cycles of LiveCycle report of their requests, about *)
(* what uses a period up, that the cycles implement SubmissionRight, and   *)
(* that a funding block is announced once.                                 *)
(***************************************************************************)
EXTENDS LiveCycleProofs, FiniteSetTheorems

-----------------------------------------------------------------------------
(* What a cycle remembers of its requests, a fact about each cycle alone.  *)

Concluded == {"notify", "respond"}

(* The result says whether the claim was acquired and names an order that  *)
(* may be alive; a skipped cycle has not acquired it.                      *)
ResultTells(c) ==
  /\ c.result.outcome = "skipped" => ~c.acquired
  /\ c.result.outcome = "completed" =>
       /\ c.result.claimed = c.acquired
       /\ c.result.mode = c.mode
       /\ c.alive => PendingReconciliation(c.result.orders)

(* Only a live cycle that acquired the claim sends; before it has acquired *)
(* the claim it is in none of the steps behind it; an order that may be    *)
(* alive is among its orders until it returns, and told by its result.     *)
Recorded(c) ==
  /\ c.alive => c.sent
  /\ c.sent => c.acquired
  /\ c.acquired => c.mode = "live"
  /\ c.step \in {"claim", "submit", "readBlocked"} => c.mode = "live"
  /\ c.step \in {"idle", "readLatest", "readClaim", "writeDuplicate", "writePlanned",
                 "claim", "readBlocked"} => ~c.acquired
  /\ c.step = "submit" => c.acquired
  /\ c.alive /\ c.step \notin Concluded => PendingReconciliation(c.orders)
  /\ c.step \in Concluded => ResultTells(c)

RequestsAreRecorded == \A w \in Workers : Recorded(cyc[w])

LEMMA FreshRecorded ==
  ASSUME NEW m, NEW p, NEW persist
  PROVE  /\ Recorded(FreshCycle(m, p, persist))
         /\ \A s \in {"readLatest", "writePlanned", "execute"} :
              Recorded([FreshCycle(m, p, persist) EXCEPT !.step = s])
<1>1. RaisedResult(m).outcome = "raised"
  BY DEF RaisedResult
<1>2. QED
  BY <1>1 DEF FreshCycle, Recorded, Concluded, ResultTells

(* Advancing a cycle over a step at which it cannot have lost track. *)
LEMMA GoRecorded ==
  ASSUME NEW c \in Cycle, Recorded(c), c.step \notin Concluded,
         NEW s \in Steps \ (Concluded \cup {"idle"}),
         s \in {"claim", "readBlocked"} => c.mode = "live" /\ ~c.acquired,
         s \in {"readLatest", "readClaim", "writeDuplicate", "writePlanned"} => ~c.acquired,
         s = "submit" => c.acquired
  PROVE  Recorded([c EXCEPT !.step = s])
<1> DEFINE d == [c EXCEPT !.step = s]
<1>1. /\ d.step = s /\ d.alive = c.alive /\ d.sent = c.sent /\ d.acquired = c.acquired
      /\ d.mode = c.mode /\ d.orders = c.orders
  BY DEF Cycle
<1>2. s \notin Concluded /\ s # "idle"
  BY DEF Concluded
<1> HIDE DEF d
<1>3. Recorded(d)
  BY <1>1, <1>2 DEF Recorded
<1>4. QED
  BY <1>3 DEF d

LEMMA EndedRecord ==
  ASSUME NEW c \in Cycle, NEW s, NEW r
  PROVE  /\ Ended(c, s, r).step = s /\ Ended(c, s, r).result = r
         /\ Ended(c, s, r).acquired = c.acquired /\ Ended(c, s, r).mode = c.mode
         /\ Ended(c, s, r).sent = c.sent /\ Ended(c, s, r).alive = c.alive
         /\ Ended(c, s, r).period = c.period /\ Ended(c, s, r).seen = "none"
         /\ Ended(c, s, r).orders = {}
BY DEF Ended, Cycle

(* A cycle that ends in an exception keeps what it has sent to itself. *)
LEMMA RaisedRecorded ==
  ASSUME NEW c \in Cycle, c.alive => c.sent, c.sent => c.acquired, c.acquired => c.mode = "live",
         NEW m
  PROVE  Recorded(Ended(c, "respond", RaisedResult(m)))
<1>1. RaisedResult(m).outcome = "raised"
  BY DEF RaisedResult
<1>2. QED
  BY <1>1, EndedRecord DEF Recorded, ResultTells, Concluded

LEMMA SkippedRecorded ==
  ASSUME NEW c \in Cycle, Recorded(c), ~c.acquired, NEW seen, NEW persistError
  PROVE  Recorded(Ended(c, "notify", SkippedResult(seen, persistError)))
<1>1. SkippedResult(seen, persistError).outcome = "skipped"
  BY DEF SkippedResult
<1>2. QED
  BY <1>1, EndedRecord DEF Recorded, ResultTells, Concluded

(* One cycle's record changes, the others stay. *)
LEMMA RecordedStep ==
  ASSUME TypeOK, RequestsAreRecorded, NEW w \in Workers, NEW c, Become(w, c), Recorded(c)
  PROVE  RequestsAreRecorded'
BY BecomeFacts DEF RequestsAreRecorded

LEMMA RaiseRecorded ==
  ASSUME TypeOK, RequestsAreRecorded, NEW w \in Workers, Raise(w)
  PROVE  RequestsAreRecorded'
<1>1. cyc[w] \in Cycle /\ Recorded(cyc[w])
  BY DEF TypeOK, RequestsAreRecorded
<1>2. Recorded(Ended(cyc[w], "respond", RaisedResult(cyc[w].mode)))
  BY <1>1, RaisedRecorded DEF Recorded
<1>3. QED
  BY <1>2, RecordedStep DEF Raise

(* A request answered: the cycle goes on, its orders possibly one more.    *)
LEMMA AnswerRecorded ==
  ASSUME NEW c \in Cycle, NEW d \in Cycle, Recorded(c), c.step = "submit",
         d.sent, d.acquired = c.acquired, d.mode = c.mode, d.step \in {"execute", "writeCompleted"},
         d.alive => PendingReconciliation(d.orders)
  PROVE  Recorded(d)
BY DEF Recorded, Concluded

LEMMA SentRecord ==
  ASSUME TypeOK, NEW w \in Workers, NEW alive \in BOOLEAN
  PROVE  /\ Sent(w, alive).sent
         /\ Sent(w, alive).alive = (cyc[w].alive \/ alive)
         /\ Sent(w, alive).acquired = cyc[w].acquired
         /\ Sent(w, alive).mode = cyc[w].mode
         /\ Sent(w, alive).period = cyc[w].period
         /\ Sent(w, alive).seen = cyc[w].seen
         /\ Sent(w, alive).orders = cyc[w].orders
BY DEF Sent, Cycle, TypeOK

LEMMA AcquireRecorded ==
  ASSUME TypeOK, RequestsAreRecorded, NEW w \in Workers, AcquireClaim(w)
  PROVE  RequestsAreRecorded'
<1>1. cyc[w] \in Cycle /\ Recorded(cyc[w]) /\ cyc[w].step = "claim"
  BY DEF TypeOK, RequestsAreRecorded, AcquireClaim, At
<1>2. cyc[w].mode = "live" /\ ~cyc[w].acquired /\ ~cyc[w].sent /\ ~cyc[w].alive
  BY <1>1 DEF Recorded
<1>3. CASE Raise(w)
  BY <1>3, RaiseRecorded
<1>4. CASE Go(w, "readBlocked")
  <2>1. Recorded([cyc[w] EXCEPT !.step = "readBlocked"])
    BY <1>1, <1>2, GoRecorded DEF Concluded, Steps
  <2>2. QED
    BY <1>4, <2>1, RecordedStep DEF Go
<1>5. CASE Become(w, [cyc[w] EXCEPT !.step = "submit", !.acquired = TRUE])
  <2> DEFINE d == [cyc[w] EXCEPT !.step = "submit", !.acquired = TRUE]
  <2>1. /\ d.step = "submit" /\ d.acquired = TRUE /\ d.mode = "live"
        /\ d.sent = cyc[w].sent /\ d.alive = cyc[w].alive
    BY <1>1, <1>2 DEF Cycle
  <2>2. Recorded(d)
    <3> HIDE DEF d
    <3>1. QED
      BY <1>2, <2>1 DEF Recorded, Concluded
  <2>3. QED
    BY <1>5, <2>2, RecordedStep
<1>6. QED
  BY <1>3, <1>4, <1>5 DEF AcquireClaim

(* Every answer of the broker leaves the cycle with the right record.      *)
LEMMA BrokerRecorded ==
  ASSUME TypeOK, RequestsAreRecorded, NEW w \in Workers, Broker(w)
  PROVE  RequestsAreRecorded'
<1>1. cyc[w] \in Cycle /\ Recorded(cyc[w])
  BY DEF TypeOK, RequestsAreRecorded
<1>2. CASE OrderAccepted(w)
  <2> DEFINE s == Sent(w, TRUE)
             d == [s EXCEPT !.step = "execute", !.orders = @ \cup {"submitted"}]
  <2>1. s \in Cycle
    BY SentType
  <2>2. s.orders \cup {"submitted"} \in SUBSET OrderStatuses
    BY <2>1, CycleFields DEF OrderStatuses
  <2>3. d \in Cycle
    BY <2>1, <2>2, FieldUpdates DEF Steps
  <2>4. /\ d.sent = s.sent /\ d.acquired = s.acquired /\ d.mode = s.mode
        /\ d.step = "execute" /\ d.orders = s.orders \cup {"submitted"}
    BY <2>1 DEF Cycle
  <2>5. Recorded(d)
    <3> HIDE DEF d
    <3>1. PendingReconciliation(d.orders)
      BY <2>4 DEF PendingReconciliation
    <3>2. QED
      BY <1>1, <1>2, <2>3, <2>4, <3>1, SentRecord, AnswerRecorded DEF OrderAccepted, At
  <2>6. QED
    BY <1>2, <2>5, RecordedStep DEF OrderAccepted
<1>3. CASE OrderRejected(w)
  <2> DEFINE s == Sent(w, FALSE)
             d == [s EXCEPT !.step = "execute", !.skips = @ \cup {"rejected"}]
  <2>1. s \in Cycle
    BY SentType
  <2>2. s.skips \cup {"rejected"} \in SUBSET SkipReasons
    BY <2>1, CycleFields DEF SkipReasons
  <2>3. d \in Cycle
    BY <2>1, <2>2, FieldUpdates DEF Steps
  <2>4. /\ d.sent = s.sent /\ d.acquired = s.acquired /\ d.mode = s.mode /\ d.alive = s.alive
        /\ d.step = "execute" /\ d.orders = s.orders
    BY <2>1 DEF Cycle
  <2>5. cyc[w].alive => PendingReconciliation(cyc[w].orders)
    BY <1>1, <1>3 DEF OrderRejected, At, Recorded, Concluded
  <2>6. Recorded(d)
    <3> HIDE DEF d
    <3>1. QED
      BY <1>1, <1>3, <2>3, <2>4, <2>5, SentRecord, AnswerRecorded DEF OrderRejected, At
  <2>7. QED
    BY <1>3, <2>6, RecordedStep DEF OrderRejected
<1>4. CASE OrderUnknown(w)
  <2>1. PICK alive \in BOOLEAN :
          Become(w, [Sent(w, alive) EXCEPT !.step = "writeCompleted", !.orders = @ \cup {"unknown"}])
    BY <1>4 DEF OrderUnknown
  <2> DEFINE s == Sent(w, alive)
             d == [s EXCEPT !.step = "writeCompleted", !.orders = @ \cup {"unknown"}]
  <2>2. s \in Cycle
    BY SentType
  <2>3. s.orders \cup {"unknown"} \in SUBSET OrderStatuses
    BY <2>2, CycleFields DEF OrderStatuses
  <2>4. d \in Cycle
    BY <2>2, <2>3, FieldUpdates DEF Steps
  <2>5. /\ d.sent = s.sent /\ d.acquired = s.acquired /\ d.mode = s.mode
        /\ d.step = "writeCompleted" /\ d.orders = s.orders \cup {"unknown"}
    BY <2>2 DEF Cycle
  <2>6. Recorded(d)
    <3> HIDE DEF d
    <3>1. PendingReconciliation(d.orders)
      BY <2>5 DEF PendingReconciliation
    <3>2. QED
      BY <1>1, <1>4, <2>4, <2>5, <3>1, SentRecord, AnswerRecorded DEF OrderUnknown, At
  <2>7. QED
    BY <2>1, <2>6, RecordedStep
<1>5. CASE OrderRaises(w)
  <2>1. PICK alive \in BOOLEAN : Become(w, Ended(Sent(w, alive), "respond", RaisedResult("live")))
    BY <1>5 DEF OrderRaises
  <2>2. Sent(w, alive) \in Cycle /\ cyc[w].acquired /\ cyc[w].mode = "live"
    BY <1>1, <1>5, SentType DEF Recorded, OrderRaises, At
  <2>3. Recorded(Ended(Sent(w, alive), "respond", RaisedResult("live")))
    BY <2>2, SentRecord, RaisedRecorded
  <2>4. QED
    BY <2>1, <2>3, RecordedStep
<1>6. CASE OrderRefusedLocally(w) \/ StatusQueryRaises(w)
  BY <1>6, RaiseRecorded DEF OrderRefusedLocally, StatusQueryRaises
<1>7. QED
  BY <1>2, <1>3, <1>4, <1>5, <1>6 DEF Broker

LEMMA CompletedRecorded ==
  ASSUME TypeOK, RequestsAreRecorded, NEW w \in Workers, WriteCompleted(w)
  PROVE  RequestsAreRecorded'
<1> DEFINE c == cyc[w]
<1>1. c \in Cycle /\ Recorded(c) /\ c.step = "writeCompleted"
  BY DEF TypeOK, RequestsAreRecorded, WriteCompleted, At
<1>2. PICK e : Return(w, CompletedResult(c.mode, c.orders, c.skips, c.acquired, e))
  BY Zenon DEF WriteCompleted
<1> DEFINE r == CompletedResult(c.mode, c.orders, c.skips, c.acquired, e)
<1>3. /\ r.outcome = "completed" /\ r.claimed = c.acquired
      /\ r.mode = c.mode /\ r.orders = c.orders
  BY DEF CompletedResult
<1> HIDE DEF r
<1>4. Recorded(Ended(c, "notify", r))
  BY <1>1, <1>3, EndedRecord DEF Recorded, Concluded, ResultTells
<1>5. QED
  BY <1>2, <1>4, RecordedStep DEF Return, r

(* The record of requests is kept by every step of every cycle.            *)
LEMMA RecordedIsInductive ==
  ASSUME TypeOK, RequestsAreRecorded, [Next]_vars
  PROVE  RequestsAreRecorded'
<1>0. \A w \in Workers : cyc[w] \in Cycle /\ Recorded(cyc[w])
  BY DEF TypeOK, RequestsAreRecorded
<1>1. ASSUME NEW w \in Workers, Start(w) PROVE RequestsAreRecorded'
  <2>1. PICK m \in CycleModes, p \in Periods, persist \in Persistence :
          StartCycle(w, m, p, persist)
    BY <1>1 DEF Start
  <2>2. QED
    BY <2>1, FreshRecorded, RecordedStep DEF StartCycle
<1>2. ASSUME NEW w \in Workers, ReadLatest(w) PROVE RequestsAreRecorded'
  <2>1. CASE Raise(w)
    BY <2>1, RaiseRecorded
  <2>2. CASE Become(w, [cyc[w] EXCEPT !.step = "readClaim", !.seen = latest["live"][cyc[w].period]])
    <3> DEFINE d == [cyc[w] EXCEPT !.step = "readClaim", !.seen = latest["live"][cyc[w].period]]
    <3>1. /\ d.step = "readClaim" /\ d.acquired = cyc[w].acquired /\ d.sent = cyc[w].sent
          /\ d.alive = cyc[w].alive
      BY <1>0 DEF Cycle
    <3>2. ~cyc[w].acquired /\ ~cyc[w].sent /\ ~cyc[w].alive
      BY <1>0, <1>2 DEF ReadLatest, At, Recorded
    <3>3. Recorded(d)
      <4> HIDE DEF d
      <4>1. QED
        BY <3>1, <3>2 DEF Recorded, Concluded
    <3>4. QED
      BY <2>2, <3>3, RecordedStep
  <2>3. QED
    BY <1>2, <2>1, <2>2 DEF ReadLatest
<1>3. ASSUME NEW w \in Workers, ReadClaim(w) PROVE RequestsAreRecorded'
  <2>1. ~cyc[w].acquired /\ cyc[w].step = "readClaim"
    BY <1>0, <1>3 DEF ReadClaim, At, Recorded
  <2>2. CASE Return(w, SkippedResult(cyc[w].seen, FALSE))
    BY <1>0, <2>1, <2>2, SkippedRecorded, RecordedStep DEF Return
  <2>3. ASSUME NEW s \in {"writeDuplicate", "writePlanned"}, Go(w, s) PROVE RequestsAreRecorded'
    <3>1. Recorded([cyc[w] EXCEPT !.step = s])
      BY <1>0, <2>1, GoRecorded DEF Concluded, Steps
    <3>2. QED
      BY <2>3, <3>1, RecordedStep DEF Go
  <2>4. QED
    BY <1>3, <2>2, <2>3, RaiseRecorded DEF ReadClaim
<1>4. ASSUME NEW w \in Workers, WriteDuplicate(w) PROVE RequestsAreRecorded'
  BY <1>0, <1>4, SkippedRecorded, RecordedStep DEF WriteDuplicate, Return, At, Recorded
<1>5. ASSUME NEW w \in Workers, WritePlanned(w) PROVE RequestsAreRecorded'
  <2>1. PICK failed \in BOOLEAN :
          Become(w, [cyc[w] EXCEPT !.step = "execute", !.persistError = failed])
    BY <1>5 DEF WritePlanned
  <2> DEFINE d == [cyc[w] EXCEPT !.step = "execute", !.persistError = failed]
  <2>2. /\ d.step = "execute" /\ d.acquired = cyc[w].acquired /\ d.sent = cyc[w].sent
        /\ d.alive = cyc[w].alive
    BY <1>0 DEF Cycle
  <2>3. ~cyc[w].acquired /\ ~cyc[w].sent /\ ~cyc[w].alive
    BY <1>0, <1>5 DEF WritePlanned, At, Recorded
  <2>4. Recorded(d)
    <3> HIDE DEF d
    <3>1. QED
      BY <2>2, <2>3 DEF Recorded, Concluded
  <2>5. QED
    BY <2>1, <2>4, RecordedStep
<1>6. ASSUME NEW w \in Workers, NEW reason, SkipOrder(w, reason) PROVE RequestsAreRecorded'
  <2> DEFINE d == [cyc[w] EXCEPT !.skips = @ \cup {reason}]
  <2>1. /\ d.step = cyc[w].step /\ d.acquired = cyc[w].acquired /\ d.sent = cyc[w].sent
        /\ d.alive = cyc[w].alive /\ d.mode = cyc[w].mode /\ d.orders = cyc[w].orders
        /\ d.step \notin Concluded
    BY <1>0, <1>6 DEF Cycle, SkipOrder, At, Concluded
  <2>2. Recorded(d)
    <3> HIDE DEF d
    <3>1. QED
      BY <1>0, <2>1 DEF Recorded
  <2>3. QED
    BY <1>6, <2>2, RecordedStep DEF SkipOrder
<1>7. ASSUME NEW w \in Workers, PreviewOrder(w) PROVE RequestsAreRecorded'
  <2> DEFINE d == [cyc[w] EXCEPT !.orders = @ \cup {"previewed"}]
  <2>1. /\ d.step = cyc[w].step /\ d.acquired = cyc[w].acquired /\ d.sent = cyc[w].sent
        /\ d.alive = cyc[w].alive /\ d.mode = cyc[w].mode
        /\ d.step = "execute" /\ d.mode = "dry"
    BY <1>0, <1>7 DEF Cycle, PreviewOrder, At
  <2>2. Recorded(d)
    <3> HIDE DEF d
    <3>1. QED
      BY <1>0, <2>1 DEF Recorded, Concluded
  <2>3. QED
    BY <1>7, <2>2, RecordedStep DEF PreviewOrder
<1>8. ASSUME NEW w \in Workers, PlaceOrder(w) PROVE RequestsAreRecorded'
  <2>1. cyc[w].step = "execute" /\ cyc[w].mode = "live"
    BY <1>8 DEF PlaceOrder, At
  <2>2. CASE cyc[w].acquired /\ Go(w, "submit")
    <3>1. Recorded([cyc[w] EXCEPT !.step = "submit"])
      BY <1>0, <2>1, <2>2, GoRecorded DEF Concluded, Steps
    <3>2. QED
      BY <2>2, <3>1, RecordedStep DEF Go
  <2>3. CASE ~cyc[w].acquired /\ Go(w, "claim")
    <3>1. Recorded([cyc[w] EXCEPT !.step = "claim"])
      BY <1>0, <2>1, <2>3, GoRecorded DEF Concluded, Steps
    <3>2. QED
      BY <2>3, <3>1, RecordedStep DEF Go
  <2>4. QED
    BY <1>8, <2>2, <2>3, RaiseRecorded DEF PlaceOrder
<1>9. ASSUME NEW w \in Workers, ReadBlocked(w) PROVE RequestsAreRecorded'
  <2>1. ~cyc[w].acquired
    BY <1>0, <1>9 DEF ReadBlocked, At, Recorded
  <2>2. QED
    BY <1>0, <1>9, <2>1, SkippedRecorded, RecordedStep, RaiseRecorded DEF ReadBlocked, Return
<1>10. ASSUME NEW w \in Workers, FinishExecution(w) PROVE RequestsAreRecorded'
  <2>1. Recorded([cyc[w] EXCEPT !.step = "writeCompleted"])
    BY <1>0, <1>10, GoRecorded DEF FinishExecution, At, Concluded, Steps
  <2>2. QED
    BY <1>10, <2>1, RecordedStep DEF FinishExecution, Go
<1>11. ASSUME NEW w \in Workers, Notify(w) PROVE RequestsAreRecorded'
  <2> DEFINE d == [cyc[w] EXCEPT !.step = "respond"]
  <2>1. /\ d.step = "respond" /\ d.acquired = cyc[w].acquired /\ d.sent = cyc[w].sent
        /\ d.alive = cyc[w].alive /\ d.mode = cyc[w].mode /\ d.result = cyc[w].result
    BY <1>0 DEF Cycle
  <2>2. Recorded(d)
    <3> HIDE DEF d
    <3>1. QED
      BY <1>0, <1>11, <2>1 DEF Recorded, Concluded, ResultTells, Notify, At
  <2>3. QED
    BY <1>11, <2>2, RecordedStep DEF Notify, Go
<1>12. ASSUME NEW w \in Workers, Respond(w) \/ Crash(w) PROVE RequestsAreRecorded'
  BY <1>12, FreshRecorded, RecordedStep DEF Respond, Crash, Forget, IdleCycle
<1>13. CASE Recover \/ UNCHANGED vars
  BY <1>13 DEF Recover, vars, RequestsAreRecorded
<1>14. QED
  BY <1>1, <1>2, <1>3, <1>4, <1>5, <1>6, <1>7, <1>8, <1>9, <1>10, <1>11, <1>12, <1>13,
     AcquireRecorded, BrokerRecorded, CompletedRecorded
  DEF Next, Proceed

(* A cycle sends only under a claim it acquired and until it returns an    *)
(* order that may be alive is among the orders it reports: the premise of  *)
(* every reduction of its result in main.py.                               *)
THEOREM RequestsRecorded == Spec => []RequestsAreRecorded
<1>1. Init => RequestsAreRecorded
  <2>1. Recorded(IdleCycle)
    BY FreshRecorded DEF IdleCycle
  <2>2. QED
    BY <2>1 DEF Init, RequestsAreRecorded
<1>2. QED
  BY <1>1, RecordedIsInductive, TypeCorrect, PTL DEF Spec

(* A cycle that completed in answer 500 had acquired no claim, and without *)
(* a claim it sent nothing: calling it again repeats no order              *)
(* (_strategy_result_http_status, execution_block_retryable).              *)
THEOREM RetryRepeatsNothing == Spec => []RetryStatusMeansNothingSent
<1>1. RequestsAreRecorded => RetryStatusMeansNothingSent
  <2> SUFFICES ASSUME RequestsAreRecorded, NEW w \in Workers, At(w, "respond"),
                      cyc[w].result.outcome = "completed", HttpStatus(cyc[w].result) = 500
               PROVE  ~cyc[w].sent
    BY DEF RetryStatusMeansNothingSent
  <2>1. Recorded(cyc[w]) /\ cyc[w].result.claimed = cyc[w].acquired
    BY DEF RequestsAreRecorded, Recorded, ResultTells, Concluded, At
  <2>2. ~cyc[w].result.claimed
    BY DEF HttpStatus, BlockRetryable
  <2>3. QED
    BY <2>1, <2>2 DEF Recorded
<1>2. QED
  BY <1>1, RequestsRecorded, PTL

(* A receipt of no action or of a risk block is never written for a cycle  *)
(* that left an order at the broker: a completed cycle names the order and *)
(* is to be reconciled, a raised one is failed, a skipped one sent nothing *)
(* (the receipt adapter's outcome in main.py).                             *)
THEOREM ReceiptsTellOfOrders == Spec => []ReceiptNeverHidesLiveOrder
<1>1. TypeOK /\ RequestsAreRecorded => ReceiptNeverHidesLiveOrder
  <2> SUFFICES ASSUME TypeOK, RequestsAreRecorded, NEW w \in Workers, At(w, "respond"),
                      ReceiptOutcome(cyc[w].result) \in {"no_action", "risk_blocked"},
                      cyc[w].alive
               PROVE  FALSE
    BY DEF ReceiptNeverHidesLiveOrder
  <2>1. Recorded(cyc[w]) /\ ResultTells(cyc[w])
    BY DEF RequestsAreRecorded, Recorded, Concluded, At
  <2>2. cyc[w].acquired /\ cyc[w].mode = "live"
    BY <2>1 DEF Recorded
  <2>3. cyc[w].result.outcome = "completed"
    <3>1. cyc[w].result.outcome \in Outcomes
      BY CycleFields DEF TypeOK, Results
    <3>2. cyc[w].result.outcome # "raised"
      BY DEF ReceiptOutcome
    <3>3. cyc[w].result.outcome # "skipped"
      BY <2>1, <2>2 DEF ResultTells
    <3>4. QED
      BY <3>1, <3>2, <3>3 DEF Outcomes
  <2>4. cyc[w].result.mode = "live" /\ PendingReconciliation(cyc[w].result.orders)
    BY <2>1, <2>2, <2>3 DEF ResultTells
  <2>5. ReceiptOutcome(cyc[w].result) = "reconciliation_required"
    BY <2>3, <2>4 DEF ReceiptOutcome, ReconciliationRequired
  <2>6. QED
    BY <2>5
<1>2. QED
  BY <1>1, TypeCorrect, RequestsRecorded, PTL

-----------------------------------------------------------------------------
(* What uses a period up, and what a cycle has seen of it.                 *)

Used(p) == claim[p] # "none" \/ p \in quiet
UsedPeriods == {p \in Periods : Used(p)}
TakenPeriods == {p \in Periods : claim[p] # "none"}

(* A cycle that goes by a terminal record, or by a claim it did not create,*)
(* does so in a used period; a live cycle previews nothing.                *)
Sees(c, used, taken) ==
  /\ IsDuplicateLiveRun(c.seen) => c.period \in used
  /\ c.step = "writeDuplicate" => IsDuplicateLiveRun(c.seen)
  /\ c.step = "readBlocked" => c.period \in taken
  /\ c.step \in Concluded /\ c.result.outcome = "skipped" => c.period \in used
  /\ c.mode = "live" => "previewed" \notin c.orders

(* A terminal record is only ever left in a used period.                   *)
RecordsAreEarned ==
  /\ \A p \in Periods : IsDuplicateLiveRun(latest["live"][p]) => p \in UsedPeriods
  /\ \A w \in Workers : Sees(cyc[w], UsedPeriods, TakenPeriods)

LEMMA SeesGrows ==
  ASSUME NEW c, NEW S, NEW T, NEW S2, NEW T2, S \subseteq S2, T \subseteq T2, Sees(c, S, T)
  PROVE  Sees(c, S2, T2)
BY DEF Sees

LEMMA NothingSeen == ~IsDuplicateLiveRun("none")
BY DEF IsDuplicateLiveRun, LiveTerminalStages

(* Claims are never removed and a quiet period stays quiet. *)
LEMMA UsedStays ==
  ASSUME claim' = claim, quiet' = quiet
  PROVE  UsedPeriods' = UsedPeriods /\ TakenPeriods' = TakenPeriods
BY DEF UsedPeriods, TakenPeriods, Used

LEMMA TakenIsUsed == TakenPeriods \subseteq UsedPeriods
BY DEF UsedPeriods, TakenPeriods, Used

(* One cycle's record and possibly the period's record change. *)
LEMMA EarnedStep ==
  ASSUME TypeOK, RecordsAreEarned, NEW w \in Workers, NEW c, Become(w, c),
         UsedPeriods \subseteq UsedPeriods', TakenPeriods \subseteq TakenPeriods',
         Sees(c, UsedPeriods', TakenPeriods'),
         \A p \in Periods : IsDuplicateLiveRun(latest'["live"][p]) =>
           IsDuplicateLiveRun(latest["live"][p]) \/ p \in UsedPeriods'
  PROVE  RecordsAreEarned'
<1>1. cyc'[w] = c /\ \A v \in Workers \ {w} : cyc'[v] = cyc[v]
  BY BecomeFacts
<1>2. \A v \in Workers : Sees(cyc'[v], UsedPeriods', TakenPeriods')
  BY <1>1, SeesGrows DEF RecordsAreEarned
<1>3. \A p \in Periods : IsDuplicateLiveRun(latest'["live"][p]) => p \in UsedPeriods'
  BY DEF RecordsAreEarned
<1>4. QED
  BY <1>2, <1>3 DEF RecordsAreEarned

(* The step of an action that only reads the store. *)
LEMMA EarnedLocally ==
  ASSUME TypeOK, RecordsAreEarned, NEW w \in Workers, NEW c, Become(w, c),
         latest' = latest, claim' = claim, quiet' = quiet,
         Sees(c, UsedPeriods, TakenPeriods)
  PROVE  RecordsAreEarned'
BY UsedStays, EarnedStep

(* The step of an action that also writes the period's record. *)
LEMMA EarnedWrite ==
  ASSUME TypeOK, RecordsAreEarned, NEW w \in Workers, NEW c, Become(w, c),
         claim' = claim, quiet' = quiet, NEW failed \in BOOLEAN, NEW stage \in StoredStages,
         Persisted(w, stage, failed), Sees(c, UsedPeriods, TakenPeriods),
         IsDuplicateLiveRun(stage) => cyc[w].period \in UsedPeriods
  PROVE  RecordsAreEarned'
<1>1. cyc[w].mode \in Modes /\ cyc[w].period \in Periods
  BY CycleFields DEF TypeOK
<1>2. \A p \in Periods : \/ latest'["live"][p] = latest["live"][p]
                         \/ p = cyc[w].period /\ latest'["live"][p] = stage
  BY <1>1 DEF Persisted, TypeOK, Modes
<1>3. QED
  BY <1>2, UsedStays, EarnedStep

LEMMA EndedSees ==
  ASSUME NEW c \in Cycle, NEW s \in Concluded, NEW r, NEW S, NEW T,
         r.outcome = "skipped" => c.period \in S
  PROVE  Sees(Ended(c, s, r), S, T)
BY EndedRecord, NothingSeen DEF Sees, Concluded

LEMMA RaiseEarned ==
  ASSUME TypeOK, RecordsAreEarned, NEW w \in Workers, Raise(w),
         latest' = latest, claim' = claim, quiet' = quiet
  PROVE  RecordsAreEarned'
<1>1. cyc[w] \in Cycle /\ RaisedResult(cyc[w].mode).outcome = "raised"
  BY DEF TypeOK, RaisedResult
<1>2. Sees(Ended(cyc[w], "respond", RaisedResult(cyc[w].mode)), UsedPeriods, TakenPeriods)
  BY <1>1, EndedSees DEF Concluded
<1>3. QED
  BY <1>2, EarnedLocally DEF Raise

LEMMA SkippedSees ==
  ASSUME NEW c \in Cycle, NEW seen, NEW e, NEW S, NEW T, c.period \in S
  PROVE  Sees(Ended(c, "notify", SkippedResult(seen, e)), S, T)
BY EndedSees DEF Concluded, SkippedResult

LEMMA GoSees ==
  ASSUME NEW c \in Cycle, NEW s \in Steps \ Concluded, NEW S, NEW T, Sees(c, S, T),
         s = "writeDuplicate" => IsDuplicateLiveRun(c.seen),
         s = "readBlocked" => c.period \in T
  PROVE  Sees([c EXCEPT !.step = s], S, T)
<1> DEFINE d == [c EXCEPT !.step = s]
<1>1. d.step = s /\ d.seen = c.seen /\ d.period = c.period /\ d.mode = c.mode /\ d.orders = c.orders
  BY DEF Cycle
<1> HIDE DEF d
<1>2. Sees(d, S, T)
  BY <1>1 DEF Sees
<1>3. QED
  BY <1>2 DEF d

(* A live cycle leaves a terminal stage only when it did nothing. *)
LEMMA LiveTerminal ==
  ASSUME NEW orders \in SUBSET OrderStatuses, NEW skips \in SUBSET SkipReasons,
         "previewed" \notin orders, IsDuplicateLiveRun(CycleStage("live", orders, skips))
  PROVE  CycleStage("live", orders, skips) = "NO_ACTION"
BY DEF CycleStage, ResolveStage, ActionDone, IsDuplicateLiveRun, LiveTerminalStages

LEMMA CompletedEarned ==
  ASSUME TypeOK, RecordsAreEarned, NEW w \in Workers, WriteCompleted(w)
  PROVE  RecordsAreEarned'
<1> DEFINE c == cyc[w]
           stage == CycleStage(c.mode, c.orders, c.skips)
<1>1. PICK failed, e :
        /\ failed \in BOOLEAN
        /\ Return(w, CompletedResult(c.mode, c.orders, c.skips, c.acquired, e))
        /\ latest' = latest \/ Persisted(w, stage, failed)
  BY Zenon DEF WriteCompleted
<1>2. /\ c \in Cycle /\ c.mode \in Modes /\ c.period \in Periods
      /\ c.orders \in SUBSET OrderStatuses /\ c.skips \in SUBSET SkipReasons
  BY CycleFields DEF TypeOK
<1>3. claim' = claim /\ quiet \subseteq quiet'
      /\ (c.mode = "live" /\ stage = "NO_ACTION" => c.period \in quiet')
  BY DEF WriteCompleted
<1>4. UsedPeriods \subseteq UsedPeriods' /\ TakenPeriods' = TakenPeriods
  BY <1>3 DEF UsedPeriods, TakenPeriods, Used
<1>5. Sees(Ended(c, "notify", CompletedResult(c.mode, c.orders, c.skips, c.acquired, e)),
           UsedPeriods', TakenPeriods')
  BY <1>2, EndedSees DEF CompletedResult, Concluded
<1>6. c.mode = "live" /\ IsDuplicateLiveRun(stage) => c.period \in UsedPeriods'
  <2>1. c.mode = "live" => "previewed" \notin c.orders
    BY DEF RecordsAreEarned, Sees
  <2>2. c.mode = "live" /\ IsDuplicateLiveRun(stage) => stage = "NO_ACTION"
    BY <1>2, <2>1, LiveTerminal
  <2>3. QED
    BY <1>2, <1>3, <2>2 DEF UsedPeriods, Used
<1>7. \A p \in Periods : \/ latest'["live"][p] = latest["live"][p]
                         \/ c.mode = "live" /\ p = c.period /\ latest'["live"][p] = stage
  <2>1. CASE latest' = latest
    BY <2>1
  <2>2. CASE Persisted(w, stage, failed)
    <3> HIDE DEF stage
    <3>1. QED
      BY <1>2, <2>2 DEF Persisted, TypeOK, Modes
  <2>3. QED
    BY <1>1, <2>1, <2>2
<1>8. \A p \in Periods : IsDuplicateLiveRun(latest'["live"][p]) =>
        IsDuplicateLiveRun(latest["live"][p]) \/ p \in UsedPeriods'
  <2> HIDE DEF stage
  <2>1. QED
    BY <1>6, <1>7
<1>9. QED
  BY <1>1, <1>4, <1>5, <1>8, EarnedStep DEF Return

LEMMA AcquireEarned ==
  ASSUME TypeOK, RecordsAreEarned, NEW w \in Workers, AcquireClaim(w)
  PROVE  RecordsAreEarned'
<1> DEFINE c == cyc[w]
<1>1. c \in Cycle /\ c.period \in Periods /\ Sees(c, UsedPeriods, TakenPeriods)
      /\ latest' = latest /\ quiet' = quiet
  BY CycleFields DEF TypeOK, RecordsAreEarned, AcquireClaim, history
<1>2. claim' = claim \/ claim' = [claim EXCEPT ![c.period] = "v2"]
  BY DEF AcquireClaim
<1>3. UsedPeriods \subseteq UsedPeriods' /\ TakenPeriods \subseteq TakenPeriods'
  BY <1>1, <1>2 DEF UsedPeriods, TakenPeriods, Used, TypeOK
<1>4. Sees(c, UsedPeriods', TakenPeriods')
  BY <1>1, <1>3, SeesGrows
<1>5. CASE Raise(w)
  <2>1. RaisedResult(c.mode).outcome = "raised"
    BY DEF RaisedResult
  <2>2. Sees(Ended(c, "respond", RaisedResult(c.mode)), UsedPeriods', TakenPeriods')
    BY <1>1, <2>1, EndedSees DEF Concluded
  <2>3. QED
    BY <1>1, <1>3, <1>5, <2>2, EarnedStep DEF Raise
<1>6. CASE Become(w, [c EXCEPT !.step = "submit", !.acquired = TRUE])
  <2> DEFINE d == [c EXCEPT !.step = "submit", !.acquired = TRUE]
  <2>1. /\ d.step = "submit" /\ d.seen = c.seen /\ d.period = c.period /\ d.mode = c.mode
        /\ d.orders = c.orders
    BY <1>1 DEF Cycle
  <2>2. Sees(d, UsedPeriods', TakenPeriods')
    <3> HIDE DEF d
    <3>1. QED
      BY <1>4, <2>1 DEF Sees, Concluded
  <2>3. QED
    BY <1>1, <1>3, <1>6, <2>2, EarnedStep
<1>7. CASE Go(w, "readBlocked") /\ claim'[c.period] # "none"
  <2>1. c.period \in TakenPeriods'
    BY <1>1, <1>7 DEF TakenPeriods
  <2>2. Sees([c EXCEPT !.step = "readBlocked"], UsedPeriods', TakenPeriods')
    BY <1>1, <1>4, <2>1, GoSees DEF Steps, Concluded
  <2>3. QED
    BY <1>1, <1>3, <1>7, <2>2, EarnedStep DEF Go
<1>8. claim' = [claim EXCEPT ![c.period] = "v2"] => claim'[c.period] = "v2"
  BY <1>1 DEF TypeOK
<1>9. QED
  BY <1>5, <1>6, <1>7, <1>8 DEF AcquireClaim

LEMMA AnswerSees ==
  ASSUME NEW c \in Cycle, NEW d \in Cycle, NEW S, NEW T, Sees(c, S, T),
         d.seen = c.seen, d.period = c.period, d.mode = c.mode,
         d.step \in {"execute", "writeCompleted"},
         "previewed" \in d.orders => "previewed" \in c.orders
  PROVE  Sees(d, S, T)
BY DEF Sees, Concluded

LEMMA BrokerEarned ==
  ASSUME TypeOK, RecordsAreEarned, NEW w \in Workers, Broker(w)
  PROVE  RecordsAreEarned'
<1>1. /\ cyc[w] \in Cycle /\ Sees(cyc[w], UsedPeriods, TakenPeriods)
      /\ latest' = latest /\ claim' = claim /\ quiet' = quiet
  BY DEF TypeOK, RecordsAreEarned, Broker, OrderAccepted, OrderRejected, OrderUnknown,
         OrderRaises, OrderRefusedLocally, StatusQueryRaises, store, history
<1>2. CASE OrderAccepted(w)
  <2> DEFINE s == Sent(w, TRUE)
             d == [s EXCEPT !.step = "execute", !.orders = @ \cup {"submitted"}]
  <2>1. s \in Cycle
    BY SentType
  <2>2. s.orders \cup {"submitted"} \in SUBSET OrderStatuses
    BY <2>1, CycleFields DEF OrderStatuses
  <2>3. d \in Cycle
    BY <2>1, <2>2, FieldUpdates DEF Steps
  <2>4. /\ d.seen = s.seen /\ d.period = s.period /\ d.mode = s.mode
        /\ d.step = "execute" /\ d.orders = s.orders \cup {"submitted"}
    BY <2>1 DEF Cycle
  <2>5. Sees(d, UsedPeriods, TakenPeriods)
    <3> HIDE DEF d
    <3>1. QED
      BY <1>1, <2>3, <2>4, SentRecord, AnswerSees
  <2>6. QED
    BY <1>1, <1>2, <2>5, EarnedLocally DEF OrderAccepted
<1>3. CASE OrderRejected(w)
  <2> DEFINE s == Sent(w, FALSE)
             d == [s EXCEPT !.step = "execute", !.skips = @ \cup {"rejected"}]
  <2>1. s \in Cycle
    BY SentType
  <2>2. s.skips \cup {"rejected"} \in SUBSET SkipReasons
    BY <2>1, CycleFields DEF SkipReasons
  <2>3. d \in Cycle
    BY <2>1, <2>2, FieldUpdates DEF Steps
  <2>4. /\ d.seen = s.seen /\ d.period = s.period /\ d.mode = s.mode
        /\ d.step = "execute" /\ d.orders = s.orders
    BY <2>1 DEF Cycle
  <2>5. Sees(d, UsedPeriods, TakenPeriods)
    <3> HIDE DEF d
    <3>1. QED
      BY <1>1, <2>3, <2>4, SentRecord, AnswerSees
  <2>6. QED
    BY <1>1, <1>3, <2>5, EarnedLocally DEF OrderRejected
<1>4. CASE OrderUnknown(w)
  <2>1. PICK alive \in BOOLEAN :
          Become(w, [Sent(w, alive) EXCEPT !.step = "writeCompleted", !.orders = @ \cup {"unknown"}])
    BY <1>4 DEF OrderUnknown
  <2> DEFINE s == Sent(w, alive)
             d == [s EXCEPT !.step = "writeCompleted", !.orders = @ \cup {"unknown"}]
  <2>2. s \in Cycle
    BY SentType
  <2>3. s.orders \cup {"unknown"} \in SUBSET OrderStatuses
    BY <2>2, CycleFields DEF OrderStatuses
  <2>4. d \in Cycle
    BY <2>2, <2>3, FieldUpdates DEF Steps
  <2>5. /\ d.seen = s.seen /\ d.period = s.period /\ d.mode = s.mode
        /\ d.step = "writeCompleted" /\ d.orders = s.orders \cup {"unknown"}
    BY <2>2 DEF Cycle
  <2>6. Sees(d, UsedPeriods, TakenPeriods)
    <3> HIDE DEF d
    <3>1. QED
      BY <1>1, <2>4, <2>5, SentRecord, AnswerSees
  <2>7. QED
    BY <1>1, <2>1, <2>6, EarnedLocally
<1>5. CASE OrderRaises(w)
  <2>1. PICK alive \in BOOLEAN : Become(w, Ended(Sent(w, alive), "respond", RaisedResult("live")))
    BY <1>5 DEF OrderRaises
  <2>2. Sent(w, alive) \in Cycle
    BY SentType
  <2>3. Sees(Ended(Sent(w, alive), "respond", RaisedResult("live")), UsedPeriods, TakenPeriods)
    BY <2>2, EndedSees DEF Concluded, RaisedResult
  <2>4. QED
    BY <1>1, <2>1, <2>3, EarnedLocally
<1>6. CASE OrderRefusedLocally(w) \/ StatusQueryRaises(w)
  BY <1>1, <1>6, RaiseEarned DEF OrderRefusedLocally, StatusQueryRaises
<1>7. QED
  BY <1>2, <1>3, <1>4, <1>5, <1>6 DEF Broker

(* What uses a period up is kept by every step of every cycle.             *)
LEMMA EarnedIsInductive ==
  ASSUME TypeOK, RecordsAreEarned, [Next]_vars
  PROVE  RecordsAreEarned'
<1> USE DEF store, history
<1>0. \A w \in Workers : /\ cyc[w] \in Cycle /\ Sees(cyc[w], UsedPeriods, TakenPeriods)
                         /\ cyc[w].period \in Periods /\ cyc[w].seen \in StoredStages
  BY CycleFields DEF TypeOK, RecordsAreEarned
<1>1. ASSUME NEW w \in Workers, Start(w) PROVE RecordsAreEarned'
  <2>1. PICK m \in CycleModes, p \in Periods, persist \in Persistence :
          StartCycle(w, m, p, persist)
    BY <1>1 DEF Start
  <2>2. \A s \in {"readLatest", "writePlanned", "execute"} :
          Sees([FreshCycle(m, p, persist) EXCEPT !.step = s], UsedPeriods, TakenPeriods)
    BY NothingSeen DEF FreshCycle, Sees, Concluded
  <2>3. QED
    BY <2>1, <2>2, EarnedLocally DEF StartCycle
<1>2. ASSUME NEW w \in Workers, ReadLatest(w) PROVE RecordsAreEarned'
  <2>1. latest' = latest /\ claim' = claim /\ quiet' = quiet
    BY <1>2 DEF ReadLatest
  <2>2. CASE Become(w, [cyc[w] EXCEPT !.step = "readClaim", !.seen = latest["live"][cyc[w].period]])
    <3> DEFINE d == [cyc[w] EXCEPT !.step = "readClaim", !.seen = latest["live"][cyc[w].period]]
    <3>1. /\ d.step = "readClaim" /\ d.seen = latest["live"][cyc[w].period]
          /\ d.period = cyc[w].period /\ d.mode = cyc[w].mode /\ d.orders = cyc[w].orders
      BY <1>0 DEF Cycle
    <3>2. IsDuplicateLiveRun(latest["live"][cyc[w].period]) => cyc[w].period \in UsedPeriods
      BY <1>0 DEF RecordsAreEarned
    <3>3. Sees(d, UsedPeriods, TakenPeriods)
      <4> HIDE DEF d
      <4>1. QED
        BY <1>0, <3>1, <3>2 DEF Sees, Concluded
    <3>4. QED
      BY <2>1, <2>2, <3>3, EarnedLocally
  <2>3. QED
    BY <1>2, <2>1, <2>2, RaiseEarned DEF ReadLatest
<1>3. ASSUME NEW w \in Workers, ReadClaim(w) PROVE RecordsAreEarned'
  <2>1. latest' = latest /\ claim' = claim /\ quiet' = quiet
    BY <1>3 DEF ReadClaim
  <2>2. CASE HasEffectiveClaim(claim[cyc[w].period]) /\ Return(w, SkippedResult(cyc[w].seen, FALSE))
    <3>1. cyc[w].period \in UsedPeriods
      BY <1>0, <2>2 DEF HasEffectiveClaim, UsedPeriods, Used
    <3>2. QED
      BY <1>0, <2>1, <2>2, <3>1, SkippedSees, EarnedLocally DEF Return
  <2>3. CASE IsDuplicateLiveRun(cyc[w].seen) /\ Go(w, "writeDuplicate")
    <3>1. Sees([cyc[w] EXCEPT !.step = "writeDuplicate"], UsedPeriods, TakenPeriods)
      BY <1>0, <2>3, GoSees DEF Concluded, Steps
    <3>2. QED
      BY <2>1, <2>3, <3>1, EarnedLocally DEF Go
  <2>4. CASE Go(w, "writePlanned")
    <3>1. Sees([cyc[w] EXCEPT !.step = "writePlanned"], UsedPeriods, TakenPeriods)
      BY <1>0, GoSees DEF Concluded, Steps
    <3>2. QED
      BY <2>1, <2>4, <3>1, EarnedLocally DEF Go
  <2>5. QED
    BY <1>3, <2>1, <2>2, <2>3, <2>4, RaiseEarned DEF ReadClaim
<1>4. ASSUME NEW w \in Workers, WriteDuplicate(w) PROVE RecordsAreEarned'
  <2>1. cyc[w].period \in UsedPeriods
    BY <1>0, <1>4 DEF WriteDuplicate, At, Sees
  <2>2. PICK failed \in BOOLEAN :
          Persisted(w, cyc[w].seen, failed) /\ Return(w, SkippedResult(cyc[w].seen, failed))
    BY <1>4 DEF WriteDuplicate
  <2>3. claim' = claim /\ quiet' = quiet
    BY <1>4 DEF WriteDuplicate
  <2>4. Sees(Ended(cyc[w], "notify", SkippedResult(cyc[w].seen, failed)),
             UsedPeriods, TakenPeriods)
    BY <1>0, <2>1, SkippedSees
  <2>5. QED
    BY <1>0, <2>1, <2>2, <2>3, <2>4, EarnedWrite DEF Return
<1>5. ASSUME NEW w \in Workers, WritePlanned(w) PROVE RecordsAreEarned'
  <2>1. PICK failed \in BOOLEAN :
          /\ Persisted(w, "ORDERS_PLANNED", failed)
          /\ Become(w, [cyc[w] EXCEPT !.step = "execute", !.persistError = failed])
    BY <1>5 DEF WritePlanned
  <2> DEFINE d == [cyc[w] EXCEPT !.step = "execute", !.persistError = failed]
  <2>2. /\ d.step = "execute" /\ d.seen = cyc[w].seen /\ d.period = cyc[w].period
        /\ d.mode = cyc[w].mode /\ d.orders = cyc[w].orders
    BY <1>0 DEF Cycle
  <2>3. Sees(d, UsedPeriods, TakenPeriods)
    <3> HIDE DEF d
    <3>1. QED
      BY <1>0, <2>2 DEF Sees, Concluded
  <2>4. ~IsDuplicateLiveRun("ORDERS_PLANNED") /\ "ORDERS_PLANNED" \in StoredStages
    BY DEF IsDuplicateLiveRun, LiveTerminalStages, StoredStages, Stages
  <2>5. claim' = claim /\ quiet' = quiet
    BY <1>5 DEF WritePlanned
  <2>6. QED
    BY <2>1, <2>3, <2>4, <2>5, EarnedWrite
<1>6. ASSUME NEW w \in Workers, NEW reason, SkipOrder(w, reason) PROVE RecordsAreEarned'
  <2> DEFINE d == [cyc[w] EXCEPT !.skips = @ \cup {reason}]
  <2>1. /\ d.step = "execute" /\ d.seen = cyc[w].seen /\ d.period = cyc[w].period
        /\ d.mode = cyc[w].mode /\ d.orders = cyc[w].orders
    BY <1>0, <1>6 DEF Cycle, SkipOrder, At
  <2>2. Sees(d, UsedPeriods, TakenPeriods)
    <3> HIDE DEF d
    <3>1. QED
      BY <1>0, <2>1 DEF Sees, Concluded
  <2>3. QED
    BY <1>6, <2>2, EarnedLocally DEF SkipOrder
<1>7. ASSUME NEW w \in Workers, PreviewOrder(w) PROVE RecordsAreEarned'
  <2> DEFINE d == [cyc[w] EXCEPT !.orders = @ \cup {"previewed"}]
  <2>1. /\ d.step = "execute" /\ d.seen = cyc[w].seen /\ d.period = cyc[w].period
        /\ d.mode = "dry"
    BY <1>0, <1>7 DEF Cycle, PreviewOrder, At
  <2>2. Sees(d, UsedPeriods, TakenPeriods)
    <3> HIDE DEF d
    <3>1. QED
      BY <1>0, <2>1 DEF Sees, Concluded
  <2>3. QED
    BY <1>7, <2>2, EarnedLocally DEF PreviewOrder
<1>8. ASSUME NEW w \in Workers, PlaceOrder(w) PROVE RecordsAreEarned'
  <2>1. latest' = latest /\ claim' = claim /\ quiet' = quiet
    BY <1>8 DEF PlaceOrder
  <2>2. ASSUME NEW s \in {"submit", "claim"}, Go(w, s) PROVE RecordsAreEarned'
    <3>1. Sees([cyc[w] EXCEPT !.step = s], UsedPeriods, TakenPeriods)
      BY <1>0, GoSees DEF Concluded, Steps
    <3>2. QED
      BY <2>1, <2>2, <3>1, EarnedLocally DEF Go
  <2>3. QED
    BY <1>8, <2>1, <2>2, RaiseEarned DEF PlaceOrder
<1>9. ASSUME NEW w \in Workers, ReadBlocked(w) PROVE RecordsAreEarned'
  <2>1. latest' = latest /\ claim' = claim /\ quiet' = quiet
    BY <1>9 DEF ReadBlocked
  <2>2. cyc[w].period \in UsedPeriods
    BY <1>0, <1>9, TakenIsUsed DEF ReadBlocked, At, Sees
  <2>3. QED
    BY <1>0, <1>9, <2>1, <2>2, SkippedSees, EarnedLocally, RaiseEarned DEF ReadBlocked, Return
<1>10. ASSUME NEW w \in Workers, FinishExecution(w) PROVE RecordsAreEarned'
  <2>1. Sees([cyc[w] EXCEPT !.step = "writeCompleted"], UsedPeriods, TakenPeriods)
    BY <1>0, GoSees DEF Concluded, Steps
  <2>2. QED
    BY <1>10, <2>1, EarnedLocally DEF FinishExecution, Go
<1>11. ASSUME NEW w \in Workers, Notify(w) PROVE RecordsAreEarned'
  <2> DEFINE d == [cyc[w] EXCEPT !.step = "respond"]
  <2>1. /\ d.step = "respond" /\ d.seen = cyc[w].seen /\ d.period = cyc[w].period
        /\ d.mode = cyc[w].mode /\ d.orders = cyc[w].orders /\ d.result = cyc[w].result
    BY <1>0 DEF Cycle
  <2>2. Sees(d, UsedPeriods, TakenPeriods)
    <3> HIDE DEF d
    <3>1. QED
      BY <1>0, <1>11, <2>1 DEF Sees, Concluded, Notify, At
  <2>3. latest' = latest /\ claim' = claim /\ quiet' = quiet /\ Go(w, "respond")
    BY <1>11 DEF Notify
  <2>4. QED
    BY <2>2, <2>3, EarnedLocally DEF Go
<1>12. ASSUME NEW w \in Workers, Respond(w) \/ Crash(w) PROVE RecordsAreEarned'
  <2>1. Forget(w)
    BY <1>12 DEF Respond, Crash
  <2>2. Sees(IdleCycle, UsedPeriods, TakenPeriods)
    BY NothingSeen DEF IdleCycle, FreshCycle, Sees, Concluded
  <2>3. QED
    BY <2>1, <2>2, EarnedLocally DEF Forget
<1>13. CASE Recover \/ UNCHANGED vars
  BY <1>13, UsedStays DEF Recover, vars, RecordsAreEarned
<1>14. QED
  BY <1>1, <1>2, <1>3, <1>4, <1>5, <1>6, <1>7, <1>8, <1>9, <1>10, <1>11, <1>12, <1>13,
     AcquireEarned, BrokerEarned, CompletedEarned
  DEF Next, Proceed

(* A terminal stage in latest.json is only ever left in a used-up period,  *)
(* and a cycle that goes by one, or by a claim it found, is in one: what   *)
(* makes is_duplicate_live_run safe to believe.                            *)
THEOREM RecordsEarned == Spec => []RecordsAreEarned
<1>1. Init => RecordsAreEarned
  <2>1. \A S, T : Sees(IdleCycle, S, T)
    BY NothingSeen DEF IdleCycle, FreshCycle, Sees, Concluded
  <2>2. QED
    BY <2>1, NothingSeen DEF Init, RecordsAreEarned, Modes
<1>2. QED
  BY <1>1, EarnedIsInductive, TypeCorrect, PTL DEF Spec

NoLegacyClaim == \A p \in Periods : claim[p] # "legacy"

LEMMA ClaimValues ==
  ASSUME TypeOK, [Next]_vars
  PROVE  \A p \in Periods : claim'[p] \in {claim[p], "v2"}
<1>1. ASSUME NEW w \in Workers, AcquireClaim(w)
      PROVE  \A p \in Periods : claim'[p] \in {claim[p], "v2"}
  <2>1. claim' = claim \/ claim' = [claim EXCEPT ![cyc[w].period] = "v2"]
    BY <1>1 DEF AcquireClaim
  <2>2. QED
    BY <2>1 DEF TypeOK
<1>2. \/ claim' = claim \/ \E w \in Workers : AcquireClaim(w)
  BY DEF Next, Start, Proceed, Broker, StartCycle, ReadLatest, ReadClaim, WriteDuplicate,
         WritePlanned, PlaceOrder, ReadBlocked, FinishExecution, WriteCompleted, Notify,
         PreviewOrder, SkipOrder, OrderAccepted, OrderRejected, OrderUnknown, OrderRaises,
         OrderRefusedLocally, StatusQueryRaises, Respond, Crash, Forget, Recover, vars, store
<1>3. QED
  BY <1>1, <1>2

(* With no claim of an earlier release in the store, a cycle skips itself  *)
(* only in a period whose claim is effective or that a live cycle found    *)
(* quiet (run_strategy_cycle's two duplicate checks and the blocked claim).*)
THEOREM DuplicatesAreJustified ==
  ASSUME "legacy" \notin OldClaims
  PROVE  Spec => []DuplicateIsJustified
<1>1. Init => NoLegacyClaim
  BY DEF Init, NoLegacyClaim
<1>2. TypeOK /\ NoLegacyClaim /\ [Next]_vars => NoLegacyClaim'
  BY ClaimValues DEF NoLegacyClaim
<1>3. TypeOK /\ RecordsAreEarned /\ NoLegacyClaim => DuplicateIsJustified
  <2> SUFFICES ASSUME TypeOK, RecordsAreEarned, NoLegacyClaim, NEW w \in Workers,
                      cyc[w].step \in Concluded, cyc[w].result.outcome = "skipped"
               PROVE  HasEffectiveClaim(claim[cyc[w].period]) \/ cyc[w].period \in quiet
    BY DEF DuplicateIsJustified, Concluded
  <2>1. Used(cyc[w].period) /\ cyc[w].period \in Periods
    BY DEF RecordsAreEarned, Sees, UsedPeriods
  <2>2. claim[cyc[w].period] \in {"none", "v2"}
    BY <2>1 DEF NoLegacyClaim, TypeOK, Claims
  <2>3. QED
    BY <2>1, <2>2 DEF Used, HasEffectiveClaim
<1>4. QED
  BY <1>1, <1>2, <1>3, TypeCorrect, RecordsEarned, PTL DEF Spec

-----------------------------------------------------------------------------
(* The cycles implement the one-shot right of SubmissionRight: what the    *)
(* right of a period is, from who remembers its claim.                     *)

Holds(w, p) == cyc[w].acquired /\ cyc[w].period = p

LEMMA RightIsFunction == rightBar = [p \in Periods |-> rightBar[p]]
BY DEF rightBar

LEMMA HolderIsUnique ==
  ASSUME ClaimHeldByItsSender, NEW p, NEW w \in Workers, Holds(w, p)
  PROVE  Holders(p) = {w}
BY DEF ClaimHeldByItsSender, Holders, Holds

LEMMA HeldRight ==
  ASSUME ClaimHeldByItsSender, NEW p \in Periods, NEW w \in Workers, Holds(w, p)
  PROVE  rightBar[p] = w
<1>1. Holders(p) = {w}
  BY HolderIsUnique
<1>2. (CHOOSE v \in Workers : v \in Holders(p)) = w
  BY <1>1
<1>3. QED
  BY <1>1, <1>2 DEF rightBar

LEMMA UnheldRight ==
  ASSUME NEW p \in Periods, \A w \in Workers : ~Holds(w, p)
  PROVE  rightBar[p] = IF claim[p] = "none" THEN "free" ELSE "used"
<1>1. Holders(p) = {}
  BY DEF Holders, Holds
<1>2. QED
  BY <1>1 DEF rightBar

(* The same of the state after a step. *)
LEMMA HeldRightNext ==
  ASSUME ClaimHeldByItsSender', NEW p \in Periods, NEW w \in Workers, Holds(w, p)'
  PROVE  rightBar'[p] = w
<1>1. Holders(p)' = {w}
  BY DEF ClaimHeldByItsSender, Holders, Holds
<1>2. (CHOOSE v \in Workers : v \in Holders(p)') = w
  BY <1>1
<1>3. QED
  BY <1>1, <1>2 DEF rightBar

LEMMA UnheldRightNext ==
  ASSUME NEW p \in Periods, \A w \in Workers : ~Holds(w, p)'
  PROVE  rightBar'[p] = IF claim'[p] = "none" THEN "free" ELSE "used"
<1>1. Holders(p)' = {}
  BY DEF Holders, Holds
<1>2. QED
  BY <1>1 DEF rightBar

(* A period whose holder and claim stay keeps its right. *)
LEMMA RightStays ==
  ASSUME ClaimHeldByItsSender, ClaimHeldByItsSender', NEW p \in Periods, claim'[p] = claim[p],
         \A w \in Workers : Holds(w, p)' <=> Holds(w, p)
  PROVE  rightBar'[p] = rightBar[p]
<1>1. CASE \E w \in Workers : Holds(w, p)
  BY <1>1, HeldRight, HeldRightNext
<1>2. CASE \A w \in Workers : ~Holds(w, p)
  BY <1>2, UnheldRight, UnheldRightNext
<1>3. QED
  BY <1>1, <1>2

(* The right of one period changes. *)
LEMMA RightChanges ==
  ASSUME NEW p \in Periods, NEW x, rightBar'[p] = x,
         \A q \in Periods : q # p => rightBar'[q] = rightBar[q]
  PROVE  rightBar' = [rightBar EXCEPT ![p] = x]
<1>1. rightBar' = [q \in Periods |-> rightBar'[q]]
  BY DEF rightBar
<1>2. [rightBar EXCEPT ![p] = x] = [q \in Periods |-> IF q = p THEN x ELSE rightBar[q]]
  BY RightIsFunction
<1>3. QED
  BY <1>1, <1>2

LEMMA KeepsHolders ==
  ASSUME NEW w \in Workers, KeepsClaim(w)
  PROVE  \A v \in Workers, p \in Periods : Holds(v, p)' <=> Holds(v, p)
BY DEF KeepsClaim, Holds

LEMMA RightUnchanged ==
  ASSUME \A p \in Periods : rightBar'[p] = rightBar[p]
  PROVE  rightBar' = rightBar
<1>1. rightBar' = [q \in Periods |-> rightBar'[q]]
  BY DEF rightBar
<1>2. QED
  BY <1>1, RightIsFunction

(* Creating the claim takes the right, or loses it when the cycle does not *)
(* learn that it did.                                                      *)
LEMMA AcquireRefines ==
  ASSUME TypeOK, ClaimHeldByItsSender, ClaimHeldByItsSender', NEW w \in Workers, AcquireClaim(w)
  PROVE  [Right!Next]_<<rightBar, sender>>
<1> DEFINE p == cyc[w].period
<1>1. cyc[w] \in Cycle /\ p \in Periods /\ sender' = sender
  BY CycleFields DEF TypeOK, AcquireClaim, history
<1>2. \/ /\ claim[p] = "none" /\ claim' = [claim EXCEPT ![p] = "v2"]
         /\ Become(w, [cyc[w] EXCEPT !.step = "submit", !.acquired = TRUE])
      \/ claim[p] = "none" /\ claim' = [claim EXCEPT ![p] = "v2"] /\ KeepsClaim(w)
      \/ claim' = claim /\ KeepsClaim(w)
  BY GoKeeps, RaiseKeeps DEF AcquireClaim, Steps
<1>3. CASE claim' = claim /\ KeepsClaim(w)
  <2>1. rightBar' = rightBar
    BY <1>3, KeepsHolders, RightStays, RightUnchanged
  <2>2. QED
    BY <1>1, <2>1
<1>4. CASE claim[p] = "none" /\ claim' = [claim EXCEPT ![p] = "v2"]
  <2>1. \A q \in Periods : claim'[q] = IF q = p THEN "v2" ELSE claim[q]
    BY <1>4 DEF TypeOK
  <2>2. \A v \in Workers : ~Holds(v, p)
    BY <1>4 DEF ClaimHeldByItsSender, Holds
  <2>3. rightBar[p] = "free"
    BY <1>1, <1>4, <2>2, UnheldRight
  <2>4. CASE KeepsClaim(w)
    <3>1. rightBar'[p] = "used"
      BY <1>1, <2>1, <2>2, <2>4, KeepsHolders, UnheldRightNext
    <3>2. \A q \in Periods : q # p => rightBar'[q] = rightBar[q]
      BY <2>1, <2>4, KeepsHolders, RightStays
    <3>3. rightBar' = [rightBar EXCEPT ![p] = "used"]
      BY <1>1, <3>1, <3>2, RightChanges
    <3>4. Right!Lose(p)
      BY <1>1, <2>3, <3>3 DEF Right!Lose
    <3>5. QED
      BY <1>1, <3>4 DEF Right!Next
  <2>5. CASE Become(w, [cyc[w] EXCEPT !.step = "submit", !.acquired = TRUE])
    <3>1. /\ cyc'[w] = [cyc[w] EXCEPT !.step = "submit", !.acquired = TRUE]
          /\ \A v \in Workers \ {w} : cyc'[v] = cyc[v]
      BY <2>5, BecomeFacts
    <3>2. cyc'[w].acquired = TRUE /\ cyc'[w].period = p
      BY <1>1, <3>1 DEF Cycle
    <3>3. rightBar'[p] = w
      BY <1>1, <3>2, HeldRightNext DEF Holds
    <3>4. \A q \in Periods : q # p => rightBar'[q] = rightBar[q]
      <4>1. SUFFICES ASSUME NEW q \in Periods, q # p PROVE rightBar'[q] = rightBar[q]
        OBVIOUS
      <4>2. \A v \in Workers : Holds(v, q)' <=> Holds(v, q)
        BY <3>1, <3>2, <4>1 DEF Holds
      <4>3. QED
        BY <2>1, <4>1, <4>2, RightStays
    <3>5. rightBar' = [rightBar EXCEPT ![p] = w]
      BY <1>1, <3>3, <3>4, RightChanges
    <3>6. Right!Take(w, p)
      BY <1>1, <2>3, <3>5 DEF Right!Take
    <3>7. QED
      BY <1>1, <3>6 DEF Right!Next
  <2>6. QED
    BY <1>2, <1>3, <1>4, <2>4, <2>5
<1>5. QED
  BY <1>2, <1>3, <1>4

(* The end of a cycle that remembers a claim gives its right up.           *)
LEMMA ForgetRefines ==
  ASSUME TypeOK, ClaimHeldByItsSender, ClaimHeldByItsSender', NEW w \in Workers, Forget(w)
  PROVE  [Right!Next]_<<rightBar, sender>>
<1>0. PICK p \in Periods : p = cyc[w].period
  BY CycleFields DEF TypeOK
<1>1. cyc'[w] = IdleCycle /\ \A v \in Workers \ {w} : cyc'[v] = cyc[v]
  BY BecomeFacts DEF Forget
<1>2. IdleCycle.acquired = FALSE
  BY DEF IdleCycle, FreshCycle
<1>3. claim' = claim
  BY DEF Forget, store
<1>4. sender' = [q \in Periods |-> IF sender[q] = w THEN "past" ELSE sender[q]]
  BY DEF Forget
<1>5. \A v \in Workers, q \in Periods : Holds(v, q)' <=> v # w /\ Holds(v, q)
  BY <1>1, <1>2 DEF Holds
<1>6. CASE cyc[w].acquired
  <2>1. Holds(w, p) /\ rightBar[p] = w
    BY <1>0, <1>6, HeldRight DEF Holds
  <2>2. \A v \in Workers : ~Holds(v, p)'
    BY <1>0, <1>5, <1>6 DEF ClaimHeldByItsSender, Holds
  <2>3. claim[p] # "none"
    BY <1>0, <1>6 DEF ClaimHeldByItsSender
  <2>4. rightBar'[p] = "used"
    BY <1>3, <2>2, <2>3, UnheldRightNext
  <2>5. \A q \in Periods : q # p => rightBar'[q] = rightBar[q]
    <3>1. \A q \in Periods : q # p => ~Holds(w, q)
      BY <1>0 DEF Holds
    <3>2. QED
      BY <1>3, <1>5, <3>1, RightStays
  <2>6. rightBar' = [rightBar EXCEPT ![p] = "used"]
    BY <1>3, <2>4, <2>5, RightChanges
  <2>7. \A q \in Periods : sender[q] = w => q = p
    BY <1>0 DEF ClaimHeldByItsSender
  <2>8. sender' = [sender EXCEPT ![p] = IF @ = w THEN "past" ELSE @]
    BY <1>3, <1>4, <2>7 DEF TypeOK
  <2>9. Right!GiveUp(w, p)
    BY <2>1, <2>6, <2>8 DEF Right!GiveUp
  <2>10. QED
    BY <1>3, <2>9 DEF Right!Next
<1>7. CASE ~cyc[w].acquired
  <2>1. \A q \in Periods : ~Holds(w, q)
    BY <1>7 DEF Holds
  <2>2. rightBar' = rightBar
    BY <1>3, <1>5, <2>1, RightStays, RightUnchanged
  <2>3. \A q \in Periods : sender[q] # w
    BY <1>7 DEF ClaimHeldByItsSender
  <2>4. sender' = sender
    BY <1>4, <2>3 DEF TypeOK
  <2>5. QED
    BY <2>2, <2>4
<1>8. QED
  BY <1>6, <1>7

(* The live retry boundary refines the one-shot submission right: creating *)
(* the claim takes the right, a request is a send of its holder, the end   *)
(* of the cycle gives it up, and every other step of every cycle leaves    *)
(* rights and senders alone (acquire_submission_claim and the gates before *)
(* it in run_strategy_cycle).                                              *)
THEOREM CyclesImplementRight == Spec => ImplementsSubmissionRight
<1>1. Init => Right!Init
  <2> SUFFICES ASSUME Init PROVE Right!Init
    OBVIOUS
  <2>1. \A w \in Workers, p \in Periods : ~Holds(w, p)
    BY DEF Init, IdleCycle, FreshCycle, Holds
  <2>2. \A p \in Periods : rightBar[p] \in {"free", "used"}
    BY <2>1, UnheldRight
  <2>3. rightBar \in [Periods -> {"free", "used"}]
    BY <2>2, RightIsFunction
  <2>4. QED
    BY <2>3 DEF Init, Right!Init
<1>2. ASSUME TypeOK, ClaimHeldByItsSender, ClaimHeldByItsSender', [Next]_vars
      PROVE  [Right!Next]_<<rightBar, sender>>
  <2>1. ASSUME NEW w \in Workers, Start(w) PROVE [Right!Next]_<<rightBar, sender>>
    <3>1. PICK m \in CycleModes, q \in Periods, persist \in Persistence :
            StartCycle(w, m, q, persist)
      BY <2>1 DEF Start
    <3>2. /\ cyc'[w].acquired = FALSE /\ \A v \in Workers \ {w} : cyc'[v] = cyc[v]
      BY <1>2, <3>1, BecomeFacts DEF StartCycle, FreshCycle
    <3>3. ~cyc[w].acquired /\ claim' = claim /\ sender' = sender
      BY <1>2, <3>1 DEF StartCycle, ClaimHeldByItsSender, store, history
    <3>4. \A v \in Workers, p \in Periods : Holds(v, p)' <=> Holds(v, p)
      BY <3>2, <3>3 DEF Holds
    <3>5. rightBar' = rightBar
      BY <1>2, <3>3, <3>4, RightStays, RightUnchanged
    <3>6. QED
      BY <3>3, <3>5
  <2>2. ASSUME NEW w \in Workers, PassesBy(w) PROVE [Right!Next]_<<rightBar, sender>>
    <3>1. rightBar' = rightBar
      BY <1>2, <2>2, KeepsHolders, RightStays, RightUnchanged DEF PassesBy
    <3>2. QED
      BY <2>2, <3>1 DEF PassesBy
  <2>3. ASSUME NEW w \in Workers, Requests(w) PROVE [Right!Next]_<<rightBar, sender>>
    <3>1. rightBar' = rightBar
      BY <1>2, <2>3, KeepsHolders, RightStays, RightUnchanged DEF Requests
    <3>2. cyc[w].period \in Periods /\ Holds(w, cyc[w].period)
      BY <1>2, <2>3, CycleFields DEF TypeOK, Requests, ClaimHeldByItsSender, Holds
    <3>3. rightBar[cyc[w].period] = w
      BY <1>2, <3>2, HeldRight
    <3>4. Right!Send(w, cyc[w].period)
      BY <2>3, <3>1, <3>3 DEF Requests, Request, Right!Send
    <3>5. QED
      BY <3>2, <3>4 DEF Right!Next
  <2>4. ASSUME NEW w \in Workers, AcquireClaim(w) \/ Forget(w)
        PROVE  [Right!Next]_<<rightBar, sender>>
    BY <1>2, <2>4, AcquireRefines, ForgetRefines
  <2>5. CASE cyc' = cyc /\ claim' = claim /\ sender' = sender
    BY <2>5 DEF rightBar, Holders
  <2>6. QED
    BY <1>2, <2>1, <2>2, <2>3, <2>4, <2>5, CycleSteps
<1>3. QED
  BY <1>1, <1>2, TypeCorrect, ClaimHeld, PTL DEF Spec, ImplementsSubmissionRight, Right!Spec
-----------------------------------------------------------------------------
(* One cycle after another, in one period, with the unified contract and a *)
(* store: what a further funding notice would need.                        *)

OneAtATime ==
  /\ Unified
  /\ MaxActive <= 1
  /\ Persistence \subseteq {TRUE}
  /\ "legacy" \notin OldClaims
  /\ \A p, q \in Periods : p = q

Terminal(p) == IsDuplicateLiveRun(latest["live"][p])
Claimed(p) == claim[p] = "v2"
Reopened(p) == notices[p] # 0 /\ ~incident

Working == {"writePlanned", "execute", "claim", "submit", "writeCompleted"}

(* What a live cycle knows of its period when nobody runs beside it: it    *)
(* works only in a period with no terminal record, no claim but its own,   *)
(* and no incident closed after a notice; a routine end leaves a terminal  *)
(* record, and a skipped cycle found that or the claim.                    *)
TurnFits(c, terminal, claimed, reopened) ==
  /\ c.step # "idle" => c.persist
  /\ c.step = "readClaim" => (IsDuplicateLiveRun(c.seen) <=> terminal)
  /\ c.step = "writeDuplicate" => terminal /\ IsDuplicateLiveRun(c.seen)
  /\ c.step \in Working /\ c.mode = "live" =>
       ~terminal /\ ~reopened /\ (claimed => c.acquired)
  /\ c.step = "readBlocked" => claimed
  /\ c.step = "notify" /\ c.result.mode = "live" =>
       /\ c.result.outcome = "skipped" => terminal \/ claimed
       /\ c.result.outcome = "completed" =>
            ~reopened /\ (CycleKind(c.result) = "routine_cycle" => terminal)

TurnsFit ==
  /\ \A v, w \in Workers : v # w => cyc[v].step = "idle" \/ cyc[w].step = "idle"
  /\ \A p \in Periods : notices[p] <= 1 /\ claim[p] # "legacy"
  /\ \A p \in Periods : Reopened(p) => Terminal(p) \/ Claimed(p)
  /\ \A w \in Workers, p \in Periods :
       TurnFits(cyc[w], Terminal(p), Claimed(p), Reopened(p))

LEMMA IdleFits ==
  ASSUME NEW c, c.step = "idle", NEW x, NEW y, NEW z
  PROVE  TurnFits(c, x, y, z)
BY DEF TurnFits, Working

(* Whoever takes a step is the only one in progress. *)
LEMMA OthersIdle ==
  ASSUME TurnsFit, NEW w \in Workers, cyc[w].step # "idle"
  PROVE  \A v \in Workers \ {w} : cyc[v].step = "idle"
BY DEF TurnsFit

LEMMA TurnStep ==
  ASSUME TypeOK, TurnsFit, NEW w \in Workers, NEW c, Become(w, c),
         \A v \in Workers \ {w} : cyc[v].step = "idle",
         \A p \in Periods : notices'[p] <= 1 /\ claim'[p] # "legacy",
         \A p \in Periods : Reopened(p)' => Terminal(p)' \/ Claimed(p)',
         \A p \in Periods : TurnFits(c, Terminal(p)', Claimed(p)', Reopened(p)')
  PROVE  TurnsFit'
<1>1. cyc'[w] = c /\ \A v \in Workers \ {w} : cyc'[v] = cyc[v]
  BY BecomeFacts
<1>2. \A v \in Workers \ {w} : cyc'[v].step = "idle"
  BY <1>1
<1>3. ASSUME NEW v \in Workers, NEW p \in Periods
      PROVE  TurnFits(cyc'[v], Terminal(p)', Claimed(p)', Reopened(p)')
  BY <1>1, <1>2, IdleFits
<1>4. QED
  BY <1>2, <1>3 DEF TurnsFit

(* The step of an action that leaves the period's record, its claim and    *)
(* the incident alone.                                                     *)
LEMMA TurnLocally ==
  ASSUME TypeOK, TurnsFit, NEW w \in Workers, NEW c, Become(w, c),
         \A v \in Workers \ {w} : cyc[v].step = "idle",
         latest'["live"] = latest["live"], claim' = claim,
         incident' = incident, notices' = notices,
         \A p \in Periods : TurnFits(c, Terminal(p), Claimed(p), Reopened(p))
  PROVE  TurnsFit'
<1>1. \A p \in Periods : /\ Terminal(p)' = Terminal(p) /\ Claimed(p)' = Claimed(p)
                         /\ Reopened(p)' = Reopened(p)
  BY DEF Terminal, Claimed, Reopened
<1>2. \A p \in Periods : TurnFits(c, Terminal(p)', Claimed(p)', Reopened(p)')
  BY <1>1
<1>3. \A p \in Periods : Reopened(p)' => Terminal(p)' \/ Claimed(p)'
  BY <1>1 DEF TurnsFit
<1>4. QED
  BY <1>2, <1>3, TurnStep DEF TurnsFit

LEMMA EndedPersists ==
  ASSUME NEW c \in Cycle, NEW s, NEW r
  PROVE  Ended(c, s, r).persist = c.persist
BY DEF Ended, Cycle

LEMMA RaisedFits ==
  ASSUME NEW c \in Cycle, c.persist, NEW r, NEW x, NEW y, NEW z
  PROVE  TurnFits(Ended(c, "respond", r), x, y, z)
BY EndedRecord, EndedPersists DEF TurnFits, Working

LEMMA SkippedFits ==
  ASSUME NEW c \in Cycle, c.persist, NEW seen, NEW e, NEW x, NEW y, NEW z, x \/ y
  PROVE  TurnFits(Ended(c, "notify", SkippedResult(seen, e)), x, y, z)
<1>1. SkippedResult(seen, e).outcome = "skipped"
  BY DEF SkippedResult
<1>2. QED
  BY <1>1, EndedRecord, EndedPersists DEF TurnFits, Working

(* A cycle that works goes on working, its orders or skips one more.       *)
LEMMA WorkFits ==
  ASSUME NEW c, NEW d, NEW x, NEW y, NEW z, TurnFits(c, x, y, z), c.step \in Working,
         d.step \in Working, d.persist = c.persist, d.mode = c.mode, d.acquired = c.acquired
  PROVE  TurnFits(d, x, y, z)
BY DEF TurnFits, Working

LEMMA GoWorks ==
  ASSUME NEW c \in Cycle, NEW x, NEW y, NEW z, TurnFits(c, x, y, z), c.step \in Working,
         NEW s \in Working
  PROVE  TurnFits([c EXCEPT !.step = s], x, y, z)
<1> DEFINE d == [c EXCEPT !.step = s]
<1>1. d.step = s /\ d.persist = c.persist /\ d.mode = c.mode /\ d.acquired = c.acquired
  BY DEF Cycle
<1> HIDE DEF d
<1>2. TurnFits(d, x, y, z)
  BY <1>1, WorkFits
<1>3. QED
  BY <1>2 DEF d

LEMMA SentPersists ==
  ASSUME TypeOK, NEW w \in Workers, NEW alive \in BOOLEAN
  PROVE  Sent(w, alive).persist = cyc[w].persist
BY DEF Sent, Cycle, TypeOK

(* A routine end: nothing was blocked, nothing is pending, and the record  *)
(* was written, with a terminal stage.                                     *)
LEMMA RoutineIsTerminal ==
  ASSUME NEW orders \in SUBSET OrderStatuses, NEW skips \in SUBSET SkipReasons,
         NEW claimed \in BOOLEAN, NEW e \in BOOLEAN,
         CycleKind(CompletedResult("live", orders, skips, claimed, e)) = "routine_cycle"
  PROVE  ~e /\ IsDuplicateLiveRun(CycleStage("live", orders, skips))
<1> DEFINE r == CompletedResult("live", orders, skips, claimed, e)
<1>1. r.outcome = "completed" /\ r.orders = orders /\ r.skips = skips /\ r.persistError = e
  BY DEF CompletedResult
<1> HIDE DEF r
<1>2. CycleKind(r) = "routine_cycle"
  BY DEF r
<1>3. ~Blocked(r) /\ ~PendingReconciliation(r.orders) /\ ~HasError(r)
  BY <1>2 DEF CycleKind
<1>4. ~e
  BY <1>1, <1>3 DEF HasError
<1>5. Blocking(skips) = {} /\ ~PendingReconciliation(orders)
  BY <1>1, <1>3 DEF Blocked
<1>6. CycleStage("live", orders, skips) \in {"SUBMITTED", "NO_ACTION"}
  BY <1>5 DEF CycleStage, ResolveStage
<1>7. QED
  BY <1>4, <1>6 DEF IsDuplicateLiveRun, LiveTerminalStages

LEMMA AlonePersists ==
  ASSUME TypeOK, RequestsAreRecorded, TurnsFit, NEW w \in Workers, cyc[w].step # "idle"
  PROVE  /\ cyc[w] \in Cycle /\ Recorded(cyc[w]) /\ cyc[w].persist
         /\ cyc[w].mode \in Modes /\ cyc[w].period \in Periods
         /\ \A v \in Workers \ {w} : cyc[v].step = "idle"
         /\ \A p \in Periods : TurnFits(cyc[w], Terminal(p), Claimed(p), Reopened(p))
<1>1. \A p \in Periods : TurnFits(cyc[w], Terminal(p), Claimed(p), Reopened(p))
  BY DEF TurnsFit
<1>2. cyc[w] \in Cycle /\ cyc[w].mode \in Modes /\ cyc[w].period \in Periods
  BY CycleFields DEF TypeOK
<1>3. cyc[w].persist
  BY <1>1, <1>2 DEF TurnFits
<1>4. QED
  BY <1>1, <1>2, <1>3, OthersIdle DEF RequestsAreRecorded

LEMMA StartTurn ==
  ASSUME OneAtATime, TypeOK, TurnsFit, NEW w \in Workers, Start(w)
  PROVE  TurnsFit'
<1>1. PICK m \in CycleModes, p \in Periods, persist \in Persistence : StartCycle(w, m, p, persist)
  BY DEF Start
<1>2. persist = TRUE
  BY DEF OneAtATime
<1>3. PICK s \in {"readLatest", "writePlanned"} :
        /\ Become(w, [FreshCycle(m, p, persist) EXCEPT !.step = s])
        /\ m = "live" => s = "readLatest"
  BY <1>1, <1>2 DEF StartCycle
<1> DEFINE d == [FreshCycle(m, p, persist) EXCEPT !.step = s]
<1>4. d.step = s /\ d.persist = TRUE /\ d.mode = m
  BY <1>2 DEF FreshCycle
<1>5. \A v \in Workers : cyc[v].step = "idle"
  <2>1. Cardinality(Active) < 1
    <3>1. Cardinality(Active) < MaxActive /\ MaxActive <= 1 /\ MaxActive \in Nat
      BY <1>1, BoundsAssumption DEF StartCycle, OneAtATime
    <3>2. MaxActive = 0 \/ MaxActive = 1
      BY <3>1
    <3>3. ASSUME NEW v \in Active PROVE Active = {v}
      BY <3>3 DEF Active, TurnsFit
    <3>4. Active = {} \/ \E v \in Active : Active = {v}
      BY <3>3
    <3>5. Cardinality(Active) \in {0, 1}
      <4>1. CASE Active = {}
        BY <4>1, FS_EmptySet
      <4>2. ASSUME NEW v \in Active, Active = {v} PROVE Cardinality(Active) = 1
        BY <4>2, FS_Singleton
      <4>3. QED
        BY <3>4, <4>1, <4>2
    <3>6. QED
      BY <3>1, <3>2, <3>5
  <2>2. ASSUME NEW v \in Active PROVE FALSE
    <3>1. Active = {v}
      BY <2>2 DEF Active, TurnsFit
    <3>2. Cardinality(Active) = 1
      BY <3>1, FS_Singleton
    <3>3. QED
      BY <2>1, <3>2
  <2>3. QED
    BY <2>2 DEF Active
<1>6. \A q \in Periods : TurnFits(d, Terminal(q), Claimed(q), Reopened(q))
  <2> HIDE DEF d
  <2>1. QED
    BY <1>3, <1>4 DEF TurnFits, Working
<1>7. latest' = latest /\ claim' = claim /\ incident' = incident /\ notices' = notices
  BY <1>1 DEF StartCycle, store, history
<1>8. QED
  BY <1>3, <1>5, <1>6, <1>7, TurnLocally

(* The broker's answers and exceptions keep a cycle at work or end it.     *)
LEMMA BrokerTurn ==
  ASSUME TypeOK, RequestsAreRecorded, TurnsFit, NEW w \in Workers, Broker(w)
  PROVE  TurnsFit'
<1> DEFINE c == cyc[w]
<1> DEFINE Still == /\ latest' = latest /\ claim' = claim /\ incident' = incident
                    /\ notices' = notices /\ c.step \in {"submit", "execute"}
<1>1. Still
  <2>1. OrderAccepted(w) => Still
    BY DEF OrderAccepted, At, store
  <2>2. OrderRejected(w) => Still
    BY DEF OrderRejected, At, store
  <2>3. OrderUnknown(w) => Still
    BY DEF OrderUnknown, At, store
  <2>4. OrderRaises(w) => Still
    BY DEF OrderRaises, At, store
  <2>5. OrderRefusedLocally(w) \/ StatusQueryRaises(w) => Still
    BY DEF OrderRefusedLocally, StatusQueryRaises, At, store, history
  <2> HIDE DEF Still
  <2>6. QED
    BY <2>1, <2>2, <2>3, <2>4, <2>5 DEF Broker
<1>2. /\ c \in Cycle /\ c.persist /\ \A v \in Workers \ {w} : cyc[v].step = "idle"
      /\ \A p \in Periods : TurnFits(c, Terminal(p), Claimed(p), Reopened(p))
  BY <1>1, AlonePersists
<1>3. ASSUME NEW d, Become(w, d), d.step \in Working, d.persist = c.persist,
             d.mode = c.mode, d.acquired = c.acquired
      PROVE  TurnsFit'
  <2>1. c.step \in Working
    BY <1>1 DEF Working
  <2>2. \A p \in Periods : TurnFits(d, Terminal(p), Claimed(p), Reopened(p))
    BY <1>2, <1>3, <2>1, WorkFits
  <2>3. QED
    BY <1>1, <1>2, <1>3, <2>2, TurnLocally
<1>4. CASE OrderAccepted(w)
  <2> DEFINE s == Sent(w, TRUE)
             d == [s EXCEPT !.step = "execute", !.orders = @ \cup {"submitted"}]
  <2>1. s \in Cycle
    BY SentType
  <2>2. /\ d.persist = s.persist /\ d.mode = s.mode /\ d.acquired = s.acquired
        /\ d.step = "execute"
    BY <2>1 DEF Cycle
  <2>3. Become(w, d)
    BY <1>4 DEF OrderAccepted
  <2> HIDE DEF d
  <2>4. QED
    BY <1>3, <2>2, <2>3, SentRecord, SentPersists DEF Working
<1>5. CASE OrderRejected(w)
  <2> DEFINE s == Sent(w, FALSE)
             d == [s EXCEPT !.step = "execute", !.skips = @ \cup {"rejected"}]
  <2>1. s \in Cycle
    BY SentType
  <2>2. /\ d.persist = s.persist /\ d.mode = s.mode /\ d.acquired = s.acquired
        /\ d.step = "execute"
    BY <2>1 DEF Cycle
  <2>3. Become(w, d)
    BY <1>5 DEF OrderRejected
  <2>4. s.persist = c.persist /\ s.mode = c.mode /\ s.acquired = c.acquired
    <3>1. FALSE \in BOOLEAN
      OBVIOUS
    <3>2. QED
      BY <3>1, SentRecord, SentPersists
  <2> HIDE DEF d, s
  <2>5. QED
    BY <1>3, <2>2, <2>3, <2>4 DEF Working
<1>6. CASE OrderUnknown(w)
  <2>1. PICK alive \in BOOLEAN :
          Become(w, [Sent(w, alive) EXCEPT !.step = "writeCompleted", !.orders = @ \cup {"unknown"}])
    BY <1>6 DEF OrderUnknown
  <2> DEFINE s == Sent(w, alive)
             d == [s EXCEPT !.step = "writeCompleted", !.orders = @ \cup {"unknown"}]
  <2>2. s \in Cycle
    BY SentType
  <2>3. /\ d.persist = s.persist /\ d.mode = s.mode /\ d.acquired = s.acquired
        /\ d.step = "writeCompleted"
    BY <2>2 DEF Cycle
  <2>4. Become(w, d)
    BY <2>1
  <2> HIDE DEF d
  <2>5. QED
    BY <1>3, <2>3, <2>4, SentRecord, SentPersists DEF Working
<1>7. CASE OrderRaises(w)
  <2>1. PICK alive \in BOOLEAN : Become(w, Ended(Sent(w, alive), "respond", RaisedResult("live")))
    BY <1>7 DEF OrderRaises
  <2>2. Sent(w, alive) \in Cycle /\ Sent(w, alive).persist
    BY <1>2, SentType, SentPersists
  <2>3. QED
    BY <1>1, <1>2, <2>1, <2>2, RaisedFits, TurnLocally
<1>8. CASE OrderRefusedLocally(w) \/ StatusQueryRaises(w)
  <2>1. Raise(w)
    BY <1>8 DEF OrderRefusedLocally, StatusQueryRaises
  <2>2. QED
    BY <1>1, <1>2, <2>1, RaisedFits, TurnLocally DEF Raise
<1>9. QED
  BY <1>4, <1>5, <1>6, <1>7, <1>8 DEF Broker

LEMMA AcquireTurn ==
  ASSUME OneAtATime, TypeOK, RequestsAreRecorded, TurnsFit, NEW w \in Workers, AcquireClaim(w)
  PROVE  TurnsFit'
<1> DEFINE c == cyc[w]
           q == c.period
<1>1. c.step = "claim" /\ latest' = latest /\ incident' = incident /\ notices' = notices
  BY DEF AcquireClaim, At, history
<1>2. /\ c \in Cycle /\ Recorded(c) /\ c.persist /\ q \in Periods
      /\ \A v \in Workers \ {w} : cyc[v].step = "idle"
      /\ \A p \in Periods : p = q /\ TurnFits(c, Terminal(p), Claimed(p), Reopened(p))
  BY <1>1, AlonePersists DEF OneAtATime
<1>3. c.mode = "live" /\ \A p \in Periods : ~Terminal(p) /\ ~Reopened(p)
  BY <1>1, <1>2 DEF Recorded, TurnFits, Working
<1>4. \A p \in Periods : Terminal(p)' = Terminal(p) /\ Reopened(p)' = Reopened(p)
  BY <1>1 DEF Terminal, Reopened
<1>5. claim' = claim \/ claim' = [claim EXCEPT ![q] = "v2"]
  BY DEF AcquireClaim
<1>6. \A p \in Periods : notices'[p] <= 1 /\ claim'[p] # "legacy"
  BY <1>1, <1>5 DEF TurnsFit, TypeOK
<1>7. ASSUME NEW d, Become(w, d),
             \A p \in Periods : TurnFits(d, Terminal(p), Claimed(p)', Reopened(p))
      PROVE  TurnsFit'
  <2>1. \A p \in Periods : TurnFits(d, Terminal(p)', Claimed(p)', Reopened(p)')
    BY <1>4, <1>7
  <2>2. \A p \in Periods : Reopened(p)' => Terminal(p)' \/ Claimed(p)'
    BY <1>3, <1>4
  <2>3. QED
    BY <1>2, <1>6, <1>7, <2>1, <2>2, TurnStep
<1>8. CASE Raise(w)
  BY <1>2, <1>7, <1>8, RaisedFits DEF Raise
<1>9. CASE Become(w, [c EXCEPT !.step = "submit", !.acquired = TRUE])
  <2> DEFINE d == [c EXCEPT !.step = "submit", !.acquired = TRUE]
  <2>1. d.step = "submit" /\ d.acquired = TRUE /\ d.persist = c.persist
    BY <1>2 DEF Cycle
  <2>2. \A p \in Periods : TurnFits(d, Terminal(p), Claimed(p)', Reopened(p))
    <3> HIDE DEF d
    <3>1. QED
      BY <1>2, <1>3, <2>1 DEF TurnFits, Working
  <2>3. QED
    BY <1>7, <1>9, <2>2
<1>10. CASE Go(w, "readBlocked") /\ claim'[q] = "v2"
  <2> DEFINE d == [c EXCEPT !.step = "readBlocked"]
  <2>1. d.step = "readBlocked" /\ d.persist = c.persist
    BY <1>2 DEF Cycle
  <2>2. \A p \in Periods : Claimed(p)'
    BY <1>2, <1>10 DEF Claimed
  <2>3. \A p \in Periods : TurnFits(d, Terminal(p), Claimed(p)', Reopened(p))
    <3> HIDE DEF d
    <3>1. QED
      BY <1>2, <2>1, <2>2 DEF TurnFits, Working
  <2>4. QED
    BY <1>7, <1>10, <2>3 DEF Go
<1>11. CASE claim[q] # "none" /\ claim' = claim /\ Go(w, "readBlocked")
  <2>1. claim[q] = "v2"
    BY <1>2, <1>11 DEF TurnsFit, TypeOK, Claims
  <2>2. QED
    BY <1>10, <1>11, <2>1
<1>12. claim' = [claim EXCEPT ![q] = "v2"] => claim'[q] = "v2"
  BY <1>2 DEF TypeOK
<1>13. QED
  BY <1>8, <1>9, <1>10, <1>11, <1>12 DEF AcquireClaim

LEMMA CompletedTurn ==
  ASSUME OneAtATime, TypeOK, RequestsAreRecorded, TurnsFit, NEW w \in Workers, WriteCompleted(w)
  PROVE  TurnsFit'
<1> DEFINE c == cyc[w]
           q == c.period
           stage == CycleStage(c.mode, c.orders, c.skips)
<1>1. c.step = "writeCompleted" /\ claim' = claim /\ incident' = incident /\ notices' = notices
  BY DEF WriteCompleted, At
<1>2. /\ c \in Cycle /\ c.persist /\ q \in Periods /\ c.mode \in Modes
      /\ \A v \in Workers \ {w} : cyc[v].step = "idle"
      /\ \A p \in Periods : p = q /\ TurnFits(c, Terminal(p), Claimed(p), Reopened(p))
  BY <1>1, AlonePersists DEF OneAtATime
<1>3. PICK failed \in BOOLEAN :
        /\ Persisted(w, stage, failed)
        /\ Return(w, CompletedResult(c.mode, c.orders, c.skips, c.acquired,
                                     c.persistError \/ failed))
  BY <1>2, Zenon DEF WriteCompleted
<1> DEFINE e == c.persistError \/ failed
           r == CompletedResult(c.mode, c.orders, c.skips, c.acquired, e)
           d == Ended(c, "notify", r)
<1>4. d.step = "notify" /\ d.result = r /\ d.persist
  BY <1>2, EndedRecord, EndedPersists
<1>5. r.outcome = "completed" /\ r.mode = c.mode
  BY DEF CompletedResult
<1>6. \A p \in Periods : Claimed(p)' = Claimed(p) /\ Reopened(p)' = Reopened(p)
  BY <1>1 DEF Claimed, Reopened
<1>7. CASE c.mode = "dry"
  <2>1. latest'["live"] = latest["live"]
    <3> HIDE DEF stage
    <3>1. QED
      BY <1>3, <1>7 DEF Persisted, TypeOK, Modes
  <2>2. \A p \in Periods : TurnFits(d, Terminal(p), Claimed(p), Reopened(p))
    <3> HIDE DEF d, r
    <3>1. QED
      BY <1>4, <1>5, <1>7 DEF TurnFits, Working
  <2>3. Become(w, d)
    BY <1>3 DEF Return
  <2> HIDE DEF d
  <2>4. QED
    BY <1>1, <1>2, <2>1, <2>2, <2>3, TurnLocally
<1>8. CASE c.mode = "live"
  <2>1. \A p \in Periods : ~Reopened(p)
    BY <1>1, <1>2, <1>8 DEF TurnFits, Working
  <2>2. CycleKind(r) = "routine_cycle" => ~failed /\ IsDuplicateLiveRun(stage)
    <3>1. /\ c.orders \in SUBSET OrderStatuses /\ c.skips \in SUBSET SkipReasons
          /\ c.acquired \in BOOLEAN /\ e \in BOOLEAN
      BY <1>2, CycleFields
    <3>2. QED
      BY <1>8, <3>1, RoutineIsTerminal
  <2>3. ~failed => latest'["live"][q] = stage
    <3> HIDE DEF stage
    <3>1. QED
      BY <1>2, <1>3, <1>8 DEF Persisted, TypeOK, Modes
  <2>4. CycleKind(r) = "routine_cycle" => \A p \in Periods : Terminal(p)'
    <3> HIDE DEF stage, r
    <3>1. QED
      BY <1>2, <2>2, <2>3 DEF Terminal
  <2>5. \A p \in Periods : TurnFits(d, Terminal(p)', Claimed(p)', Reopened(p)')
    <3> HIDE DEF d, r
    <3>1. QED
      BY <1>4, <1>5, <1>6, <2>1, <2>4 DEF TurnFits, Working
  <2>6. \A p \in Periods : Reopened(p)' => Terminal(p)' \/ Claimed(p)'
    BY <1>6, <2>1
  <2>7. \A p \in Periods : notices'[p] <= 1 /\ claim'[p] # "legacy"
    BY <1>1 DEF TurnsFit
  <2>8. Become(w, d)
    BY <1>3 DEF Return
  <2> HIDE DEF d
  <2>9. QED
    BY <1>2, <2>5, <2>6, <2>7, <2>8, TurnStep
<1>9. QED
  BY <1>2, <1>7, <1>8 DEF Modes

(* A blocked run opens the incident and is told then; only a routine cycle *)
(* closes it, and its period is over.                                      *)
LEMMA NotifyTurn ==
  ASSUME OneAtATime, TypeOK, RequestsAreRecorded, TurnsFit, NEW w \in Workers, Notify(w)
  PROVE  TurnsFit'
<1> DEFINE c == cyc[w]
           r == c.result
           q == c.period
           d == [c EXCEPT !.step = "respond"]
<1>1. c.step = "notify" /\ Become(w, d) /\ latest' = latest /\ claim' = claim
  BY DEF Notify, At, Go, store
<1>2. /\ c \in Cycle /\ c.persist /\ q \in Periods /\ r \in Results
      /\ \A v \in Workers \ {w} : cyc[v].step = "idle"
      /\ \A p \in Periods : p = q /\ TurnFits(c, Terminal(p), Claimed(p), Reopened(p))
  BY <1>1, AlonePersists, CycleFields DEF OneAtATime
<1>3. d.step = "respond" /\ d.persist
  BY <1>2 DEF Cycle
<1>4. \A x, y, z : TurnFits(d, x, y, z)
  <2> HIDE DEF d
  <2>1. QED
    BY <1>3 DEF TurnFits, Working
<1>5. \A p \in Periods : Terminal(p)' = Terminal(p) /\ Claimed(p)' = Claimed(p)
  BY <1>1 DEF Terminal, Claimed
<1>6. (\A p \in Periods : notices'[p] <= 1) /\
      (\A p \in Periods : Reopened(p)' => Terminal(p) \/ Claimed(p)) => TurnsFit'
  <2>1. \A p \in Periods : TurnFits(d, Terminal(p)', Claimed(p)', Reopened(p)')
    BY <1>4
  <2>2. \A p \in Periods : claim'[p] # "legacy"
    BY <1>1 DEF TurnsFit
  <2> HIDE DEF d
  <2>3. QED
    BY <1>1, <1>2, <1>5, <2>1, <2>2, TurnStep
<1>7. CASE UNCHANGED <<incident, notices>>
  <2>1. \A p \in Periods : Reopened(p)' = Reopened(p)
    BY <1>7 DEF Reopened
  <2>2. QED
    BY <1>6, <1>7, <2>1 DEF TurnsFit
<1>8. CASE r.mode = "live" /\ CycleKind(r) = "routine_cycle" /\ UNCHANGED notices
  <2>1. r.outcome # "raised"
    BY <1>8 DEF CycleKind, HasError, ResultOk
  <2>2. r.outcome \in {"completed", "skipped"}
    BY <1>2, <2>1 DEF Results, Outcomes
  <2>3. \A p \in Periods : Terminal(p) \/ Claimed(p)
    <3> HIDE DEF r
    <3>1. QED
      BY <1>1, <1>2, <1>8, <2>2 DEF TurnFits, r
  <2>4. QED
    BY <1>6, <1>8, <2>3 DEF TurnsFit
<1>9. CASE /\ r.mode = "live" /\ CycleKind(r) = "blocked_run" /\ ~incident /\ incident' = TRUE
           /\ notices' \in {notices, [notices EXCEPT ![q] = @ + 1]}
  <2>1. r.outcome = "completed"
    BY <1>9 DEF CycleKind, Blocked
  <2>2. \A p \in Periods : ~Reopened(p)
    BY <1>1, <1>2, <1>9, <2>1 DEF TurnFits
  <2>3. \A p \in Periods : notices[p] = 0
    BY <1>9, <2>2 DEF Reopened
  <2>4. \A p \in Periods : notices'[p] <= 1
    BY <1>9, <2>3 DEF TypeOK
  <2>5. \A p \in Periods : ~Reopened(p)'
    BY <1>9 DEF Reopened
  <2>6. QED
    BY <1>6, <2>4, <2>5
<1>10. QED
  BY <1>7, <1>8, <1>9 DEF Notify, OneAtATime

(* A cycle that only reads, or leaves the live record alone, goes on or    *)
(* ends without changing what the others see.                              *)
LEMMA ReadTurn ==
  ASSUME OneAtATime, TypeOK, RequestsAreRecorded, TurnsFit, NEW w \in Workers,
         \/ ReadLatest(w) \/ ReadClaim(w) \/ ReadBlocked(w)
         \/ PlaceOrder(w) \/ FinishExecution(w) \/ PreviewOrder(w)
         \/ \E reason \in MarketBlocks : SkipOrder(w, reason)
  PROVE  TurnsFit'
<1> DEFINE c == cyc[w]
           Still == /\ latest' = latest /\ claim' = claim /\ incident' = incident
                    /\ notices' = notices
           Alone == /\ c \in Cycle /\ Recorded(c) /\ c.persist /\ c.period \in Periods
                    /\ \A v \in Workers \ {w} : cyc[v].step = "idle"
                    /\ \A p \in Periods : p = c.period
                         /\ TurnFits(c, Terminal(p), Claimed(p), Reopened(p))
<1>1. c.step # "idle" => Alone
  BY AlonePersists DEF OneAtATime
<1>2. ASSUME Still, Alone, NEW d, Become(w, d),
             \A p \in Periods : TurnFits(d, Terminal(p), Claimed(p), Reopened(p))
      PROVE  TurnsFit'
  BY <1>2, TurnLocally
<1>3. ASSUME Still, Alone, Raise(w) PROVE TurnsFit'
  BY <1>2, <1>3, RaisedFits DEF Raise
<1>4. ASSUME Still, Alone, c.step \in Working, NEW s \in Working, Go(w, s) PROVE TurnsFit'
  BY <1>2, <1>4, GoWorks DEF Go
<1>5. ASSUME Still, Alone, NEW d, Become(w, d), d.step = c.step, c.step \in Working,
             d.persist = c.persist, d.mode = c.mode, d.acquired = c.acquired
      PROVE  TurnsFit'
  <2>1. d.step \in Working
    BY <1>5
  <2>2. \A p \in Periods : TurnFits(c, Terminal(p), Claimed(p), Reopened(p))
    BY <1>5
  <2>3. \A p \in Periods : TurnFits(d, Terminal(p), Claimed(p), Reopened(p))
    BY <1>5, <2>1, <2>2, WorkFits
  <2>4. QED
    BY <1>2, <1>5, <2>3
<1>6. CASE ReadLatest(w)
  <2>1. Still /\ c.step = "readLatest"
    BY <1>6 DEF ReadLatest, At, store, history
  <2>2. CASE Become(w, [c EXCEPT !.step = "readClaim", !.seen = latest["live"][c.period]])
    <3> DEFINE d == [c EXCEPT !.step = "readClaim", !.seen = latest["live"][c.period]]
    <3>1. d.step = "readClaim" /\ d.seen = latest["live"][c.period] /\ d.persist = c.persist
      BY <1>1, <2>1 DEF Cycle
    <3>2. \A p \in Periods : TurnFits(d, Terminal(p), Claimed(p), Reopened(p))
      <4> HIDE DEF d
      <4>1. QED
        BY <1>1, <2>1, <3>1 DEF TurnFits, Working, Terminal
    <3> HIDE DEF d
    <3>3. Become(w, d)
      BY <2>2 DEF d
    <3>4. QED
      BY <1>1, <1>2, <2>1, <3>2, <3>3
  <2>3. QED
    BY <1>1, <1>3, <1>6, <2>1, <2>2 DEF ReadLatest
<1>7. CASE ReadClaim(w)
  <2>1. Still /\ c.step = "readClaim"
    BY <1>7 DEF ReadClaim, At, store, history
  <2>2. \A p \in Periods : /\ IsDuplicateLiveRun(c.seen) <=> Terminal(p)
                           /\ Reopened(p) => Terminal(p) \/ Claimed(p)
    BY <1>1, <2>1 DEF TurnFits, TurnsFit
  <2>3. CASE HasEffectiveClaim(claim[c.period]) /\ Return(w, SkippedResult(c.seen, FALSE))
    <3>1. \A p \in Periods : Claimed(p)
      BY <1>1, <2>1, <2>3 DEF HasEffectiveClaim, Claimed
    <3>2. QED
      BY <1>1, <1>2, <2>1, <2>3, <3>1, SkippedFits DEF Return
  <2>4. CASE IsDuplicateLiveRun(c.seen) /\ Go(w, "writeDuplicate")
    <3> DEFINE d == [c EXCEPT !.step = "writeDuplicate"]
    <3>1. d.step = "writeDuplicate" /\ d.seen = c.seen /\ d.persist = c.persist
      BY <1>1, <2>1 DEF Cycle
    <3>2. \A p \in Periods : TurnFits(d, Terminal(p), Claimed(p), Reopened(p))
      <4> HIDE DEF d
      <4>1. QED
        BY <1>1, <2>1, <2>2, <2>4, <3>1 DEF TurnFits, Working
    <3> HIDE DEF d
    <3>3. Become(w, d)
      BY <2>4 DEF Go, d
    <3>4. QED
      BY <1>1, <1>2, <2>1, <3>2, <3>3
  <2>5. CASE /\ ~HasEffectiveClaim(claim[c.period]) /\ ~IsDuplicateLiveRun(c.seen)
             /\ Go(w, "writePlanned")
    <3> DEFINE d == [c EXCEPT !.step = "writePlanned"]
    <3>1. d.step = "writePlanned" /\ d.persist = c.persist
      BY <1>1, <2>1 DEF Cycle
    <3>2. \A p \in Periods : ~Claimed(p) /\ ~Terminal(p) /\ ~Reopened(p)
      BY <1>1, <2>1, <2>2, <2>5 DEF HasEffectiveClaim, Claimed
    <3>3. \A p \in Periods : TurnFits(d, Terminal(p), Claimed(p), Reopened(p))
      <4> HIDE DEF d
      <4>1. QED
        BY <1>1, <2>1, <3>1, <3>2 DEF TurnFits, Working
    <3> HIDE DEF d
    <3>4. Become(w, d)
      BY <2>5 DEF Go, d
    <3>5. QED
      BY <1>1, <1>2, <2>1, <3>3, <3>4
  <2>6. QED
    BY <1>1, <1>3, <1>7, <2>1, <2>3, <2>4, <2>5 DEF ReadClaim
<1>8. CASE ReadBlocked(w)
  <2>1. Still /\ c.step = "readBlocked"
    BY <1>8 DEF ReadBlocked, At, store, history
  <2>2. \A p \in Periods : Claimed(p)
    BY <1>1, <2>1 DEF TurnFits
  <2>3. CASE Return(w, SkippedResult(latest["live"][c.period], c.persistError))
    BY <1>1, <1>2, <2>1, <2>2, <2>3, SkippedFits DEF Return
  <2>4. QED
    BY <1>1, <1>3, <1>8, <2>1, <2>3 DEF ReadBlocked
<1>9. CASE PlaceOrder(w)
  <2>1. Still /\ c.step = "execute"
    BY <1>9 DEF PlaceOrder, At, store, history
  <2>2. QED
    BY <1>1, <1>3, <1>4, <1>9, <2>1 DEF PlaceOrder, Working
<1>10. CASE FinishExecution(w)
  <2>1. Still /\ c.step = "execute" /\ Go(w, "writeCompleted")
    BY <1>10 DEF FinishExecution, At, store, history
  <2>2. QED
    BY <1>1, <1>4, <2>1 DEF Working
<1>11. CASE PreviewOrder(w)
  <2> DEFINE d == [c EXCEPT !.orders = @ \cup {"previewed"}]
  <2>1. Still /\ c.step = "execute" /\ Become(w, d)
    BY <1>11 DEF PreviewOrder, At, store, history
  <2>2. d.step = c.step /\ d.persist = c.persist /\ d.mode = c.mode /\ d.acquired = c.acquired
    BY <1>1, <2>1 DEF Cycle
  <2> HIDE DEF d
  <2>3. QED
    BY <1>1, <1>5, <2>1, <2>2 DEF Working
<1>12. ASSUME NEW reason \in MarketBlocks, SkipOrder(w, reason) PROVE TurnsFit'
  <2> DEFINE d == [c EXCEPT !.skips = @ \cup {reason}]
  <2>1. Still /\ c.step = "execute" /\ Become(w, d)
    BY <1>12 DEF SkipOrder, At, store, history
  <2>2. d.step = c.step /\ d.persist = c.persist /\ d.mode = c.mode /\ d.acquired = c.acquired
    BY <1>1, <2>1 DEF Cycle
  <2> HIDE DEF d
  <2>3. QED
    BY <1>1, <1>5, <2>1, <2>2 DEF Working
<1>13. QED
  BY <1>6, <1>7, <1>8, <1>9, <1>10, <1>11, <1>12

(* The records written on the way: a duplicate's repeats the terminal one, *)
(* a planned one stands where no terminal one was.                         *)
LEMMA WriteTurn ==
  ASSUME OneAtATime, TypeOK, RequestsAreRecorded, TurnsFit, NEW w \in Workers,
         WriteDuplicate(w) \/ WritePlanned(w)
  PROVE  TurnsFit'
<1> DEFINE c == cyc[w]
           q == c.period
<1>1. /\ claim' = claim /\ incident' = incident /\ notices' = notices
      /\ c.step \in {"writeDuplicate", "writePlanned"}
  BY DEF WriteDuplicate, WritePlanned, At, history
<1>2. /\ c \in Cycle /\ c.persist /\ q \in Periods /\ c.mode \in Modes
      /\ \A v \in Workers \ {w} : cyc[v].step = "idle"
      /\ \A p \in Periods : p = q /\ TurnFits(c, Terminal(p), Claimed(p), Reopened(p))
  BY <1>1, AlonePersists DEF OneAtATime
<1>3. \A p \in Periods : Claimed(p)' = Claimed(p) /\ Reopened(p)' = Reopened(p)
  BY <1>1 DEF Claimed, Reopened
<1>4. \A p \in Periods : notices'[p] <= 1 /\ claim'[p] # "legacy"
  BY <1>1 DEF TurnsFit
<1>5. ASSUME NEW stage, NEW failed \in BOOLEAN, Persisted(w, stage, failed)
      PROVE  \A p \in Periods : \/ latest'["live"][p] = latest["live"][p]
                                \/ c.mode = "live" /\ latest'["live"][p] = stage
  BY <1>2, <1>5 DEF Persisted, TypeOK, Modes
<1>6. CASE WriteDuplicate(w)
  <2>1. PICK failed \in BOOLEAN :
          Persisted(w, c.seen, failed) /\ Return(w, SkippedResult(c.seen, failed))
    BY <1>6 DEF WriteDuplicate
  <2>2. IsDuplicateLiveRun(c.seen) /\ \A p \in Periods : Terminal(p)
    BY <1>2, <1>6 DEF WriteDuplicate, At, TurnFits
  <2>3. \A p \in Periods : latest'["live"][p] \in {latest["live"][p], c.seen}
    BY <1>5, <2>1
  <2>4. \A p \in Periods : Terminal(p)'
    BY <2>2, <2>3 DEF Terminal
  <2> DEFINE d == Ended(c, "notify", SkippedResult(c.seen, failed))
  <2>5. \A p \in Periods : TurnFits(d, Terminal(p)', Claimed(p)', Reopened(p)')
    BY <1>2, <2>4, SkippedFits
  <2>6. Become(w, d)
    BY <2>1 DEF Return
  <2> HIDE DEF d
  <2>7. QED
    BY <1>2, <1>4, <2>4, <2>5, <2>6, TurnStep
<1>7. CASE WritePlanned(w)
  <2>1. PICK failed \in BOOLEAN :
          /\ Persisted(w, "ORDERS_PLANNED", failed)
          /\ Become(w, [c EXCEPT !.step = "execute", !.persistError = failed])
    BY <1>7 DEF WritePlanned
  <2> DEFINE d == [c EXCEPT !.step = "execute", !.persistError = failed]
  <2>2. d.step = "execute" /\ d.persist = c.persist /\ d.mode = c.mode /\ d.acquired = c.acquired
    BY <1>2 DEF Cycle
  <2>3. Become(w, d) /\ c.step = "writePlanned"
    BY <1>7, <2>1 DEF WritePlanned, At
  <2> HIDE DEF d
  <2>4. \A p \in Periods : TurnFits(d, Terminal(p), Claimed(p), Reopened(p))
    BY <1>2, <2>2, <2>3, WorkFits DEF Working
  <2>5. \A p \in Periods : Terminal(p)' = Terminal(p)
    <3>1. ~IsDuplicateLiveRun("ORDERS_PLANNED")
      BY DEF IsDuplicateLiveRun, LiveTerminalStages
    <3>2. \A p \in Periods : c.mode = "live" => ~Terminal(p)
      BY <1>2, <2>3 DEF TurnFits, Working
    <3>3. \A p \in Periods : \/ latest'["live"][p] = latest["live"][p]
                             \/ c.mode = "live" /\ latest'["live"][p] = "ORDERS_PLANNED"
      BY <1>5, <2>1
    <3>4. \A p \in Periods : Terminal(p)' <=> Terminal(p)
      BY <3>1, <3>2, <3>3 DEF Terminal
    <3>5. \A p \in Periods : Terminal(p) \in BOOLEAN /\ Terminal(p)' \in BOOLEAN
      BY DEF Terminal, IsDuplicateLiveRun
    <3>6. QED
      BY <3>4, <3>5
  <2>6. \A p \in Periods : TurnFits(d, Terminal(p)', Claimed(p)', Reopened(p)')
    BY <1>3, <2>4, <2>5
  <2>7. \A p \in Periods : Reopened(p)' => Terminal(p)' \/ Claimed(p)'
    BY <1>3, <2>5 DEF TurnsFit
  <2>8. QED
    BY <1>2, <1>4, <2>3, <2>6, <2>7, TurnStep
<1>8. QED
  BY <1>6, <1>7

LEMMA TurnIsInductive ==
  ASSUME OneAtATime, TypeOK, RequestsAreRecorded, TurnsFit, [Next]_vars
  PROVE  TurnsFit'
<1>1. ASSUME NEW w \in Workers, Respond(w) \/ Crash(w) PROVE TurnsFit'
  <2>1. Forget(w) /\ cyc[w].step # "idle"
    BY <1>1 DEF Respond, Crash, At
  <2>2. IdleCycle.step = "idle"
    BY DEF IdleCycle, FreshCycle
  <2>3. \A p \in Periods : TurnFits(IdleCycle, Terminal(p), Claimed(p), Reopened(p))
    BY <2>2, IdleFits
  <2>4. latest' = latest /\ claim' = claim /\ incident' = incident /\ notices' = notices
    BY <2>1 DEF Forget, store
  <2>5. QED
    BY <2>1, <2>3, <2>4, OthersIdle, TurnLocally DEF Forget
<1>2. CASE Recover \/ UNCHANGED vars
  <2>1. latest' = latest /\ claim' = claim /\ incident' = incident /\ notices' = notices
        /\ cyc' = cyc
    BY <1>2 DEF Recover, vars, store, history
  <2>2. QED
    BY <2>1 DEF TurnsFit, Terminal, Claimed, Reopened
<1>3. QED
  BY <1>1, <1>2, StartTurn, ReadTurn, WriteTurn, BrokerTurn, AcquireTurn, CompletedTurn, NotifyTurn
  DEF Next, Proceed

(* README.md: funding blocks notify once.  With the unified contract and a *)
(* store, cycles of one period that come one after another, however many,  *)
(* whatever fails in them and whoever is killed, announce a funding block  *)
(* once: the incident stays open until a cycle has nothing left to do.     *)
THEOREM FundingNotifiesOnce ==
  ASSUME OneAtATime
  PROVE  Spec => []FundingBlockNotifiesOnce
<1>1. Init => TurnsFit
  <2> SUFFICES ASSUME Init PROVE TurnsFit
    OBVIOUS
  <2>1. \A w \in Workers : cyc[w].step = "idle"
    BY DEF Init, IdleCycle, FreshCycle
  <2>2. \A p \in Periods : notices[p] = 0 /\ claim[p] # "legacy"
    BY DEF Init, OneAtATime
  <2>3. QED
    BY <2>1, <2>2, IdleFits DEF TurnsFit, Reopened
<1>2. TypeOK /\ RequestsAreRecorded /\ TurnsFit /\ [Next]_vars => TurnsFit'
  BY TurnIsInductive
<1>3. TurnsFit => FundingBlockNotifiesOnce
  BY DEF TurnsFit, FundingBlockNotifiesOnce
<1>4. QED
  BY <1>1, <1>2, <1>3, TypeCorrect, RequestsRecorded, PTL DEF Spec
=============================================================================
