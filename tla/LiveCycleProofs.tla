-------------------------- MODULE LiveCycleProofs ---------------------------
(***************************************************************************)
(* Theorems of LiveCycle for any set of workers and run periods, any       *)
(* bound on the cycles in progress and every combination of faults.        *)
(***************************************************************************)
EXTENDS LiveCycle, TLAPS

-----------------------------------------------------------------------------
(* Types of the results a cycle can end with.                              *)

LEMMA CycleStageType ==
  ASSUME NEW m \in Modes, NEW orders \in SUBSET OrderStatuses, NEW skips \in SUBSET SkipReasons
  PROVE  CycleStage(m, orders, skips) \in Stages
BY DEF CycleStage, ResolveStage, Stages, Modes

LEMMA CompletedResultType ==
  ASSUME NEW m \in Modes, NEW orders \in SUBSET OrderStatuses, NEW skips \in SUBSET SkipReasons,
         NEW claimed \in BOOLEAN, NEW persistError \in BOOLEAN
  PROVE  CompletedResult(m, orders, skips, claimed, persistError) \in Results
BY CycleStageType DEF CompletedResult, Results, Outcomes

LEMMA SkippedResultType ==
  ASSUME NEW seen \in StoredStages, NEW persistError \in BOOLEAN
  PROVE  SkippedResult(seen, persistError) \in Results
BY DEF SkippedResult, Results, Outcomes, StoredStages, Modes

LEMMA RaisedResultType ==
  ASSUME NEW m \in Modes
  PROVE  RaisedResult(m) \in Results
BY DEF RaisedResult, Results, Outcomes

LEMMA FreshCycleType ==
  ASSUME NEW m \in Modes, NEW p \in Periods, NEW persist \in BOOLEAN
  PROVE  FreshCycle(m, p, persist) \in Cycle
BY RaisedResultType DEF FreshCycle, Cycle, Steps, StoredStages

LEMMA IdleCycleType == IdleCycle \in Cycle
BY FreshCycleType, PeriodsAssumption DEF IdleCycle, Modes

-----------------------------------------------------------------------------
(* Types of the cycle record after the few ways an action changes it.      *)

LEMMA BecomeType ==
  ASSUME TypeOK, NEW w \in Workers, NEW c \in Cycle, Become(w, c)
  PROVE  cyc' \in [Workers -> Cycle]
BY DEF TypeOK, Become

LEMMA CycleFields ==
  ASSUME NEW c \in Cycle
  PROVE  /\ c.mode \in Modes /\ c.period \in Periods /\ c.persist \in BOOLEAN
         /\ c.seen \in StoredStages /\ c.acquired \in BOOLEAN
         /\ c.orders \in SUBSET OrderStatuses /\ c.skips \in SUBSET SkipReasons
         /\ c.persistError \in BOOLEAN /\ c.result \in Results
BY DEF Cycle

(* The updates of one or two fields that actions make.                     *)
LEMMA OneFieldUpdate ==
  ASSUME NEW c \in Cycle
  PROVE  /\ \A x \in Steps : [c EXCEPT !.step = x] \in Cycle
         /\ \A x \in StoredStages : [c EXCEPT !.seen = x] \in Cycle
         /\ \A x \in BOOLEAN : [c EXCEPT !.persistError = x] \in Cycle
         /\ \A x \in BOOLEAN : [c EXCEPT !.acquired = x] \in Cycle
         /\ \A x \in SUBSET OrderStatuses : [c EXCEPT !.orders = x] \in Cycle
         /\ \A x \in SUBSET SkipReasons : [c EXCEPT !.skips = x] \in Cycle
<1>1. \A x \in Steps : [c EXCEPT !.step = x] \in Cycle
  BY DEF Cycle
<1>2. \A x \in StoredStages : [c EXCEPT !.seen = x] \in Cycle
  BY DEF Cycle
<1>3. \A x \in BOOLEAN : [c EXCEPT !.persistError = x] \in Cycle
  BY DEF Cycle
<1>4. \A x \in BOOLEAN : [c EXCEPT !.acquired = x] \in Cycle
  BY DEF Cycle
<1>5. \A x \in SUBSET OrderStatuses : [c EXCEPT !.orders = x] \in Cycle
  BY DEF Cycle
<1>6. \A x \in SUBSET SkipReasons : [c EXCEPT !.skips = x] \in Cycle
  BY DEF Cycle
<1>7. QED
  BY <1>1, <1>2, <1>3, <1>4, <1>5, <1>6

LEMMA FieldUpdates ==
  ASSUME NEW c \in Cycle, NEW s \in Steps
  PROVE  /\ \A x \in StoredStages : [c EXCEPT !.step = s, !.seen = x] \in Cycle
         /\ \A x \in BOOLEAN : [c EXCEPT !.step = s, !.persistError = x] \in Cycle
         /\ \A x \in BOOLEAN : [c EXCEPT !.step = s, !.acquired = x] \in Cycle
         /\ \A x \in SUBSET OrderStatuses : [c EXCEPT !.step = s, !.orders = x] \in Cycle
         /\ \A x \in SUBSET SkipReasons : [c EXCEPT !.step = s, !.skips = x] \in Cycle
<1> DEFINE d == [c EXCEPT !.step = s]
<1>1. d \in Cycle
  BY OneFieldUpdate
<1>2. /\ \A x \in StoredStages : [d EXCEPT !.seen = x] \in Cycle
      /\ \A x \in BOOLEAN : [d EXCEPT !.persistError = x] \in Cycle
      /\ \A x \in BOOLEAN : [d EXCEPT !.acquired = x] \in Cycle
      /\ \A x \in SUBSET OrderStatuses : [d EXCEPT !.orders = x] \in Cycle
      /\ \A x \in SUBSET SkipReasons : [d EXCEPT !.skips = x] \in Cycle
  <2> HIDE DEF d
  <2>1. QED
    BY <1>1, OneFieldUpdate
<1>3. QED
  BY <1>2

LEMMA GoType ==
  ASSUME TypeOK, NEW w \in Workers, NEW s \in Steps, Go(w, s)
  PROVE  cyc' \in [Workers -> Cycle]
BY OneFieldUpdate, BecomeType DEF TypeOK, Go

LEMMA EndedType ==
  ASSUME NEW c \in Cycle, NEW s \in Steps, NEW r \in Results
  PROVE  Ended(c, s, r) \in Cycle
BY DEF Ended, Cycle, StoredStages

LEMMA SentType ==
  ASSUME TypeOK, NEW w \in Workers, NEW alive \in BOOLEAN
  PROVE  Sent(w, alive) \in Cycle
<1>1. cyc[w] \in Cycle
  BY DEF TypeOK
<1>2. (cyc[w].alive \/ alive) \in BOOLEAN
  OBVIOUS
<1>3. QED
  BY <1>1, <1>2 DEF Sent, Cycle

LEMMA ReturnType ==
  ASSUME TypeOK, NEW w \in Workers, NEW r \in Results, Return(w, r)
  PROVE  cyc' \in [Workers -> Cycle]
BY EndedType, BecomeType DEF TypeOK, Return, Steps

LEMMA RaiseType ==
  ASSUME TypeOK, NEW w \in Workers, Raise(w)
  PROVE  cyc' \in [Workers -> Cycle]
BY EndedType, BecomeType, RaisedResultType, CycleFields DEF TypeOK, Raise, Steps

LEMMA PersistedType ==
  ASSUME TypeOK, NEW w \in Workers, NEW stage \in StoredStages, NEW failed \in BOOLEAN,
         Persisted(w, stage, failed)
  PROVE  latest' \in [Modes -> [Periods -> StoredStages]]
<1>1. cyc[w].mode \in Modes /\ cyc[w].period \in Periods
  BY CycleFields DEF TypeOK
<1>2. [latest EXCEPT ![cyc[w].mode][cyc[w].period] = stage] \in [Modes -> [Periods -> StoredStages]]
  BY <1>1 DEF TypeOK
<1>3. QED
  BY <1>2 DEF TypeOK, Persisted

LEMMA RequestType ==
  ASSUME TypeOK, NEW w \in Workers, NEW alive \in BOOLEAN, Request(w, alive)
  PROVE  /\ sender' \in [Periods -> Workers \cup {"nobody", "past"}]
         /\ atBroker' \in SUBSET Periods
BY CycleFields DEF TypeOK, Request

LEMMA ForgetType ==
  ASSUME TypeOK, NEW w \in Workers, Forget(w)
  PROVE  TypeOK'
<1>1. cyc' \in [Workers -> Cycle]
  BY IdleCycleType, BecomeType DEF Forget
<1>2. sender' \in [Periods -> Workers \cup {"nobody", "past"}]
  BY DEF TypeOK, Forget
<1>3. QED
  BY <1>1, <1>2 DEF TypeOK, Forget, store

-----------------------------------------------------------------------------
(* Type correctness: every stored object, every worker's locals and the    *)
(* history stay within their types, for any workers and run periods.       *)
THEOREM TypeCorrect == Spec => []TypeOK
<1>1. Init => TypeOK
  <2> SUFFICES ASSUME Init PROVE TypeOK
    OBVIOUS
  <2>1. latest \in [Modes -> [Periods -> StoredStages]]
    BY DEF Init, StoredStages
  <2>2. claim \in [Periods -> Claims]
    BY OldClaimsAssumption DEF Init, Claims
  <2>3. cyc \in [Workers -> Cycle]
    BY IdleCycleType DEF Init
  <2>4. notices \in [Periods -> 0 .. MaxNotices]
    BY BoundsAssumption DEF Init
  <2>5. QED
    BY <2>1, <2>2, <2>3, <2>4 DEF Init, TypeOK
<1>2. TypeOK /\ [Next]_vars => TypeOK'
  <2> SUFFICES ASSUME TypeOK, [Next]_vars PROVE TypeOK'
    OBVIOUS
  <2> USE DEF store, history
  <2>1. ASSUME NEW w \in Workers, NEW m \in CycleModes, NEW p \in Periods,
               NEW persist \in Persistence, StartCycle(w, m, p, persist)
        PROVE  TypeOK'
    <3>1. FreshCycle(m, p, persist) \in Cycle
      BY FreshCycleType, ModesAssumption, PersistenceAssumption
    <3>2. \A s \in Steps : [FreshCycle(m, p, persist) EXCEPT !.step = s] \in Cycle
      BY <3>1, OneFieldUpdate
    <3>3. [FreshCycle(m, p, persist) EXCEPT !.step =
              IF m = "live" /\ persist THEN "readLatest"
              ELSE IF persist THEN "writePlanned" ELSE "execute"] \in Cycle
      BY <3>2 DEF Steps
    <3>4. cyc' \in [Workers -> Cycle]
      BY <2>1, <3>3, BecomeType DEF StartCycle
    <3>5. QED
      BY <2>1, <3>4 DEF StartCycle, TypeOK
  <2>2. ASSUME NEW w \in Workers, ReadLatest(w) PROVE TypeOK'
    <3>1. latest["live"][cyc[w].period] \in StoredStages
      BY CycleFields DEF TypeOK, Modes
    <3>2. [cyc[w] EXCEPT !.step = "readClaim", !.seen = latest["live"][cyc[w].period]] \in Cycle
      BY <3>1, FieldUpdates DEF TypeOK, Steps
    <3>3. cyc' \in [Workers -> Cycle]
      BY <2>2, <3>2, BecomeType, RaiseType DEF ReadLatest
    <3>4. QED
      BY <2>2, <3>3 DEF ReadLatest, TypeOK
  <2>3. ASSUME NEW w \in Workers, ReadClaim(w) PROVE TypeOK'
    <3>1. SkippedResult(cyc[w].seen, FALSE) \in Results
      BY SkippedResultType, CycleFields DEF TypeOK
    <3>2. cyc' \in [Workers -> Cycle]
      BY <2>3, <3>1, ReturnType, RaiseType, GoType DEF ReadClaim, Steps
    <3>3. QED
      BY <2>3, <3>2 DEF ReadClaim, TypeOK
  <2>4. ASSUME NEW w \in Workers, WriteDuplicate(w) PROVE TypeOK'
    <3>1. PICK failed \in BOOLEAN :
            Persisted(w, cyc[w].seen, failed) /\ Return(w, SkippedResult(cyc[w].seen, failed))
      BY <2>4 DEF WriteDuplicate
    <3>2. cyc[w].seen \in StoredStages
      BY CycleFields DEF TypeOK
    <3>3. cyc' \in [Workers -> Cycle]
      BY <3>1, <3>2, SkippedResultType, ReturnType
    <3>4. latest' \in [Modes -> [Periods -> StoredStages]]
      BY <3>1, <3>2, PersistedType
    <3>5. QED
      BY <2>4, <3>3, <3>4 DEF WriteDuplicate, TypeOK
  <2>5. ASSUME NEW w \in Workers, WritePlanned(w) PROVE TypeOK'
    <3>1. PICK failed \in BOOLEAN :
            /\ Persisted(w, "ORDERS_PLANNED", failed)
            /\ Become(w, [cyc[w] EXCEPT !.step = "execute", !.persistError = failed])
      BY <2>5 DEF WritePlanned
    <3>2. [cyc[w] EXCEPT !.step = "execute", !.persistError = failed] \in Cycle
      BY FieldUpdates DEF TypeOK, Steps
    <3>3. cyc' \in [Workers -> Cycle]
      BY <3>1, <3>2, BecomeType
    <3>4. latest' \in [Modes -> [Periods -> StoredStages]]
      BY <3>1, PersistedType DEF StoredStages, Stages
    <3>5. QED
      BY <2>5, <3>3, <3>4 DEF WritePlanned, TypeOK
  <2>6. ASSUME NEW w \in Workers, NEW reason \in MarketBlocks, SkipOrder(w, reason) PROVE TypeOK'
    <3>1. cyc[w].skips \cup {reason} \in SUBSET SkipReasons
      BY CycleFields, BlocksAssumption DEF TypeOK
    <3>2. [cyc[w] EXCEPT !.skips = @ \cup {reason}] \in Cycle
      BY <3>1, OneFieldUpdate DEF TypeOK
    <3>3. QED
      BY <2>6, <3>2, BecomeType DEF SkipOrder, TypeOK
  <2>7. ASSUME NEW w \in Workers, PreviewOrder(w) PROVE TypeOK'
    <3>1. cyc[w].orders \cup {"previewed"} \in SUBSET OrderStatuses
      BY CycleFields DEF TypeOK, OrderStatuses
    <3>2. [cyc[w] EXCEPT !.orders = @ \cup {"previewed"}] \in Cycle
      BY <3>1, OneFieldUpdate DEF TypeOK
    <3>3. QED
      BY <2>7, <3>2, BecomeType DEF PreviewOrder, TypeOK
  <2>8. ASSUME NEW w \in Workers, PlaceOrder(w) PROVE TypeOK'
    <3>1. cyc' \in [Workers -> Cycle]
      BY <2>8, RaiseType, GoType DEF PlaceOrder, Steps
    <3>2. QED
      BY <2>8, <3>1 DEF PlaceOrder, TypeOK
  <2>9. ASSUME NEW w \in Workers, AcquireClaim(w) PROVE TypeOK'
    <3>1. [cyc[w] EXCEPT !.step = "submit", !.acquired = TRUE] \in Cycle
      BY FieldUpdates DEF TypeOK, Steps
    <3>2. cyc' \in [Workers -> Cycle]
      BY <2>9, <3>1, BecomeType, RaiseType, GoType DEF AcquireClaim, Steps
    <3>3. claim' \in [Periods -> Claims]
      BY <2>9 DEF AcquireClaim, TypeOK, Claims
    <3>4. QED
      BY <2>9, <3>2, <3>3 DEF AcquireClaim, TypeOK
  <2>10. ASSUME NEW w \in Workers, ReadBlocked(w) PROVE TypeOK'
    <3>1. latest["live"][cyc[w].period] \in StoredStages
      BY CycleFields DEF TypeOK, Modes
    <3>2. SkippedResult(latest["live"][cyc[w].period], cyc[w].persistError) \in Results
      BY <3>1, SkippedResultType, CycleFields DEF TypeOK
    <3>3. cyc' \in [Workers -> Cycle]
      BY <2>10, <3>2, ReturnType, RaiseType DEF ReadBlocked
    <3>4. QED
      BY <2>10, <3>3 DEF ReadBlocked, TypeOK
  <2>11. ASSUME NEW w \in Workers, OrderAccepted(w) PROVE TypeOK'
    <3>1. Sent(w, TRUE) \in Cycle
      BY SentType
    <3>2. Sent(w, TRUE).orders \cup {"submitted"} \in SUBSET OrderStatuses
      BY <3>1, CycleFields DEF OrderStatuses
    <3>3. [Sent(w, TRUE) EXCEPT !.step = "execute", !.orders = @ \cup {"submitted"}] \in Cycle
      BY <3>1, <3>2, FieldUpdates DEF Steps
    <3>4. QED
      BY <2>11, <3>3, BecomeType, RequestType DEF OrderAccepted, TypeOK
  <2>12. ASSUME NEW w \in Workers, OrderRejected(w) PROVE TypeOK'
    <3>1. Sent(w, FALSE) \in Cycle
      BY SentType
    <3>2. Sent(w, FALSE).skips \cup {"rejected"} \in SUBSET SkipReasons
      BY <3>1, CycleFields DEF SkipReasons
    <3>3. [Sent(w, FALSE) EXCEPT !.step = "execute", !.skips = @ \cup {"rejected"}] \in Cycle
      BY <3>1, <3>2, FieldUpdates DEF Steps
    <3>4. QED
      BY <2>12, <3>3, BecomeType, RequestType DEF OrderRejected, TypeOK
  <2>13. ASSUME NEW w \in Workers, OrderUnknown(w) PROVE TypeOK'
    <3>1. PICK alive \in BOOLEAN :
            /\ Request(w, alive)
            /\ Become(w, [Sent(w, alive) EXCEPT !.step = "writeCompleted",
                                                !.orders = @ \cup {"unknown"}])
      BY <2>13 DEF OrderUnknown
    <3>2. Sent(w, alive) \in Cycle
      BY SentType
    <3>3. Sent(w, alive).orders \cup {"unknown"} \in SUBSET OrderStatuses
      BY <3>2, CycleFields DEF OrderStatuses
    <3>4. [Sent(w, alive) EXCEPT !.step = "writeCompleted", !.orders = @ \cup {"unknown"}] \in Cycle
      BY <3>2, <3>3, FieldUpdates DEF Steps
    <3>5. QED
      BY <2>13, <3>1, <3>4, BecomeType, RequestType DEF OrderUnknown, TypeOK
  <2>14. ASSUME NEW w \in Workers, OrderRaises(w) PROVE TypeOK'
    <3>1. PICK alive \in BOOLEAN :
            Request(w, alive) /\ Become(w, Ended(Sent(w, alive), "respond", RaisedResult("live")))
      BY <2>14 DEF OrderRaises
    <3>2. Ended(Sent(w, alive), "respond", RaisedResult("live")) \in Cycle
      BY SentType, EndedType, RaisedResultType DEF Steps, Modes
    <3>3. QED
      BY <2>14, <3>1, <3>2, BecomeType, RequestType DEF OrderRaises, TypeOK
  <2>15. ASSUME NEW w \in Workers, OrderRefusedLocally(w) \/ StatusQueryRaises(w) PROVE TypeOK'
    BY <2>15, RaiseType DEF OrderRefusedLocally, StatusQueryRaises, TypeOK
  <2>16. ASSUME NEW w \in Workers, FinishExecution(w) PROVE TypeOK'
    <3>1. cyc' \in [Workers -> Cycle]
      BY <2>16, GoType DEF FinishExecution, Steps
    <3>2. QED
      BY <2>16, <3>1 DEF FinishExecution, TypeOK
  <2>17. ASSUME NEW w \in Workers, WriteCompleted(w) PROVE TypeOK'
    <3> DEFINE c == cyc[w]
               stage == CycleStage(c.mode, c.orders, c.skips)
    <3>1. PICK failed \in BOOLEAN :
            /\ Return(w, CompletedResult(c.mode, c.orders, c.skips, c.acquired,
                                         c.persistError \/ failed))
            /\ latest' = latest \/ Persisted(w, stage, failed)
      BY <2>17, Zenon DEF WriteCompleted
    <3>2. c \in Cycle
      BY DEF TypeOK
    <3>3. stage \in StoredStages
      BY <3>2, CycleFields, CycleStageType DEF StoredStages
    <3>4. (c.persistError \/ failed) \in BOOLEAN
      OBVIOUS
    <3>5. CompletedResult(c.mode, c.orders, c.skips, c.acquired, c.persistError \/ failed)
            \in Results
      BY <3>2, <3>4, CycleFields, CompletedResultType
    <3>6. cyc' \in [Workers -> Cycle]
      BY <3>1, <3>5, ReturnType
    <3>7. latest' \in [Modes -> [Periods -> StoredStages]]
      BY <3>1, <3>3, PersistedType DEF TypeOK
    <3>8. quiet' \in SUBSET Periods
      BY <2>17, <3>2, CycleFields DEF WriteCompleted, TypeOK
    <3>9. QED
      BY <2>17, <3>6, <3>7, <3>8 DEF WriteCompleted, TypeOK
  <2>18. ASSUME NEW w \in Workers, Notify(w) PROVE TypeOK'
    <3>1. cyc' \in [Workers -> Cycle]
      BY <2>18, GoType DEF Notify, Steps
    <3>2. incident' \in BOOLEAN
      BY <2>18 DEF Notify, TypeOK
    <3>3. \A p \in Periods : notices[p] < MaxNotices =>
            [notices EXCEPT ![p] = @ + 1] \in [Periods -> 0 .. MaxNotices]
      BY BoundsAssumption DEF TypeOK
    <3>4. cyc[w].result \in Results /\ cyc[w].period \in Periods
      BY CycleFields DEF TypeOK
    <3>5. notices' \in [Periods -> 0 .. MaxNotices]
      BY <2>18, <3>3, <3>4 DEF Notify, TypeOK
    <3>6. QED
      BY <2>18, <3>1, <3>2, <3>5 DEF Notify, TypeOK
  <2>19. ASSUME NEW w \in Workers, Respond(w) \/ Crash(w) PROVE TypeOK'
    BY <2>19, ForgetType DEF Respond, Crash
  <2>20. CASE Recover
    BY <2>20 DEF Recover, TypeOK
  <2>21. CASE UNCHANGED vars
    BY <2>21 DEF vars, TypeOK
  <2>22. QED
    BY <2>1, <2>2, <2>3, <2>4, <2>5, <2>6, <2>7, <2>8, <2>9, <2>10, <2>11, <2>12, <2>13,
       <2>14, <2>15, <2>16, <2>17, <2>18, <2>19, <2>20, <2>21
    DEF Next, Start, Proceed, Broker
<1>3. QED
  BY <1>1, <1>2, PTL DEF Spec
-----------------------------------------------------------------------------
(* The claim and whoever sends under it.                                   *)

(* A step of w's cycle that neither takes nor drops a claim. *)
KeepsClaim(w) ==
  /\ \A v \in Workers \ {w} : cyc'[v] = cyc[v]
  /\ cyc'[w].acquired = cyc[w].acquired
  /\ cyc'[w].period = cyc[w].period
  /\ cyc'[w].step # "idle"
  /\ cyc'[w].step = "submit" => cyc[w].acquired

LEMMA BecomeFacts ==
  ASSUME TypeOK, NEW w \in Workers, NEW c, Become(w, c)
  PROVE  cyc'[w] = c /\ \A v \in Workers \ {w} : cyc'[v] = cyc[v]
BY DEF TypeOK, Become

LEMMA GoKeeps ==
  ASSUME TypeOK, NEW w \in Workers, NEW s \in Steps \ {"idle"}, Go(w, s),
         s = "submit" => cyc[w].acquired
  PROVE  KeepsClaim(w)
<1>1. cyc[w] \in Cycle
  BY DEF TypeOK
<1>2. cyc'[w] = [cyc[w] EXCEPT !.step = s] /\ \A v \in Workers \ {w} : cyc'[v] = cyc[v]
  BY BecomeFacts DEF Go
<1>3. QED
  BY <1>1, <1>2 DEF KeepsClaim, Cycle

LEMMA EndedFields ==
  ASSUME NEW c \in Cycle, NEW s, NEW r
  PROVE  /\ Ended(c, s, r).step = s
         /\ Ended(c, s, r).acquired = c.acquired
         /\ Ended(c, s, r).period = c.period
BY DEF Ended, Cycle

LEMMA SentFields ==
  ASSUME TypeOK, NEW w \in Workers, NEW alive
  PROVE  /\ Sent(w, alive).acquired = cyc[w].acquired
         /\ Sent(w, alive).period = cyc[w].period
BY DEF Sent, Cycle, TypeOK

LEMMA ReturnKeeps ==
  ASSUME TypeOK, NEW w \in Workers, NEW r, Return(w, r)
  PROVE  KeepsClaim(w)
BY BecomeFacts, EndedFields DEF TypeOK, Return, KeepsClaim

LEMMA RaiseKeeps ==
  ASSUME TypeOK, NEW w \in Workers, Raise(w)
  PROVE  KeepsClaim(w)
BY BecomeFacts, EndedFields DEF TypeOK, Raise, KeepsClaim

(* A step that keeps the cycle's claim, and at most records w as the       *)
(* sender under the claim w has, keeps the invariant.                      *)
LEMMA KeepsInvariant ==
  ASSUME TypeOK, ClaimHeldByItsSender, NEW w \in Workers, KeepsClaim(w), claim' = claim,
         \/ sender' = sender
         \/ cyc[w].acquired /\ sender' = [sender EXCEPT ![cyc[w].period] = w]
  PROVE  ClaimHeldByItsSender'
<1>1. \A v \in Workers :
        cyc'[v].acquired = cyc[v].acquired /\ cyc'[v].period = cyc[v].period
  BY DEF KeepsClaim
<1>2. \A v \in Workers : cyc[v].period \in Periods
  BY CycleFields DEF TypeOK
<1>3. \A p \in Periods :
        \/ sender'[p] = sender[p]
        \/ cyc[w].acquired /\ p = cyc[w].period /\ sender'[p] = w
  <2>1. CASE sender' = sender
    BY <2>1
  <2>2. CASE cyc[w].acquired /\ sender' = [sender EXCEPT ![cyc[w].period] = w]
    <3>1. \A p \in Periods : sender'[p] = IF p = cyc[w].period THEN w ELSE sender[p]
      BY <2>2 DEF TypeOK
    <3>2. QED
      BY <2>2, <3>1
  <2>3. QED
    BY <2>1, <2>2
<1>4. \A v \in Workers : v \notin {"nobody", "past"}
  BY WorkersAssumption
<1>5. \A v \in Workers : At(v, "submit")' => cyc'[v].acquired
  BY DEF KeepsClaim, ClaimHeldByItsSender, At
<1>6. \A v \in Workers : At(v, "idle")' => ~cyc'[v].acquired
  BY DEF KeepsClaim, ClaimHeldByItsSender, At
<1>7. \A v \in Workers : cyc'[v].acquired =>
        claim'[cyc'[v].period] = "v2" /\ sender'[cyc'[v].period] \in {"nobody", v}
  BY <1>1, <1>2, <1>3 DEF ClaimHeldByItsSender
<1>8. \A u, v \in Workers :
        (cyc'[u].acquired /\ cyc'[v].acquired /\ cyc'[u].period = cyc'[v].period) => u = v
  BY <1>1 DEF ClaimHeldByItsSender
<1>9. \A p \in Periods : sender'[p] # "nobody" => claim'[p] = "v2"
  BY <1>3 DEF ClaimHeldByItsSender
<1>10. \A v \in Workers, p \in Periods :
         sender'[p] = v => cyc'[v].acquired /\ cyc'[v].period = p
  BY <1>1, <1>3 DEF ClaimHeldByItsSender
<1>11. QED
  BY <1>5, <1>6, <1>7, <1>8, <1>9, <1>10 DEF ClaimHeldByItsSender

LEMMA ForgetInvariant ==
  ASSUME TypeOK, ClaimHeldByItsSender, NEW w \in Workers, Forget(w)
  PROVE  ClaimHeldByItsSender'
<1>1. cyc'[w] = IdleCycle /\ \A v \in Workers \ {w} : cyc'[v] = cyc[v]
  BY BecomeFacts DEF Forget
<1>2. IdleCycle.acquired = FALSE /\ IdleCycle.step = "idle"
  BY DEF IdleCycle, FreshCycle
<1>3. claim' = claim
  BY DEF Forget, store
<1>4. \A p \in Periods : sender'[p] = IF sender[p] = w THEN "past" ELSE sender[p]
  BY DEF Forget
<1>5. \A v \in Workers : v \notin {"nobody", "past"}
  BY WorkersAssumption
<1>6. \A v \in Workers : cyc[v].period \in Periods
  BY CycleFields DEF TypeOK
<1>7. \A v \in Workers : cyc'[v].acquired => v # w
  BY <1>1, <1>2
<1>8. \A v \in Workers : At(v, "submit")' => cyc'[v].acquired
  BY <1>1, <1>2 DEF ClaimHeldByItsSender, At
<1>9. \A v \in Workers : At(v, "idle")' => ~cyc'[v].acquired
  BY <1>1, <1>2 DEF ClaimHeldByItsSender, At
<1>10. \A v \in Workers : cyc'[v].acquired =>
         claim'[cyc'[v].period] = "v2" /\ sender'[cyc'[v].period] \in {"nobody", v}
  <2>1. SUFFICES ASSUME NEW v \in Workers, cyc'[v].acquired
                 PROVE  claim'[cyc'[v].period] = "v2" /\ sender'[cyc'[v].period] \in {"nobody", v}
    OBVIOUS
  <2>2. v # w /\ cyc'[v] = cyc[v]
    BY <2>1, <1>1, <1>7
  <2>3. claim[cyc[v].period] = "v2" /\ sender[cyc[v].period] \in {"nobody", v}
    BY <2>1, <2>2 DEF ClaimHeldByItsSender
  <2>4. QED
    BY <1>3, <1>4, <1>5, <1>6, <2>2, <2>3
<1>11. \A u, v \in Workers :
         (cyc'[u].acquired /\ cyc'[v].acquired /\ cyc'[u].period = cyc'[v].period) => u = v
  BY <1>1, <1>7 DEF ClaimHeldByItsSender
<1>12. \A p \in Periods : sender'[p] # "nobody" => claim'[p] = "v2"
  BY <1>3, <1>4, <1>5 DEF ClaimHeldByItsSender
<1>13. \A v \in Workers, p \in Periods :
         sender'[p] = v => cyc'[v].acquired /\ cyc'[v].period = p
  <2>1. SUFFICES ASSUME NEW v \in Workers, NEW p \in Periods, sender'[p] = v
                 PROVE  cyc'[v].acquired /\ cyc'[v].period = p
    OBVIOUS
  <2>2. v # w /\ sender[p] = v
    BY <2>1, <1>4, <1>5
  <2>3. QED
    BY <2>2, <1>1 DEF ClaimHeldByItsSender
<1>14. QED
  BY <1>8, <1>9, <1>10, <1>11, <1>12, <1>13 DEF ClaimHeldByItsSender

(* Starting a cycle: an idle worker has no claim and sends nothing.        *)
LEMMA StartInvariant ==
  ASSUME TypeOK, ClaimHeldByItsSender, NEW w \in Workers, NEW m, NEW p \in Periods, NEW persist,
         StartCycle(w, m, p, persist)
  PROVE  ClaimHeldByItsSender'
<1>1. /\ cyc'[w].acquired = FALSE
      /\ cyc'[w].step \in {"readLatest", "writePlanned", "execute"}
      /\ \A v \in Workers \ {w} : cyc'[v] = cyc[v]
  BY BecomeFacts DEF StartCycle, FreshCycle
<1>2. claim' = claim /\ sender' = sender
  BY DEF StartCycle, store, history
<1>3. ~cyc[w].acquired
  BY DEF StartCycle, ClaimHeldByItsSender
<1>4. \A q \in Periods : sender[q] # w
  BY <1>3 DEF ClaimHeldByItsSender
<1>5. \A v \in Workers : v # w => cyc'[v] = cyc[v]
  BY <1>1
<1>6. \A v \in Workers : cyc'[v].acquired => v # w
  BY <1>1
<1>7. \A v \in Workers : At(v, "submit")' => cyc'[v].acquired
  BY <1>1, <1>5 DEF ClaimHeldByItsSender, At
<1>8. \A v \in Workers : At(v, "idle")' => ~cyc'[v].acquired
  BY <1>1, <1>5 DEF ClaimHeldByItsSender, At
<1>9. \A v \in Workers : cyc'[v].acquired =>
        claim'[cyc'[v].period] = "v2" /\ sender'[cyc'[v].period] \in {"nobody", v}
  BY <1>2, <1>5, <1>6 DEF ClaimHeldByItsSender
<1>10. \A u, v \in Workers :
         (cyc'[u].acquired /\ cyc'[v].acquired /\ cyc'[u].period = cyc'[v].period) => u = v
  BY <1>5, <1>6 DEF ClaimHeldByItsSender
<1>11. \A q \in Periods : sender'[q] # "nobody" => claim'[q] = "v2"
  BY <1>2 DEF ClaimHeldByItsSender
<1>12. \A v \in Workers, q \in Periods :
         sender'[q] = v => cyc'[v].acquired /\ cyc'[v].period = q
  BY <1>2, <1>4, <1>5 DEF ClaimHeldByItsSender
<1>13. QED
  BY <1>7, <1>8, <1>9, <1>10, <1>11, <1>12 DEF ClaimHeldByItsSender

(* Creating the claim: nobody remembered it and nobody had sent for it.    *)
LEMMA ClaimInvariant ==
  ASSUME TypeOK, ClaimHeldByItsSender, NEW w \in Workers, AcquireClaim(w)
  PROVE  ClaimHeldByItsSender'
<1> DEFINE p == cyc[w].period
           Create == claim' = [claim EXCEPT ![p] = "v2"]
<1>1. sender' = sender
  BY DEF AcquireClaim, history
<1>2. cyc[w] \in Cycle /\ p \in Periods
  BY CycleFields DEF TypeOK
<1>3. \/ /\ claim[p] = "none" /\ Create
         /\ Become(w, [cyc[w] EXCEPT !.step = "submit", !.acquired = TRUE])
      \/ claim[p] = "none" /\ Create /\ KeepsClaim(w)
      \/ claim' = claim /\ KeepsClaim(w)
  BY GoKeeps, RaiseKeeps DEF AcquireClaim, Steps
<1>4. CASE claim' = claim /\ KeepsClaim(w)
  BY <1>1, <1>4, KeepsInvariant
<1>5. CASE claim[p] = "none" /\ Create
  <2>1. \A q \in Periods : claim'[q] = IF q = p THEN "v2" ELSE claim[q]
    BY <1>5 DEF TypeOK
  <2>2. sender[p] = "nobody"
    BY <1>2, <1>5 DEF ClaimHeldByItsSender
  <2>3. \A v \in Workers : cyc[v].acquired => cyc[v].period # p
    BY <1>5 DEF ClaimHeldByItsSender
  <2>4. \A v \in Workers : cyc[v].period \in Periods
    BY CycleFields DEF TypeOK
  <2>5. /\ cyc'[w].period = p /\ cyc'[w].step # "idle"
        /\ cyc'[w].step = "submit" => cyc'[w].acquired
        /\ \A v \in Workers : v # w => cyc'[v] = cyc[v]
    <3>1. CASE KeepsClaim(w)
      BY <3>1 DEF KeepsClaim
    <3>2. CASE Become(w, [cyc[w] EXCEPT !.step = "submit", !.acquired = TRUE])
      <4>1. cyc'[w] = [cyc[w] EXCEPT !.step = "submit", !.acquired = TRUE]
              /\ \A v \in Workers \ {w} : cyc'[v] = cyc[v]
        BY <3>2, BecomeFacts
      <4>2. cyc'[w].step = "submit" /\ cyc'[w].acquired = TRUE /\ cyc'[w].period = p
        BY <1>2, <4>1 DEF Cycle
      <4>3. QED
        BY <4>1, <4>2
    <3>3. QED
      BY <1>3, <1>4, <1>5, <3>1, <3>2
  <2>6. \A v \in Workers : At(v, "submit")' => cyc'[v].acquired
    BY <2>5 DEF ClaimHeldByItsSender, At
  <2>7. \A v \in Workers : At(v, "idle")' => ~cyc'[v].acquired
    BY <2>5 DEF ClaimHeldByItsSender, At
  <2>8. \A v \in Workers : cyc'[v].acquired =>
          claim'[cyc'[v].period] = "v2" /\ sender'[cyc'[v].period] \in {"nobody", v}
    <3>1. SUFFICES ASSUME NEW v \in Workers, cyc'[v].acquired
                   PROVE  claim'[cyc'[v].period] = "v2" /\ sender'[cyc'[v].period] \in {"nobody", v}
      OBVIOUS
    <3>2. CASE v = w
      BY <1>1, <1>2, <2>1, <2>2, <2>5, <3>2
    <3>3. CASE v # w
      <4>1. cyc'[v] = cyc[v]
        BY <2>5, <3>3
      <4>2. claim[cyc[v].period] = "v2" /\ sender[cyc[v].period] \in {"nobody", v}
        BY <3>1, <4>1 DEF ClaimHeldByItsSender
      <4>3. QED
        BY <1>1, <2>1, <2>4, <4>1, <4>2
    <3>4. QED
      BY <3>2, <3>3
  <2>9. \A u, v \in Workers :
          (cyc'[u].acquired /\ cyc'[v].acquired /\ cyc'[u].period = cyc'[v].period) => u = v
    BY <2>3, <2>5 DEF ClaimHeldByItsSender
  <2>10. \A q \in Periods : sender'[q] # "nobody" => claim'[q] = "v2"
    BY <1>1, <2>1 DEF ClaimHeldByItsSender
  <2>11. \A v \in Workers, q \in Periods :
           sender'[q] = v => cyc'[v].acquired /\ cyc'[v].period = q
    <3>1. SUFFICES ASSUME NEW v \in Workers, NEW q \in Periods, sender'[q] = v
                   PROVE  cyc'[v].acquired /\ cyc'[v].period = q
      OBVIOUS
    <3>2. sender[q] = v /\ cyc[v].acquired /\ cyc[v].period = q
      BY <1>1, <3>1 DEF ClaimHeldByItsSender
    <3>3. CASE v # w
      BY <2>5, <3>2, <3>3
    <3>4. CASE v = w
      BY <2>2, <3>2, <3>4, WorkersAssumption
    <3>5. QED
      BY <3>3, <3>4
  <2>12. QED
    BY <2>6, <2>7, <2>8, <2>9, <2>10, <2>11 DEF ClaimHeldByItsSender
<1>6. QED
  BY <1>3, <1>4, <1>5

(* A step of w's cycle that leaves the claims and their senders alone, and *)
(* one that sends a broker request under the claim w has.                  *)
PassesBy(w) == KeepsClaim(w) /\ claim' = claim /\ sender' = sender

Requests(w) ==
  /\ KeepsClaim(w) /\ claim' = claim
  /\ At(w, "submit") /\ \E alive \in BOOLEAN : Request(w, alive)

LEMMA RequestsStep ==
  ASSUME TypeOK, NEW w \in Workers, NEW alive \in BOOLEAN, NEW c,
         At(w, "submit"), Request(w, alive), claim' = claim, Become(w, c),
         c.acquired = cyc[w].acquired, c.period = cyc[w].period, c.step \notin {"idle", "submit"}
  PROVE  Requests(w)
BY BecomeFacts DEF KeepsClaim, Requests

(* What the steps of a cycle are to the claims and their senders.          *)
LEMMA CycleSteps ==
  ASSUME TypeOK, [Next]_vars
  PROVE  \/ \E w \in Workers : Start(w) \/ PassesBy(w) \/ AcquireClaim(w) \/ Requests(w) \/ Forget(w)
         \/ cyc' = cyc /\ claim' = claim /\ sender' = sender
<1> USE DEF store, history
<1>1. ASSUME NEW w \in Workers, ReadLatest(w) PROVE PassesBy(w)
  <2>1. KeepsClaim(w)
    <3>1. CASE Raise(w)
      BY <3>1, RaiseKeeps
    <3>2. CASE Become(w, [cyc[w] EXCEPT !.step = "readClaim",
                                       !.seen = latest["live"][cyc[w].period]])
      <4> DEFINE c == [cyc[w] EXCEPT !.step = "readClaim",
                                     !.seen = latest["live"][cyc[w].period]]
      <4>1. c.acquired = cyc[w].acquired /\ c.period = cyc[w].period /\ c.step = "readClaim"
        BY DEF TypeOK, Cycle
      <4>2. QED
        BY <3>2, <4>1, BecomeFacts DEF KeepsClaim
    <3>3. QED
      BY <1>1, <3>1, <3>2 DEF ReadLatest
  <2>2. QED
    BY <1>1, <2>1 DEF PassesBy, ReadLatest
<1>2. ASSUME NEW w \in Workers, ReadClaim(w) PROVE PassesBy(w)
  <2>1. KeepsClaim(w)
    BY <1>2, ReturnKeeps, RaiseKeeps, GoKeeps DEF ReadClaim, Steps
  <2>2. QED
    BY <1>2, <2>1 DEF PassesBy, ReadClaim
<1>3. ASSUME NEW w \in Workers, WriteDuplicate(w) PROVE PassesBy(w)
  BY <1>3, ReturnKeeps DEF PassesBy, WriteDuplicate
<1>4. ASSUME NEW w \in Workers, WritePlanned(w) PROVE PassesBy(w)
  <2>1. PICK failed \in BOOLEAN :
          Become(w, [cyc[w] EXCEPT !.step = "execute", !.persistError = failed])
    BY <1>4 DEF WritePlanned
  <2> DEFINE c == [cyc[w] EXCEPT !.step = "execute", !.persistError = failed]
  <2>2. c.acquired = cyc[w].acquired /\ c.period = cyc[w].period /\ c.step = "execute"
    BY DEF TypeOK, Cycle
  <2>3. KeepsClaim(w)
    BY <2>1, <2>2, BecomeFacts DEF KeepsClaim
  <2>4. QED
    BY <1>4, <2>3 DEF PassesBy, WritePlanned
<1>5. ASSUME NEW w \in Workers, NEW reason, SkipOrder(w, reason) PROVE PassesBy(w)
  <2>1. KeepsClaim(w)
    BY <1>5, BecomeFacts DEF SkipOrder, At, KeepsClaim, TypeOK, Cycle
  <2>2. QED
    BY <1>5, <2>1 DEF PassesBy, SkipOrder
<1>6. ASSUME NEW w \in Workers, PreviewOrder(w) PROVE PassesBy(w)
  <2>1. KeepsClaim(w)
    BY <1>6, BecomeFacts DEF PreviewOrder, At, KeepsClaim, TypeOK, Cycle
  <2>2. QED
    BY <1>6, <2>1 DEF PassesBy, PreviewOrder
<1>7. ASSUME NEW w \in Workers, PlaceOrder(w) PROVE PassesBy(w)
  <2>1. KeepsClaim(w)
    BY <1>7, RaiseKeeps, GoKeeps DEF PlaceOrder, Steps
  <2>2. QED
    BY <1>7, <2>1 DEF PassesBy, PlaceOrder
<1>8. ASSUME NEW w \in Workers, ReadBlocked(w) PROVE PassesBy(w)
  BY <1>8, ReturnKeeps, RaiseKeeps DEF PassesBy, ReadBlocked
<1>9. ASSUME NEW w \in Workers, OrderAccepted(w) PROVE Requests(w)
  <2> DEFINE c == [Sent(w, TRUE) EXCEPT !.step = "execute", !.orders = @ \cup {"submitted"}]
  <2>1. c.acquired = cyc[w].acquired /\ c.period = cyc[w].period /\ c.step = "execute"
    BY SentType, SentFields DEF Cycle
  <2>2. QED
    BY <1>9, <2>1, RequestsStep DEF OrderAccepted
<1>10. ASSUME NEW w \in Workers, OrderRejected(w) PROVE Requests(w)
  <2> DEFINE c == [Sent(w, FALSE) EXCEPT !.step = "execute", !.skips = @ \cup {"rejected"}]
  <2>1. c.acquired = cyc[w].acquired /\ c.period = cyc[w].period /\ c.step = "execute"
    BY SentType, SentFields DEF Cycle
  <2>2. QED
    BY <1>10, <2>1, RequestsStep DEF OrderRejected
<1>11. ASSUME NEW w \in Workers, OrderUnknown(w) PROVE Requests(w)
  <2>1. PICK alive \in BOOLEAN :
          /\ Request(w, alive)
          /\ Become(w, [Sent(w, alive) EXCEPT !.step = "writeCompleted",
                                              !.orders = @ \cup {"unknown"}])
    BY <1>11 DEF OrderUnknown
  <2> DEFINE c == [Sent(w, alive) EXCEPT !.step = "writeCompleted",
                                         !.orders = @ \cup {"unknown"}]
  <2>2. c.acquired = cyc[w].acquired /\ c.period = cyc[w].period /\ c.step = "writeCompleted"
    BY SentType, SentFields DEF Cycle
  <2>3. QED
    BY <1>11, <2>1, <2>2, RequestsStep DEF OrderUnknown
<1>12. ASSUME NEW w \in Workers, OrderRaises(w) PROVE Requests(w)
  <2>1. PICK alive \in BOOLEAN :
          Request(w, alive) /\ Become(w, Ended(Sent(w, alive), "respond", RaisedResult("live")))
    BY <1>12 DEF OrderRaises
  <2> DEFINE c == Ended(Sent(w, alive), "respond", RaisedResult("live"))
  <2>2. c.acquired = cyc[w].acquired /\ c.period = cyc[w].period /\ c.step = "respond"
    BY SentType, SentFields, EndedFields
  <2>3. QED
    BY <1>12, <2>1, <2>2, RequestsStep DEF OrderRaises
<1>13. ASSUME NEW w \in Workers, OrderRefusedLocally(w) \/ StatusQueryRaises(w)
       PROVE  PassesBy(w)
  BY <1>13, RaiseKeeps DEF PassesBy, OrderRefusedLocally, StatusQueryRaises
<1>14. ASSUME NEW w \in Workers, FinishExecution(w) PROVE PassesBy(w)
  <2>1. KeepsClaim(w)
    BY <1>14, GoKeeps DEF FinishExecution, Steps
  <2>2. QED
    BY <1>14, <2>1 DEF PassesBy, FinishExecution
<1>15. ASSUME NEW w \in Workers, WriteCompleted(w) PROVE PassesBy(w)
  <2>1. KeepsClaim(w)
    BY <1>15, ReturnKeeps DEF WriteCompleted
  <2>2. QED
    BY <1>15, <2>1 DEF PassesBy, WriteCompleted
<1>16. ASSUME NEW w \in Workers, Notify(w) PROVE PassesBy(w)
  <2>1. KeepsClaim(w)
    BY <1>16, GoKeeps DEF Notify, Steps
  <2>2. QED
    BY <1>16, <2>1 DEF PassesBy, Notify
<1>17. ASSUME NEW w \in Workers, Respond(w) \/ Crash(w) PROVE Forget(w)
  BY <1>17 DEF Respond, Crash
<1>18. CASE Recover \/ UNCHANGED vars
  BY <1>18 DEF Recover, vars
<1>19. QED
  BY <1>1, <1>2, <1>3, <1>4, <1>5, <1>6, <1>7, <1>8, <1>9, <1>10, <1>11, <1>12, <1>13, <1>14, <1>15, <1>16, <1>17, <1>18
  DEF Next, Proceed, Broker

(* A cycle about to send remembers the period's claim; a remembered claim  *)
(* is in the store and nobody else holds it or has sent under it.          *)
THEOREM ClaimHeld == Spec => []ClaimHeldByItsSender
<1>1. Init => ClaimHeldByItsSender
  <2> SUFFICES ASSUME Init PROVE ClaimHeldByItsSender
    OBVIOUS
  <2>1. \A w \in Workers : cyc[w].acquired = FALSE /\ cyc[w].step = "idle"
    BY DEF Init, IdleCycle, FreshCycle
  <2>2. \A p \in Periods : sender[p] = "nobody"
    BY DEF Init
  <2>3. QED
    BY <2>1, <2>2, WorkersAssumption DEF ClaimHeldByItsSender, At
<1>2. TypeOK /\ ClaimHeldByItsSender /\ [Next]_vars => ClaimHeldByItsSender'
  <2> SUFFICES ASSUME TypeOK, ClaimHeldByItsSender, [Next]_vars PROVE ClaimHeldByItsSender'
    OBVIOUS
  <2>1. ASSUME NEW w \in Workers, Start(w) PROVE ClaimHeldByItsSender'
    BY <2>1, StartInvariant DEF Start
  <2>2. ASSUME NEW w \in Workers, PassesBy(w) PROVE ClaimHeldByItsSender'
    BY <2>2, KeepsInvariant DEF PassesBy
  <2>3. ASSUME NEW w \in Workers, AcquireClaim(w) PROVE ClaimHeldByItsSender'
    BY <2>3, ClaimInvariant
  <2>4. ASSUME NEW w \in Workers, Requests(w) PROVE ClaimHeldByItsSender'
    <3>1. cyc[w].acquired /\ sender' = [sender EXCEPT ![cyc[w].period] = w]
      BY <2>4 DEF Requests, ClaimHeldByItsSender, Request
    <3>2. QED
      BY <2>4, <3>1, KeepsInvariant DEF Requests
  <2>5. ASSUME NEW w \in Workers, Forget(w) PROVE ClaimHeldByItsSender'
    BY <2>5, ForgetInvariant
  <2>6. CASE cyc' = cyc /\ claim' = claim /\ sender' = sender
    BY <2>6 DEF ClaimHeldByItsSender, At
  <2>7. QED
    BY <2>1, <2>2, <2>3, <2>4, <2>5, <2>6, CycleSteps
<1>3. QED
  BY <1>1, <1>2, TypeCorrect, PTL DEF Spec

(* A live broker request is never ahead of its durable claim: the object   *)
(* acquire_submission_claim creates is in the store from before the first  *)
(* request of a period on.                                                 *)
THEOREM ClaimIsDurable == Spec => []ClaimPrecedesRequest
<1>1. TypeOK /\ ClaimHeldByItsSender => ClaimPrecedesRequest
  BY DEF ClaimHeldByItsSender, ClaimPrecedesRequest, HasEffectiveClaim
<1>2. QED
  BY <1>1, TypeCorrect, ClaimHeld, PTL

(* At most one cycle ever sends live broker requests for a run period,     *)
(* however many workers, retries, crashes and store failures there are:    *)
(* what acquire_submission_claim in run_strategy_cycle is for.             *)
THEOREM OneSubmitter == Spec => AtMostOneSubmitter
<1> DEFINE OneStep == \A p \in Periods :
             sender[p] # "nobody" => sender'[p] \in {sender[p], "past"}
<1>1. ASSUME TypeOK, ClaimHeldByItsSender, [Next]_vars PROVE OneStep
  <2>1. CASE sender' = sender
    BY <2>1
  <2>2. ASSUME NEW w \in Workers, Forget(w) PROVE OneStep
    <3>1. \A p \in Periods : sender'[p] = IF sender[p] = w THEN "past" ELSE sender[p]
      BY <2>2 DEF Forget
    <3>2. QED
      BY <3>1
  <2>3. ASSUME NEW w \in Workers, Requests(w) PROVE OneStep
    <3>1. sender[cyc[w].period] \in {"nobody", w}
      BY <1>1, <2>3 DEF ClaimHeldByItsSender, Requests
    <3>2. \A p \in Periods : sender'[p] = IF p = cyc[w].period THEN w ELSE sender[p]
      BY <1>1, <2>3 DEF Requests, Request, TypeOK
    <3>3. QED
      BY <3>1, <3>2
  <2>4. ASSUME NEW w \in Workers, Start(w) \/ AcquireClaim(w) PROVE sender' = sender
    BY <2>4 DEF Start, StartCycle, AcquireClaim, history
  <2>5. QED
    BY <1>1, <2>1, <2>2, <2>3, <2>4, CycleSteps DEF PassesBy
<1>2. QED
  BY <1>1, TypeCorrect, ClaimHeld, PTL DEF Spec, AtMostOneSubmitter

-----------------------------------------------------------------------------
(* How a claim comes to be stored with nothing sent under it.              *)

Acts(w) ==
  \/ Start(w) \/ Proceed(w) \/ PreviewOrder(w) \/ Crash(w)
  \/ \E reason \in MarketBlocks : SkipOrder(w, reason)

LEMMA ActsOnItself ==
  ASSUME TypeOK, NEW w \in Workers, Acts(w)
  PROVE  \A v \in Workers \ {w} : cyc'[v] = cyc[v]
<1>1. ASSUME Start(w) PROVE \E c : Become(w, c)
  BY <1>1 DEF Start, StartCycle
<1>2. ASSUME ReadLatest(w) \/ ReadClaim(w) \/ WriteDuplicate(w) \/ WritePlanned(w)
      PROVE \E c : Become(w, c)
  BY <1>2 DEF ReadLatest, ReadClaim, WriteDuplicate, WritePlanned, Go, Raise, Return
<1>3. ASSUME PlaceOrder(w) \/ AcquireClaim(w) \/ ReadBlocked(w) PROVE \E c : Become(w, c)
  BY <1>3 DEF PlaceOrder, AcquireClaim, ReadBlocked, Go, Raise, Return
<1>4. ASSUME Broker(w) PROVE \E c : Become(w, c)
  BY <1>4 DEF Broker, OrderAccepted, OrderRejected, OrderUnknown, OrderRaises,
              OrderRefusedLocally, StatusQueryRaises, Raise
<1>5. ASSUME FinishExecution(w) \/ WriteCompleted(w) PROVE \E c : Become(w, c)
  BY <1>5 DEF FinishExecution, WriteCompleted, Go, Return
<1>6. ASSUME Notify(w) \/ Respond(w) \/ Crash(w) PROVE \E c : Become(w, c)
  BY <1>6 DEF Notify, Respond, Crash, Forget, Go
<1>7. ASSUME PreviewOrder(w) \/ \E reason \in MarketBlocks : SkipOrder(w, reason)
      PROVE \E c : Become(w, c)
  BY <1>7 DEF PreviewOrder, SkipOrder
<1>8. \E c : Become(w, c)
  BY <1>1, <1>2, <1>3, <1>4, <1>5, <1>6, <1>7 DEF Acts, Proceed
<1>9. QED
  BY <1>8, BecomeFacts

(* At the request only the broker's answers, a local refusal and a crash   *)
(* are possible.                                                           *)
LEMMA OnlyFromSubmit ==
  ASSUME NEW w \in Workers, At(w, "submit"), Acts(w)
  PROVE  OrderRefusedLocally(w) \/ Crash(w) \/ \E alive \in BOOLEAN : Request(w, alive)
<1>1. ~Start(w) /\ ~PreviewOrder(w) /\ ~\E reason \in MarketBlocks : SkipOrder(w, reason)
  BY DEF At, Start, StartCycle, PreviewOrder, SkipOrder
<1>2. ~ReadLatest(w) /\ ~ReadClaim(w) /\ ~WriteDuplicate(w) /\ ~WritePlanned(w)
  BY DEF At, ReadLatest, ReadClaim, WriteDuplicate, WritePlanned
<1>3. ~PlaceOrder(w) /\ ~AcquireClaim(w) /\ ~ReadBlocked(w) /\ ~StatusQueryRaises(w)
  BY DEF At, PlaceOrder, AcquireClaim, ReadBlocked, StatusQueryRaises
<1>4. ~FinishExecution(w) /\ ~WriteCompleted(w) /\ ~Notify(w) /\ ~Respond(w)
  BY DEF At, FinishExecution, WriteCompleted, Notify, Respond
<1>5. OrderAccepted(w) \/ OrderRejected(w) \/ OrderUnknown(w) \/ OrderRaises(w)
        => \E alive \in BOOLEAN : Request(w, alive)
  BY DEF OrderAccepted, OrderRejected, OrderUnknown, OrderRaises
<1>6. QED
  BY <1>1, <1>2, <1>3, <1>4, <1>5 DEF Acts, Proceed, Broker

(* Only a claim being created changes the claims.                          *)
LEMMA OnlyAcquireClaims ==
  ASSUME NEW w \in Workers, Acts(w), ~AcquireClaim(w)
  PROVE  claim' = claim
<1> USE DEF store, history
<1>1. Start(w) => claim' = claim
  BY DEF Start, StartCycle
<1>2. ReadLatest(w) \/ ReadClaim(w) \/ WriteDuplicate(w) \/ WritePlanned(w) => claim' = claim
  BY DEF ReadLatest, ReadClaim, WriteDuplicate, WritePlanned
<1>3. PlaceOrder(w) \/ ReadBlocked(w) => claim' = claim
  BY DEF PlaceOrder, ReadBlocked
<1>4. Broker(w) => claim' = claim
  BY DEF Broker, OrderAccepted, OrderRejected, OrderUnknown, OrderRaises,
         OrderRefusedLocally, StatusQueryRaises
<1>5. FinishExecution(w) \/ WriteCompleted(w) => claim' = claim
  BY DEF FinishExecution, WriteCompleted
<1>6. Notify(w) \/ Respond(w) \/ Crash(w) => claim' = claim
  BY DEF Notify, Respond, Crash, Forget
<1>7. PreviewOrder(w) \/ (\E reason \in MarketBlocks : SkipOrder(w, reason)) => claim' = claim
  BY DEF PreviewOrder, SkipOrder
<1>8. QED
  BY <1>1, <1>2, <1>3, <1>4, <1>5, <1>6, <1>7 DEF Acts, Proceed

(* A period once sent for stays sent for: history only grows.              *)
LEMMA SentForStays ==
  ASSUME TypeOK, [Next]_vars, NEW p \in Periods, sender'[p] = "nobody"
  PROVE  sender[p] = "nobody"
<1> USE DEF store, history
<1>1. CASE cyc' = cyc /\ claim' = claim /\ sender' = sender
  BY <1>1
<1>2. ASSUME NEW w \in Workers, Start(w) \/ PassesBy(w) \/ AcquireClaim(w) PROVE sender' = sender
  BY <1>2 DEF Start, StartCycle, PassesBy, AcquireClaim
<1>3. ASSUME NEW w \in Workers, Requests(w) PROVE sender[p] = "nobody"
  <2>1. PICK alive \in BOOLEAN : Request(w, alive)
    BY <1>3 DEF Requests
  <2>2. sender' = [sender EXCEPT ![cyc[w].period] = w]
    BY <2>1 DEF Request
  <2>3. w # "nobody"
    BY WorkersAssumption
  <2>4. QED
    BY <2>2, <2>3 DEF TypeOK
<1>4. ASSUME NEW w \in Workers, Forget(w) PROVE sender[p] = "nobody"
  BY <1>4 DEF Forget
<1>5. QED
  BY <1>1, <1>2, <1>3, <1>4, CycleSteps

(* A creation whose cycle is not about to send afterwards: its call failed,*)
(* and the cycle does not remember the claim.                              *)
LEMMA ClaimStoredAside ==
  ASSUME TypeOK, ClaimHeldByItsSender, NEW w \in Workers, AcquireClaim(w),
         claim[cyc[w].period] = "none",
         ~(cyc'[w].step = "submit" /\ cyc'[w].period = cyc[w].period)
  PROVE  StoreMayFail /\ ~cyc'[w].acquired
<1>1. ~cyc[w].acquired
  BY DEF ClaimHeldByItsSender
<1>2. ~Become(w, [cyc[w] EXCEPT !.step = "submit", !.acquired = TRUE])
  <2> SUFFICES ASSUME Become(w, [cyc[w] EXCEPT !.step = "submit", !.acquired = TRUE])
               PROVE  FALSE
    OBVIOUS
  <2> DEFINE c == [cyc[w] EXCEPT !.step = "submit", !.acquired = TRUE]
  <2>1. c.period = cyc[w].period /\ c.step = "submit"
    BY DEF TypeOK, Cycle
  <2>2. QED
    BY <2>1, BecomeFacts
<1>3. StoreMayFail /\ (Go(w, "readBlocked") \/ Raise(w))
  BY <1>2 DEF AcquireClaim
<1>4. Go(w, "readBlocked") => KeepsClaim(w)
  BY GoKeeps DEF Steps
<1>5. QED
  BY <1>1, <1>3, <1>4, RaiseKeeps DEF KeepsClaim

(* acquire_submission_claim is asked for right before the first request:   *)
(* a claim with nothing sent under it is left only by a crash between the  *)
(* two, by a local refusal, or by a creation that raised or said that the  *)
(* claim exists.                                                           *)
THEOREM ClaimsStrandedByFaults == Spec => ClaimStrandedOnlyByFault
<1> DEFINE OneStep == \A p \in Periods : Stranded(p)' /\ ~Stranded(p) => LosesClaim(p)
<1>1. ASSUME TypeOK, ClaimHeldByItsSender, [Next]_vars PROVE OneStep
  <2> SUFFICES ASSUME NEW p \in Periods, Stranded(p)', ~Stranded(p) PROVE LosesClaim(p)
    OBVIOUS
  <2>1. /\ claim'[p] = "v2" /\ sender'[p] = "nobody"
        /\ \A w \in Workers : ~(cyc'[w].step = "submit" /\ cyc'[w].period = p)
    BY DEF Stranded, At
  <2>2. sender[p] = "nobody"
    BY <1>1, <2>1, SentForStays
  <2>3. CASE cyc' = cyc /\ claim' = claim
    BY <2>1, <2>2, <2>3 DEF Stranded, At
  <2>4. ASSUME NEW v \in Workers, Acts(v) PROVE LosesClaim(p)
    <3>1. CASE claim'[p] # claim[p]
      <4>1. AcquireClaim(v)
        BY <2>4, <3>1, OnlyAcquireClaims
      <4>2. cyc[v].period = p /\ claim[p] = "none" /\ At(v, "claim")
        BY <1>1, <3>1, <4>1 DEF AcquireClaim, TypeOK
      <4>3. StoreMayFail /\ ~cyc'[v].acquired
        BY <1>1, <2>1, <4>1, <4>2, ClaimStoredAside
      <4>4. QED
        BY <4>2, <4>3 DEF LosesClaim
    <3>2. CASE claim'[p] = claim[p]
      <4>1. PICK w \in Workers : cyc[w].step = "submit" /\ cyc[w].period = p
        BY <2>1, <2>2, <3>2 DEF Stranded, At
      <4>2. w = v
        BY <1>1, <2>1, <2>4, <4>1, ActsOnItself
      <4>3. OrderRefusedLocally(v) \/ Crash(v) \/ \E alive \in BOOLEAN : Request(v, alive)
        BY <2>4, <4>1, <4>2, OnlyFromSubmit DEF At
      <4>4. ASSUME NEW alive \in BOOLEAN, Request(v, alive) PROVE FALSE
        <5>1. sender' = [sender EXCEPT ![p] = v]
          BY <4>1, <4>2, <4>4 DEF Request
        <5>2. v # "nobody"
          BY WorkersAssumption
        <5>3. QED
          BY <1>1, <2>1, <5>1, <5>2 DEF TypeOK
      <4>5. QED
        BY <4>1, <4>2, <4>3, <4>4 DEF LosesClaim, At
    <3>3. QED
      BY <3>1, <3>2
  <2>5. (cyc' = cyc /\ claim' = claim) \/ \E v \in Workers : Acts(v)
    BY <1>1 DEF Next, Acts, vars, Recover, store
  <2>6. QED
    BY <2>3, <2>4, <2>5
<1>2. QED
  BY <1>1, TypeCorrect, ClaimHeld, PTL DEF Spec, ClaimStrandedOnlyByFault
=============================================================================
