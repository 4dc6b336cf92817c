--------------------------- MODULE IncidentTracker --------------------------
(***************************************************************************)
(* One incident key of the notification tracker: concurrent observers      *)
(* (cycles and heartbeat jobs of any instance) reserve the alert in a GCS  *)
(* marker by compare-and-set, send it, and record the delivery.  A marker  *)
(* is one object; keys share nothing.  The transition key of a reservation *)
(* is a digest of its generation and of what led to it: the generation     *)
(* stands for it.                                                          *)
(***************************************************************************)
EXTENDS Naturals, FiniteSets

CONSTANTS
  Observers,        \* calls of _tracked that may run at the same time
  Severities,       \* severities an alert may have
  Attempts,         \* compare-and-set attempts of one observation
  StoreFaults,      \* a store call may raise, a write after it was applied
  Crashes,          \* an observer may be killed
  MaxClock,         \* bound: ticks of the clock
  MaxObservations   \* bound: observations of a behaviour

ASSUME IncidentTrackerAssumption ==
  /\ Severities \subseteq Nat /\ Severities # {}
  /\ Attempts \in Nat \ {0}
  /\ StoreFaults \in BOOLEAN /\ Crashes \in BOOLEAN
  /\ MaxClock \in Nat /\ MaxObservations \in Nat

States == {"none", "alert", "healthy"}
Deliveries == {"not_attempted", "pending", "uncertain", "delivered"}

(* The marker: version 0 is the absence of the object. *)
Markers ==
  [version : Nat, active : BOOLEAN, state : States, severity : Nat, generation : Nat,
   delivery : Deliveries, observed : Nat]

NoMarker ==
  [version |-> 0, active |-> FALSE, state |-> "none", severity |-> 0, generation |-> 0,
   delivery |-> "not_attempted", observed |-> 0]

Steps == {"idle", "read", "reserve", "send", "readBack", "record"}

Observations ==
  [step : Steps, number : Nat, now : Nat, recovered : BOOLEAN, severity : Nat, seen : Markers,
   attempt : Nat, generation : Nat, receipt : BOOLEAN]

VARIABLES
  marker,    \* the object in the store
  clock,     \* the time
  obs,       \* what each observer is doing
  begun,     \* observations begun so far
  sent,      \* history: alerts handed to the transport
  lost       \* history: reservations whose holder was stopped by a fault

vars == <<marker, clock, obs, begun, sent, lost>>

(* An alert sent: its reservation, the observation that sent it, and       *)
(* whether the transport returned a receipt of its own.                    *)
Sends == [generation : Nat, severity : Nat, by : Nat, receipt : BOOLEAN]

IdleObserver ==
  [step |-> "idle", number |-> 0, now |-> 0, recovered |-> FALSE, severity |-> 0, seen |-> NoMarker,
   attempt |-> 0, generation |-> 0, receipt |-> FALSE]

Init ==
  /\ marker = NoMarker
  /\ clock = 0
  /\ obs = [o \in Observers |-> IdleObserver]
  /\ begun = 0
  /\ sent = {} /\ lost = {}

-----------------------------------------------------------------------------
At(o, step) == obs[o].step = step

Become(o, observation) == obs' = [obs EXCEPT ![o] = observation]

(* The observer is done, by its answer, an exception or its death. *)
Finish(o) == Become(o, IdleObserver)

(* Fault: markers of later observations are accepted. *)
OutOfOrderIgnored(o) == FALSE

(* MarkerStore.read rejects a marker a later observation has written. *)
OutOfOrder(o) == marker.observed > obs[o].now

(* MarkerStore.compare_and_set stamps the observer's time on what it writes. *)
Write(o, value) ==
  marker' = [value EXCEPT !.version = marker.version + 1, !.observed = obs[o].now]

(* Fault: the write has no generation precondition. *)
UnchangedAssumed(o) == TRUE

Unchanged(o) == marker.version = obs[o].seen.version

-----------------------------------------------------------------------------
(* _tracked begins with the time of the cycle or heartbeat. *)
Begin(o) ==
  /\ At(o, "idle") /\ begun < MaxObservations
  /\ begun' = begun + 1
  /\ \E recovered \in BOOLEAN : \E severity \in IF recovered THEN {1} ELSE Severities :
       Become(o, [IdleObserver EXCEPT !.step = "read", !.number = begun + 1,
                                      !.now = clock, !.recovered = recovered,
                                      !.severity = severity])
  /\ UNCHANGED <<marker, clock, sent, lost>>

Tick ==
  /\ clock < MaxClock /\ clock' = clock + 1
  /\ UNCHANGED <<marker, obs, begun, sent, lost>>

(* A read may always raise: its two requests are tied to one version, and  *)
(* a write may come between them.                                          *)
ReadMarker(o) ==
  /\ At(o, "read")
  /\ \/ ~OutOfOrder(o) /\ Become(o, [obs[o] EXCEPT !.step = "reserve", !.seen = marker])
     \/ Finish(o)
  /\ UNCHANGED <<marker, clock, begun, sent, lost>>

(* Fault: a rise in severity of an active incident is a duplicate. *)
EscalatesOnce(observation) == ~observation.recovered /\ ~observation.seen.active

(* What the observation makes of the marker it has read. *)
Escalates(observation) ==
  /\ ~observation.recovered
  /\ ~observation.seen.active \/ observation.severity > observation.seen.severity

(* Fault: a reservation is written with a status no reader accepts. *)
ReservationUnlisted(observation) ==
  [observation.seen EXCEPT !.active = TRUE, !.state = "alert",
                           !.severity = observation.severity,
                           !.generation = @ + 1, !.delivery = "reserved"]

Reservation(observation) ==
  LET seen == observation.seen
  IN  IF Escalates(observation)
        THEN [seen EXCEPT !.active = TRUE, !.state = "alert",
                          !.severity = observation.severity,
                          !.generation = seen.generation + 1, !.delivery = "pending"]
        ELSE [seen EXCEPT !.active = ~observation.recovered /\ seen.active,
                          !.state = IF observation.recovered THEN "healthy" ELSE "alert",
                          !.severity = observation.severity]

(* One attempt of IncidentTracker.observe; an equal marker is not written. *)
Reserve(o) ==
  LET value == Reservation(obs[o]) IN
  /\ At(o, "reserve")
  /\ \/ /\ value = obs[o].seen
        /\ Finish(o)
        /\ UNCHANGED marker
     \/ /\ value # obs[o].seen /\ Unchanged(o)
        /\ Write(o, value)
        /\ IF Escalates(obs[o])
             THEN Become(o, [obs[o] EXCEPT !.step = "send", !.generation = value.generation])
             ELSE Finish(o)
     \/ /\ value # obs[o].seen /\ ~Unchanged(o)
        /\ IF obs[o].attempt + 1 < Attempts
             THEN Become(o, [obs[o] EXCEPT !.step = "read", !.attempt = @ + 1])
             ELSE Finish(o)
        /\ UNCHANGED marker
  /\ UNCHANGED <<clock, begun, sent, lost>>

(* The write raises, whether it was applied or not: nothing is sent, and   *)
(* a reservation that was applied stays without its alert.                 *)
ReserveRaises(o) ==
  LET value == Reservation(obs[o]) IN
  /\ StoreFaults /\ At(o, "reserve") /\ value # obs[o].seen
  /\ \/ UNCHANGED <<marker, lost>>
     \/ /\ Unchanged(o) /\ Write(o, value)
        /\ lost' = IF Escalates(obs[o]) THEN lost \cup {value.generation} ELSE lost
  /\ Finish(o)
  /\ UNCHANGED <<clock, begun, sent>>

(* The alert goes to the transport, which answers with a receipt, without  *)
(* one, or raises.                                                         *)
Send(o) ==
  /\ At(o, "send")
  /\ \E receipt \in BOOLEAN :
       /\ sent' = sent \cup {[generation |-> obs[o].generation, severity |-> obs[o].severity,
                              by |-> obs[o].number, receipt |-> receipt]}
       /\ Become(o, [obs[o] EXCEPT !.step = "readBack", !.receipt = receipt])
  /\ UNCHANGED <<marker, clock, begun, lost>>

(* Fault: the delivery is recorded on whatever reservation is current. *)
ReadBackAnyTransition(o) ==
  /\ At(o, "readBack")
  /\ \/ ~OutOfOrder(o) /\ Become(o, [obs[o] EXCEPT !.step = "record", !.seen = marker])
     \/ Finish(o)
  /\ UNCHANGED <<marker, clock, begun, sent, lost>>

(* record_delivery reads the marker again, and gives up when a later       *)
(* observation or another reservation has written it, or the read raises.  *)
ReadBack(o) ==
  /\ At(o, "readBack")
  /\ \/ /\ ~OutOfOrder(o) /\ marker.generation = obs[o].generation
        /\ Become(o, [obs[o] EXCEPT !.step = "record", !.seen = marker])
     \/ Finish(o)
  /\ UNCHANGED <<marker, clock, begun, sent, lost>>

Recorded(observation) ==
  [observation.seen EXCEPT !.delivery = IF observation.receipt THEN "delivered"
                                                              ELSE "uncertain"]

RecordDelivery(o) ==
  /\ At(o, "record")
  /\ \/ Unchanged(o) /\ Write(o, Recorded(obs[o]))
     \/ (~Unchanged(o) \/ StoreFaults) /\ UNCHANGED marker
  /\ Finish(o)
  /\ UNCHANGED <<clock, begun, sent, lost>>

Crash(o) ==
  /\ Crashes /\ ~At(o, "idle")
  /\ lost' = IF At(o, "send") THEN lost \cup {obs[o].generation} ELSE lost
  /\ Finish(o)
  /\ UNCHANGED <<marker, clock, begun, sent>>

Next ==
  \/ \E o \in Observers :
       \/ Begin(o) \/ ReadMarker(o) \/ Reserve(o) \/ ReserveRaises(o) \/ Send(o)
       \/ ReadBack(o) \/ RecordDelivery(o) \/ Crash(o)
  \/ Tick

Spec == Init /\ [][Next]_vars

-----------------------------------------------------------------------------
(* Marker and observers have their types: IncidentTracker.observe writes   *)
(* only states, severities and delivery_status values it can read again.   *)
TypeOK ==
  /\ marker \in Markers
  /\ clock \in Nat /\ begun \in Nat
  /\ obs \in [Observers -> Observations]
  /\ sent \subseteq Sends /\ lost \subseteq Nat

(* A reservation is sent at most once, whatever conflicts, crashes and     *)
(* uncertain writes there are: pending and uncertain alerts are never      *)
(* repeated.                                                               *)
OneSendPerReservation ==
  \A s, t \in sent : s.generation = t.generation => s = t

(* The inductive form: a reservation has one holder, who has not sent it,  *)
(* and a marker read is the marker stored while the version is the same.   *)
ReservationIsHeld ==
  /\ OneSendPerReservation
  /\ \A s \in sent : s.generation <= marker.generation
  /\ \A o \in Observers : At(o, "send") =>
       /\ obs[o].generation <= marker.generation
       /\ \A s \in sent : s.generation # obs[o].generation
       /\ \A p \in Observers \ {o} : At(p, "send") => obs[p].generation # obs[o].generation
  /\ \A o \in Observers : obs[o].step \in {"reserve", "record"} =>
       /\ obs[o].seen.version <= marker.version
       /\ obs[o].seen.version = marker.version => obs[o].seen = marker

(* "delivered" is on a marker only when this very reservation got a        *)
(* receipt from the transport.                                             *)
DeliveredHasReceipt ==
  marker.delivery = "delivered" =>
    \E s \in sent : s.generation = marker.generation /\ s.receipt

(* An active incident has been announced, or is about to be, at its        *)
(* severity or a higher one.  The only ones that stay silent are those     *)
(* whose reservation was cut off from its alert by a fault: nothing sends  *)
(* for them until they escalate or recover.                                *)
ActiveIncidentIsAnnounced ==
  marker.active =>
    \/ \E s \in sent : s.generation = marker.generation /\ s.severity >= marker.severity
    \/ \E o \in Observers : /\ At(o, "send") /\ obs[o].generation = marker.generation
                            /\ obs[o].severity >= marker.severity
    \/ marker.generation \in lost

(* What a later observation wrote is never overwritten by an earlier one.  *)
LaterObservationStands == [][marker'.observed >= marker.observed]_vars
=============================================================================
