----------------------- MODULE IncidentTrackerProofs ------------------------
(***************************************************************************)
(* The alert tracker, for any number of observers, attempts, store faults  *)
(* and crashes: a reservation is sent at most once, what is active was     *)
(* announced, what is marked delivered got a receipt, and a later          *)
(* observation stands.                                                     *)
(***************************************************************************)
EXTENDS IncidentTracker, TLAPS

USE IncidentTrackerAssumption

(* The conjuncts of ReservationIsHeld. *)
SentBounded == \A s \in sent : s.generation <= marker.generation

Unsent(o) ==
  At(o, "send") => /\ obs[o].generation <= marker.generation
                   /\ \A s \in sent : s.generation # obs[o].generation

HoldersDiffer ==
  \A o, p \in Observers :
    o # p /\ At(o, "send") /\ At(p, "send") => obs[p].generation # obs[o].generation

SeenIsStored(o) ==
  obs[o].step \in {"reserve", "record"} =>
    /\ obs[o].seen.version <= marker.version
    /\ obs[o].seen.version = marker.version => obs[o].seen = marker

IInv ==
  /\ TypeOK
  /\ OneSendPerReservation
  /\ SentBounded
  /\ \A o \in Observers : Unsent(o)
  /\ HoldersDiffer
  /\ \A o \in Observers : SeenIsStored(o)

(* The parts are the inductive form the runs check. *)
LEMMA PartsOfReservationIsHeld == IInv <=> TypeOK /\ ReservationIsHeld
BY DEF IInv, ReservationIsHeld, SentBounded, Unsent, HoldersDiffer, SeenIsStored

-----------------------------------------------------------------------------
(* Records *)

LEMMA IdleType == IdleObserver \in Observations /\ NoMarker \in Markers
BY DEF IdleObserver, Observations, NoMarker, Markers, Steps, States, Deliveries

(* One field of a marker set: the others keep their values. *)
LEMMA MarkerUpdate ==
  ASSUME NEW k \in Markers
  PROVE  /\ \A x \in Nat : LET y == [k EXCEPT !.version = x]
                         IN  y \in Markers /\ y.version = x /\ y.generation = k.generation
         /\ \A x \in Nat : LET y == [k EXCEPT !.observed = x]
                         IN  y \in Markers /\ y.version = k.version /\ y.generation = k.generation
         /\ \A x \in BOOLEAN : LET y == [k EXCEPT !.active = x]
                             IN  y \in Markers /\ y.generation = k.generation
         /\ \A x \in States : LET y == [k EXCEPT !.state = x]
                            IN  y \in Markers /\ y.generation = k.generation
         /\ \A x \in Nat : LET y == [k EXCEPT !.severity = x]
                         IN  y \in Markers /\ y.generation = k.generation
         /\ \A x \in Nat : LET y == [k EXCEPT !.generation = x]
                         IN  y \in Markers /\ y.generation = x
         /\ \A x \in Deliveries : LET y == [k EXCEPT !.delivery = x]
                                IN  y \in Markers /\ y.generation = k.generation
<1>1. \A x \in Nat : LET y == [k EXCEPT !.version = x]
                   IN  y \in Markers /\ y.version = x /\ y.generation = k.generation
  BY DEF Markers
<1>2. \A x \in Nat : LET y == [k EXCEPT !.observed = x]
                   IN  y \in Markers /\ y.version = k.version /\ y.generation = k.generation
  BY DEF Markers
<1>3. \A x \in BOOLEAN : LET y == [k EXCEPT !.active = x]
                       IN  y \in Markers /\ y.generation = k.generation
  BY DEF Markers
<1>4. \A x \in States : LET y == [k EXCEPT !.state = x]
                      IN  y \in Markers /\ y.generation = k.generation
  BY DEF Markers
<1>5. \A x \in Nat : LET y == [k EXCEPT !.severity = x]
                   IN  y \in Markers /\ y.generation = k.generation
  BY DEF Markers
<1>6. \A x \in Nat : LET y == [k EXCEPT !.generation = x]
                   IN  y \in Markers /\ y.generation = x
  BY DEF Markers
<1>7. \A x \in Deliveries : LET y == [k EXCEPT !.delivery = x]
                          IN  y \in Markers /\ y.generation = k.generation
  BY DEF Markers
<1> QED BY <1>1, <1>2, <1>3, <1>4, <1>5, <1>6, <1>7

LEMMA WriteType ==
  ASSUME TypeOK, NEW o \in Observers, NEW value \in Markers, Write(o, value)
  PROVE  /\ marker' \in Markers
         /\ marker'.version = marker.version + 1
         /\ marker'.generation = value.generation
<1> DEFINE k == [value EXCEPT !.version = marker.version + 1]
<1>1. obs[o].now \in Nat /\ marker.version + 1 \in Nat
  BY DEF TypeOK, Markers, Observations
<1>2. k \in Markers /\ k.version = marker.version + 1 /\ k.generation = value.generation
  BY <1>1, MarkerUpdate
<1>3. marker' = [k EXCEPT !.observed = obs[o].now]
  BY DEF Write
<1> HIDE DEF k
<1> QED BY <1>1, <1>2, <1>3, MarkerUpdate

LEMMA ReservationType ==
  ASSUME NEW x \in Observations
  PROVE  /\ Reservation(x) \in Markers
         /\ Escalates(x) => Reservation(x).generation = x.seen.generation + 1
         /\ ~Escalates(x) => Reservation(x).generation = x.seen.generation
<1>0. x.seen \in Markers /\ x.severity \in Nat /\ x.recovered \in BOOLEAN
  BY DEF Observations
<1>1. CASE Escalates(x)
  <2> DEFINE k1 == [x.seen EXCEPT !.active = TRUE]
             k2 == [k1 EXCEPT !.state = "alert"]
             k3 == [k2 EXCEPT !.severity = x.severity]
             k4 == [k3 EXCEPT !.generation = x.seen.generation + 1]
             k5 == [k4 EXCEPT !.delivery = "pending"]
  <2>1. Reservation(x) = k5
    BY <1>1 DEF Reservation
  <2>2. k1 \in Markers
    BY <1>0, MarkerUpdate
  <2> HIDE DEF k1
  <2>3. k2 \in Markers
    BY <2>2, MarkerUpdate DEF States
  <2> HIDE DEF k2
  <2>4. k3 \in Markers
    BY <1>0, <2>3, MarkerUpdate
  <2> HIDE DEF k3
  <2>5. x.seen.generation + 1 \in Nat
    BY <1>0 DEF Markers
  <2>6. k4 \in Markers /\ k4.generation = x.seen.generation + 1
    BY <2>4, <2>5, MarkerUpdate
  <2> HIDE DEF k4
  <2>7. k5 \in Markers /\ k5.generation = k4.generation
    BY <2>6, MarkerUpdate DEF Deliveries
  <2> QED BY <1>1, <2>1, <2>6, <2>7
<1>2. CASE ~Escalates(x)
  <2> DEFINE active == ~x.recovered /\ x.seen.active
             state == IF x.recovered THEN "healthy" ELSE "alert"
             k1 == [x.seen EXCEPT !.active = active]
             k2 == [k1 EXCEPT !.state = state]
             k3 == [k2 EXCEPT !.severity = x.severity]
  <2>1. Reservation(x) = k3
    BY <1>2 DEF Reservation
  <2>2. active \in BOOLEAN /\ state \in States
    BY DEF States
  <2> HIDE DEF active, state
  <2>3. k1 \in Markers /\ k1.generation = x.seen.generation
    BY <1>0, <2>2, MarkerUpdate
  <2> HIDE DEF k1
  <2>4. k2 \in Markers /\ k2.generation = k1.generation
    BY <2>2, <2>3, MarkerUpdate
  <2> HIDE DEF k2
  <2>5. k3 \in Markers /\ k3.generation = k2.generation
    BY <1>0, <2>4, MarkerUpdate
  <2> QED BY <1>2, <2>1, <2>3, <2>4, <2>5
<1> QED BY <1>1, <1>2

LEMMA RecordedType ==
  ASSUME NEW x \in Observations
  PROVE  Recorded(x) \in Markers /\ Recorded(x).generation = x.seen.generation
BY DEF Recorded, Observations, Markers, Deliveries

(* The first of the two fields an action sets. *)
LEMMA StepUpdate ==
  ASSUME NEW x \in Observations, NEW s \in Steps
  PROVE  LET d == [x EXCEPT !.step = s] IN d \in Observations /\ d.step = s
BY DEF Observations

(* An update of one observer leaves the others alone. *)
LEMMA BecomeOne ==
  ASSUME TypeOK, NEW o \in Observers, NEW x \in Observations, Become(o, x)
  PROVE  /\ obs' \in [Observers -> Observations]
         /\ obs'[o] = x
         /\ \A p \in Observers \ {o} : obs'[p] = obs[p]
BY DEF Become, TypeOK

LEMMA FinishOne ==
  ASSUME TypeOK, NEW o \in Observers, Finish(o)
  PROVE  /\ obs' \in [Observers -> Observations]
         /\ obs'[o].step = "idle"
         /\ \A p \in Observers \ {o} : obs'[p] = obs[p]
BY BecomeOne, IdleType DEF Finish, IdleObserver

-----------------------------------------------------------------------------
(* A step of observer o keeps the invariant when what it does to the       *)
(* marker, the history and itself is one of the following.                 *)

(* Nothing is written and nothing is sent, and o does not come to hold.    *)
LEMMA QuietStep ==
  ASSUME IInv, NEW o \in Observers, NEW x \in Observations, Become(o, x),
         UNCHANGED <<marker, sent>>, clock' \in Nat, begun' \in Nat, lost' \subseteq Nat,
         x.step # "send",
         x.step \in {"reserve", "record"} => x.seen = marker
  PROVE  IInv'
<1>1. /\ obs' \in [Observers -> Observations] /\ obs'[o] = x
      /\ \A p \in Observers \ {o} : obs'[p] = obs[p]
  BY BecomeOne DEF IInv
<1>2. TypeOK'
  BY <1>1 DEF IInv, TypeOK
<1>3. OneSendPerReservation' /\ SentBounded'
  BY DEF IInv, OneSendPerReservation, SentBounded
<1>4. \A p \in Observers : Unsent(p)'
  BY <1>1 DEF IInv, Unsent, At
<1>5. HoldersDiffer'
  BY <1>1 DEF IInv, HoldersDiffer, At
<1>6. \A p \in Observers : SeenIsStored(p)'
  <2> SUFFICES ASSUME NEW p \in Observers PROVE SeenIsStored(p)'
    OBVIOUS
  <2>1. CASE p = o
    BY <1>1, <2>1 DEF SeenIsStored, IInv, TypeOK, Markers
  <2>2. CASE p # o
    BY <1>1, <2>2 DEF SeenIsStored, IInv
  <2> QED BY <2>1, <2>2
<1> QED BY <1>2, <1>3, <1>4, <1>5, <1>6 DEF IInv

(* The marker is written over the version o has read; o comes to hold the  *)
(* reservation only when its generation is new.                            *)
LEMMA WriteStep ==
  ASSUME IInv, NEW o \in Observers, NEW x \in Observations, Become(o, x),
         NEW value \in Markers, Write(o, value),
         UNCHANGED <<clock, begun, sent>>, lost' \subseteq Nat,
         value.generation >= marker.generation,
         x.step \notin {"reserve", "record"},
         x.step = "send" => /\ x.generation = value.generation
                            /\ value.generation > marker.generation
  PROVE  IInv'
<1>1. /\ obs' \in [Observers -> Observations] /\ obs'[o] = x
      /\ \A p \in Observers \ {o} : obs'[p] = obs[p]
  BY BecomeOne DEF IInv
<1>2. /\ marker' \in Markers /\ marker'.version = marker.version + 1
      /\ marker'.generation = value.generation
  BY WriteType DEF IInv
<1>3. TypeOK'
  BY <1>1, <1>2 DEF IInv, TypeOK
<1>4. /\ marker.generation \in Nat /\ marker'.generation \in Nat
      /\ marker.version \in Nat
      /\ \A s \in sent : s.generation \in Nat
      /\ \A p \in Observers : obs[p].generation \in Nat /\ obs[p].seen.version \in Nat
  BY <1>2 DEF IInv, TypeOK, Markers, Sends, Observations
<1>5. OneSendPerReservation'
  BY DEF IInv, OneSendPerReservation
<1>6. SentBounded'
  BY <1>2, <1>4 DEF IInv, SentBounded
<1>7. \A p \in Observers : Unsent(p)'
  <2> SUFFICES ASSUME NEW p \in Observers PROVE Unsent(p)'
    OBVIOUS
  <2>1. CASE p = o
    BY <1>1, <1>2, <1>4, <2>1 DEF IInv, Unsent, At, SentBounded
  <2>2. CASE p # o
    BY <1>1, <1>2, <1>4, <2>2 DEF IInv, Unsent, At
  <2> QED BY <2>1, <2>2
<1>8. HoldersDiffer'
  <2> SUFFICES ASSUME NEW p \in Observers, NEW q \in Observers, p # q,
                      At(p, "send")', At(q, "send")'
               PROVE  obs'[q].generation # obs'[p].generation
    BY DEF HoldersDiffer
  <2>1. CASE p = o
    BY <1>1, <1>2, <1>4, <2>1 DEF IInv, Unsent, At
  <2>2. CASE q = o
    BY <1>1, <1>2, <1>4, <2>2 DEF IInv, Unsent, At
  <2>3. CASE p # o /\ q # o
    BY <1>1, <2>3 DEF IInv, HoldersDiffer, At
  <2> QED BY <2>1, <2>2, <2>3
<1>9. \A p \in Observers : SeenIsStored(p)'
  <2> SUFFICES ASSUME NEW p \in Observers PROVE SeenIsStored(p)'
    OBVIOUS
  <2>1. CASE p = o
    BY <1>1, <2>1 DEF SeenIsStored
  <2>2. CASE p # o
    BY <1>1, <1>2, <1>4, <2>2 DEF SeenIsStored, IInv
  <2> QED BY <2>1, <2>2
<1> QED BY <1>3, <1>5, <1>6, <1>7, <1>8, <1>9 DEF IInv

-----------------------------------------------------------------------------
(* Steps                                                                   *)

LEMMA FinishStep ==
  ASSUME IInv, NEW o \in Observers, Finish(o), UNCHANGED <<marker, clock, begun, sent>>,
         lost' \subseteq Nat
  PROVE  IInv'
<1>1. IdleObserver \in Observations /\ IdleObserver.step = "idle"
  BY IdleType DEF IdleObserver
<1> QED BY <1>1, QuietStep DEF Finish, IInv, TypeOK

LEMMA BeginStep ==
  ASSUME IInv, NEW o \in Observers, Begin(o)
  PROVE  IInv'
<1>1. PICK recovered \in BOOLEAN : \E severity \in IF recovered THEN {1} ELSE Severities :
        Become(o, [IdleObserver EXCEPT !.step = "read", !.number = begun + 1, !.now = clock,
                                       !.recovered = recovered, !.severity = severity])
  BY DEF Begin
<1>2. PICK severity \in Nat :
        Become(o, [IdleObserver EXCEPT !.step = "read", !.number = begun + 1, !.now = clock,
                                       !.recovered = recovered, !.severity = severity])
  BY <1>1
<1>3. begun + 1 \in Nat /\ clock \in Nat /\ clock' \in Nat /\ begun' \in Nat /\ lost' \subseteq Nat
  BY DEF IInv, TypeOK, Begin
<1> DEFINE d1 == [IdleObserver EXCEPT !.step = "read"]
           d2 == [d1 EXCEPT !.number = begun + 1]
           d3 == [d2 EXCEPT !.now = clock]
           d4 == [d3 EXCEPT !.recovered = recovered]
           x == [d4 EXCEPT !.severity = severity]
<1>4. Become(o, x)
  BY <1>2
<1>5. d1 \in Observations /\ d1.step = "read"
  BY IdleType DEF Observations, Steps
<1> HIDE DEF d1
<1>6. d2 \in Observations /\ d2.step = "read"
  BY <1>3, <1>5 DEF Observations
<1> HIDE DEF d2
<1>7. d3 \in Observations /\ d3.step = "read"
  BY <1>3, <1>6 DEF Observations
<1> HIDE DEF d3
<1>8. d4 \in Observations /\ d4.step = "read"
  BY <1>7 DEF Observations
<1> HIDE DEF d4
<1>9. x \in Observations /\ x.step = "read"
  BY <1>8 DEF Observations
<1> HIDE DEF x
<1> QED BY <1>3, <1>4, <1>9, QuietStep DEF Begin

LEMMA ReadMarkerStep ==
  ASSUME IInv, NEW o \in Observers, ReadMarker(o)
  PROVE  IInv'
<1>1. CASE Become(o, [obs[o] EXCEPT !.step = "reserve", !.seen = marker])
  <2> DEFINE d == [obs[o] EXCEPT !.step = "reserve"]
             x == [d EXCEPT !.seen = marker]
  <2>1. Become(o, x)
    BY <1>1
  <2>2. obs[o] \in Observations /\ marker \in Markers
    BY DEF IInv, TypeOK
  <2>3. d \in Observations /\ d.step = "reserve"
    BY <2>2, StepUpdate DEF Steps
  <2> HIDE DEF d
  <2>4. x \in Observations /\ x.step = "reserve" /\ x.seen = marker
    BY <2>2, <2>3 DEF Observations
  <2> HIDE DEF x
  <2> QED BY <2>1, <2>4, QuietStep DEF ReadMarker, IInv, TypeOK
<1>2. CASE Finish(o)
  BY <1>2, FinishStep DEF ReadMarker, IInv, TypeOK
<1> QED BY <1>1, <1>2 DEF ReadMarker

(* What an unchanged version tells the observer that is about to write.    *)
LEMMA SeenIsCurrent ==
  ASSUME IInv, NEW o \in Observers, At(o, "reserve") \/ At(o, "record"), Unchanged(o)
  PROVE  obs[o].seen = marker
BY DEF IInv, SeenIsStored, At, Unchanged

LEMMA ReserveStep ==
  ASSUME IInv, NEW o \in Observers, Reserve(o)
  PROVE  IInv'
<1> DEFINE value == Reservation(obs[o])
<1>1. /\ obs[o] \in Observations /\ marker \in Markers /\ At(o, "reserve")
      /\ UNCHANGED <<clock, begun, sent>> /\ clock \in Nat /\ begun \in Nat
      /\ lost' \subseteq Nat
  BY DEF IInv, TypeOK, Reserve
<1>2. /\ value \in Markers
      /\ Escalates(obs[o]) => value.generation = obs[o].seen.generation + 1
      /\ ~Escalates(obs[o]) => value.generation = obs[o].seen.generation
  BY <1>1, ReservationType
<1>3. \/ Finish(o) /\ UNCHANGED marker
      \/ /\ Unchanged(o) /\ Write(o, value)
         /\ \/ /\ Escalates(obs[o])
               /\ Become(o, [obs[o] EXCEPT !.step = "send", !.generation = value.generation])
            \/ ~Escalates(obs[o]) /\ Finish(o)
      \/ Become(o, [obs[o] EXCEPT !.step = "read", !.attempt = @ + 1]) /\ UNCHANGED marker
  BY DEF Reserve
<1> HIDE DEF value
<1>4. CASE Finish(o) /\ UNCHANGED marker
  BY <1>1, <1>4, FinishStep
<1>5. CASE /\ Unchanged(o) /\ Write(o, value) /\ Escalates(obs[o])
           /\ Become(o, [obs[o] EXCEPT !.step = "send", !.generation = value.generation])
  <2> DEFINE d == [obs[o] EXCEPT !.step = "send"]
             x == [d EXCEPT !.generation = value.generation]
  <2>1. value.generation \in Nat /\ marker.generation \in Nat
    BY <1>1, <1>2 DEF Markers
  <2>2. Become(o, x)
    BY <1>5
  <2>3. d \in Observations /\ d.step = "send"
    BY <1>1, StepUpdate DEF Steps
  <2> HIDE DEF d
  <2>4. x \in Observations /\ x.step = "send" /\ x.generation = value.generation
    BY <2>1, <2>3 DEF Observations
  <2> HIDE DEF x
  <2>5. value.generation = marker.generation + 1
    BY <1>1, <1>2, <1>5, SeenIsCurrent
  <2>6. value.generation > marker.generation /\ value.generation >= marker.generation
    BY <2>1, <2>5
  <2> QED BY <1>1, <1>2, <1>5, <2>2, <2>4, <2>6, WriteStep
<1>6. CASE Unchanged(o) /\ Write(o, value) /\ ~Escalates(obs[o]) /\ Finish(o)
  <2>1. value.generation >= marker.generation
    BY <1>1, <1>2, <1>6, SeenIsCurrent DEF Markers
  <2>2. IdleObserver \in Observations /\ IdleObserver.step = "idle"
    BY IdleType DEF IdleObserver
  <2> QED BY <1>1, <1>2, <1>6, <2>1, <2>2, WriteStep DEF Finish
<1>7. CASE Become(o, [obs[o] EXCEPT !.step = "read", !.attempt = @ + 1]) /\ UNCHANGED marker
  <2> DEFINE d == [obs[o] EXCEPT !.step = "read"]
             x == [d EXCEPT !.attempt = obs[o].attempt + 1]
  <2>1. Become(o, x)
    BY <1>7
  <2>2. d \in Observations /\ d.step = "read" /\ obs[o].attempt + 1 \in Nat
    BY <1>1, StepUpdate DEF Steps, Observations
  <2> HIDE DEF d
  <2>3. x \in Observations /\ x.step = "read"
    BY <2>2 DEF Observations
  <2> HIDE DEF x
  <2> QED BY <1>1, <1>7, <2>1, <2>3, QuietStep
<1> QED BY <1>3, <1>4, <1>5, <1>6, <1>7

LEMMA ReserveRaisesStep ==
  ASSUME IInv, NEW o \in Observers, ReserveRaises(o)
  PROVE  IInv'
<1> DEFINE value == Reservation(obs[o])
<1>1. /\ obs[o] \in Observations /\ marker \in Markers /\ At(o, "reserve")
      /\ UNCHANGED <<clock, begun, sent>> /\ Finish(o)
  BY DEF IInv, TypeOK, ReserveRaises
<1>2. /\ value \in Markers
      /\ value.generation \in {obs[o].seen.generation, obs[o].seen.generation + 1}
  BY <1>1, ReservationType
<1>6. lost' \subseteq Nat
  BY <1>1, <1>2 DEF ReserveRaises, IInv, TypeOK, Markers
<1>3. UNCHANGED marker \/ (Unchanged(o) /\ Write(o, value))
  BY DEF ReserveRaises
<1> HIDE DEF value
<1>4. CASE UNCHANGED marker
  BY <1>1, <1>4, <1>6, FinishStep
<1>5. CASE Unchanged(o) /\ Write(o, value)
  <2>1. value.generation >= marker.generation
    BY <1>1, <1>2, <1>5, SeenIsCurrent DEF Markers
  <2>2. IdleObserver \in Observations /\ IdleObserver.step = "idle"
    BY IdleType DEF IdleObserver
  <2> QED BY <1>1, <1>2, <1>5, <1>6, <2>1, <2>2, WriteStep DEF Finish
<1> QED BY <1>3, <1>4, <1>5

LEMMA ReadBackStep ==
  ASSUME IInv, NEW o \in Observers, ReadBack(o)
  PROVE  IInv'
<1>1. CASE Become(o, [obs[o] EXCEPT !.step = "record", !.seen = marker])
  <2> DEFINE d == [obs[o] EXCEPT !.step = "record"]
             x == [d EXCEPT !.seen = marker]
  <2>1. Become(o, x)
    BY <1>1
  <2>2. obs[o] \in Observations /\ marker \in Markers
    BY DEF IInv, TypeOK
  <2>3. d \in Observations /\ d.step = "record"
    BY <2>2, StepUpdate DEF Steps
  <2> HIDE DEF d
  <2>4. x \in Observations /\ x.step = "record" /\ x.seen = marker
    BY <2>2, <2>3 DEF Observations
  <2> HIDE DEF x
  <2> QED BY <2>1, <2>4, QuietStep DEF ReadBack, IInv, TypeOK
<1>2. CASE Finish(o)
  BY <1>2, FinishStep DEF ReadBack, IInv, TypeOK
<1> QED BY <1>1, <1>2 DEF ReadBack

LEMMA RecordDeliveryStep ==
  ASSUME IInv, NEW o \in Observers, RecordDelivery(o)
  PROVE  IInv'
<1> DEFINE value == Recorded(obs[o])
<1>1. /\ obs[o] \in Observations /\ marker \in Markers /\ At(o, "record")
      /\ UNCHANGED <<clock, begun, sent>> /\ Finish(o) /\ lost' \subseteq Nat
  BY DEF IInv, TypeOK, RecordDelivery
<1>2. value \in Markers /\ value.generation = obs[o].seen.generation
  BY <1>1, RecordedType
<1>3. UNCHANGED marker \/ (Unchanged(o) /\ Write(o, value))
  BY DEF RecordDelivery
<1> HIDE DEF value
<1>4. CASE UNCHANGED marker
  BY <1>1, <1>4, FinishStep
<1>5. CASE Unchanged(o) /\ Write(o, value)
  <2>1. value.generation >= marker.generation
    BY <1>1, <1>2, <1>5, SeenIsCurrent DEF Markers
  <2>2. IdleObserver \in Observations /\ IdleObserver.step = "idle"
    BY IdleType DEF IdleObserver
  <2> QED BY <1>1, <1>2, <1>5, <2>1, <2>2, WriteStep DEF Finish
<1> QED BY <1>3, <1>4, <1>5

(* The holder sends its reservation, which nobody has sent and nobody else *)
(* holds.                                                                  *)
LEMMA SendStep ==
  ASSUME IInv, NEW o \in Observers, Send(o)
  PROVE  IInv'
<1>1. PICK receipt \in BOOLEAN :
        /\ sent' = sent \cup {[generation |-> obs[o].generation, severity |-> obs[o].severity,
                               by |-> obs[o].number, receipt |-> receipt]}
        /\ Become(o, [obs[o] EXCEPT !.step = "readBack", !.receipt = receipt])
  BY DEF Send
<1> DEFINE d == [obs[o] EXCEPT !.step = "readBack"]
           x == [d EXCEPT !.receipt = receipt]
           new == [generation |-> obs[o].generation, severity |-> obs[o].severity,
                   by |-> obs[o].number, receipt |-> receipt]
<1>2. Become(o, x)
  BY <1>1
<1>3. /\ obs[o] \in Observations /\ At(o, "send")
      /\ d \in Observations /\ d.step = "readBack"
      /\ UNCHANGED <<marker, clock, begun, lost>>
  BY StepUpdate DEF IInv, TypeOK, Send, Steps
<1> HIDE DEF d
<1>4. x \in Observations /\ x.step = "readBack"
  BY <1>3 DEF Observations
<1> HIDE DEF x
<1>5. /\ obs' \in [Observers -> Observations] /\ obs'[o] = x
      /\ \A p \in Observers \ {o} : obs'[p] = obs[p]
  BY <1>2, <1>4, BecomeOne DEF IInv
<1>6. sent' = sent \cup {new} /\ new \in Sends /\ new.generation = obs[o].generation
  BY <1>1, <1>3 DEF Sends, Observations
<1> HIDE DEF new
<1>7. TypeOK'
  BY <1>3, <1>5, <1>6 DEF IInv, TypeOK
<1>8. OneSendPerReservation' /\ SentBounded'
  BY <1>3, <1>6 DEF IInv, OneSendPerReservation, SentBounded, Unsent
<1>9. \A p \in Observers : Unsent(p)'
  <2> SUFFICES ASSUME NEW p \in Observers PROVE Unsent(p)'
    OBVIOUS
  <2>1. CASE p = o
    BY <1>4, <1>5, <2>1 DEF Unsent, At
  <2>2. CASE p # o
    BY <1>3, <1>5, <1>6, <2>2 DEF IInv, Unsent, HoldersDiffer, At
  <2> QED BY <2>1, <2>2
<1>10. HoldersDiffer'
  BY <1>4, <1>5 DEF IInv, HoldersDiffer, At
<1>11. \A p \in Observers : SeenIsStored(p)'
  BY <1>3, <1>4, <1>5 DEF IInv, SeenIsStored
<1> QED BY <1>7, <1>8, <1>9, <1>10, <1>11 DEF IInv

-----------------------------------------------------------------------------
LEMMA InitHolds == Init => IInv
<1> SUFFICES ASSUME Init PROVE IInv
  OBVIOUS
<1>1. IdleObserver.step = "idle"
  BY DEF IdleObserver
<1>2. TypeOK
  BY IdleType DEF Init, TypeOK
<1> QED BY <1>1, <1>2 DEF Init, IInv, OneSendPerReservation, SentBounded, Unsent,
                          HoldersDiffer, SeenIsStored, At

LEMMA NextHolds == IInv /\ [Next]_vars => IInv'
<1> SUFFICES ASSUME IInv, [Next]_vars PROVE IInv'
  OBVIOUS
<1>1. ASSUME NEW o \in Observers, Crash(o) PROVE IInv'
  <2>1. lost' \subseteq Nat /\ UNCHANGED <<marker, clock, begun, sent>> /\ Finish(o)
    BY <1>1 DEF Crash, IInv, TypeOK, Observations
  <2> QED BY <2>1, FinishStep
<1>2. CASE Tick
  BY <1>2 DEF Tick, IInv, TypeOK, OneSendPerReservation, SentBounded, Unsent, HoldersDiffer,
              SeenIsStored, At
<1>3. CASE UNCHANGED vars
  BY <1>3 DEF vars, IInv, TypeOK, OneSendPerReservation, SentBounded, Unsent, HoldersDiffer,
              SeenIsStored, At
<1> QED BY <1>1, <1>2, <1>3, BeginStep, ReadMarkerStep, ReserveStep, ReserveRaisesStep,
           SendStep, ReadBackStep, RecordDeliveryStep DEF Next

(* For any observers, faults and bounds: a reservation has one holder, who *)
(* has not sent it, and a marker read is the marker stored while its       *)
(* version is (the compare-and-set of MarkerStore).                        *)
THEOREM ReservationHeld == Spec => [](TypeOK /\ ReservationIsHeld)
<1>1. IInv => TypeOK /\ ReservationIsHeld
  BY PartsOfReservationIsHeld
<1> QED BY <1>1, InitHolds, NextHolds, PTL DEF Spec

(* For any observers, faults and bounds: an alert reserved by _tracked is  *)
(* handed to the transport at most once.                                   *)
THEOREM SentOnce == Spec => []OneSendPerReservation
<1>1. IInv => OneSendPerReservation
  BY DEF IInv
<1> QED BY <1>1, InitHolds, NextHolds, PTL DEF Spec
-----------------------------------------------------------------------------
(* What a step does to marker, history and observers, under the invariant: *)
(* the three invariants below are read off this list.                      *)

Others(o) == \A p \in Observers \ {o} : obs'[p] = obs[p]

(* The observer stops or goes on without having written or sent.           *)
Rests(o) ==
  /\ UNCHANGED <<marker, sent>> /\ obs'[o].step \in {"idle", "read"}
  /\ lost' = IF At(o, "send") THEN lost \cup {obs[o].generation} ELSE lost

(* It reads the marker, to reserve or to record its delivery.              *)
Reads(o) ==
  /\ UNCHANGED <<marker, sent, lost>>
  /\ marker.observed <= obs[o].now
  /\ obs'[o].seen = marker /\ obs'[o].now = obs[o].now
  /\ \/ At(o, "read") /\ obs'[o].step = "reserve"
     \/ /\ At(o, "readBack") /\ obs'[o].step = "record"
        /\ marker.generation = obs[o].generation
        /\ obs'[o].generation = obs[o].generation /\ obs'[o].receipt = obs[o].receipt

(* It writes a new reservation, and holds it or is stopped by a fault.     *)
Raises(o) ==
  /\ UNCHANGED sent /\ At(o, "reserve") /\ obs[o].seen = marker
  /\ marker'.generation = marker.generation + 1 /\ marker'.delivery = "pending"
  /\ marker'.severity = obs[o].severity /\ marker'.observed = obs[o].now
  /\ \/ /\ obs'[o].step = "send" /\ obs'[o].generation = marker'.generation
        /\ obs'[o].severity = obs[o].severity /\ UNCHANGED lost
     \/ obs'[o].step = "idle" /\ lost' = lost \cup {marker'.generation}

(* It writes what it observed on the reservation there is.                 *)
Refreshes(o) ==
  /\ UNCHANGED <<sent, lost>> /\ At(o, "reserve") /\ obs[o].seen = marker
  /\ marker'.generation = marker.generation /\ marker'.delivery = marker.delivery
  /\ marker'.active => marker.active
  /\ marker'.active => marker'.severity <= marker.severity
  /\ marker'.observed = obs[o].now /\ obs'[o].step = "idle"

(* It sends the alert it holds.                                            *)
Delivers(o) ==
  /\ UNCHANGED <<marker, lost>> /\ At(o, "send") /\ obs'[o].step = "readBack"
  /\ obs'[o].generation = obs[o].generation
  /\ \E s \in Sends : /\ s.generation = obs[o].generation /\ s.severity = obs[o].severity
                      /\ s.receipt = obs'[o].receipt /\ sent' = sent \cup {s}

(* It writes the delivery of the reservation it has sent.                  *)
Records(o) ==
  /\ UNCHANGED <<sent, lost>> /\ At(o, "record") /\ obs[o].seen = marker
  /\ marker'.generation = marker.generation /\ marker'.severity = marker.severity
  /\ marker'.active = marker.active
  /\ marker'.delivery = "delivered" => obs[o].receipt
  /\ marker'.observed = obs[o].now /\ obs'[o].step = "idle"

(* Fields after a write, a reservation and a record of delivery.           *)
LEMMA WriteFields ==
  ASSUME NEW o \in Observers, NEW value \in Markers, Write(o, value)
  PROVE  /\ marker'.observed = obs[o].now /\ marker'.generation = value.generation
         /\ marker'.active = value.active /\ marker'.severity = value.severity
         /\ marker'.delivery = value.delivery
BY DEF Write, Markers

LEMMA ReservationFields ==
  ASSUME NEW x \in Observations
  PROVE  /\ Escalates(x) => /\ Reservation(x).generation = x.seen.generation + 1
                            /\ Reservation(x).severity = x.severity
                            /\ Reservation(x).delivery = "pending"
         /\ ~Escalates(x) => /\ Reservation(x).generation = x.seen.generation
                             /\ Reservation(x).severity = x.severity
                             /\ Reservation(x).delivery = x.seen.delivery
                             /\ Reservation(x).active =>
                                  x.seen.active /\ x.severity <= x.seen.severity
<1>1. x.seen \in Markers /\ x.severity \in Nat /\ x.seen.severity \in Nat
      /\ x.recovered \in BOOLEAN
  BY DEF Observations, Markers
<1>2. CASE Escalates(x)
  <2>1. Reservation(x).generation = x.seen.generation + 1
    BY <1>2, ReservationType
  <2>2. Reservation(x).severity = x.severity
    BY <1>1, <1>2 DEF Reservation, Markers
  <2>3. Reservation(x).delivery = "pending"
    BY <1>1, <1>2 DEF Reservation, Markers
  <2> QED BY <1>2, <2>1, <2>2, <2>3
<1>3. CASE ~Escalates(x)
  <2>1. /\ Reservation(x).generation = x.seen.generation
        /\ Reservation(x).severity = x.severity
        /\ Reservation(x).delivery = x.seen.delivery
        /\ Reservation(x).active = (~x.recovered /\ x.seen.active)
    BY <1>1, <1>3 DEF Reservation, Markers
  <2>2. x.seen.active \in BOOLEAN
    BY <1>1 DEF Markers
  <2>3. Reservation(x).active => ~x.recovered /\ x.seen.active
    BY <2>1
  <2>4. ~x.recovered /\ x.seen.active => x.severity <= x.seen.severity
    BY <1>1, <1>3 DEF Escalates
  <2> QED BY <1>3, <2>1, <2>3, <2>4
<1> QED BY <1>2, <1>3

LEMMA RecordedFields ==
  ASSUME NEW x \in Observations
  PROVE  /\ Recorded(x).generation = x.seen.generation
         /\ Recorded(x).severity = x.seen.severity
         /\ Recorded(x).active = x.seen.active
         /\ Recorded(x).delivery = "delivered" => x.receipt
BY DEF Recorded, Observations, Markers
LEMMA BecomeFacts ==
  ASSUME TypeOK, NEW o \in Observers, NEW x, Become(o, x)
  PROVE  obs'[o] = x /\ Others(o)
BY DEF TypeOK, Become, Others

LEMMA FinishFacts ==
  ASSUME TypeOK, NEW o \in Observers, Finish(o)
  PROVE  obs'[o].step = "idle" /\ Others(o)
BY BecomeFacts DEF Finish, IdleObserver

(* Each action of an observer, under the invariant.                        *)
LEMMA ObserverSteps ==
  ASSUME IInv, NEW o \in Observers,
         \/ Begin(o) \/ ReadMarker(o) \/ Reserve(o) \/ ReserveRaises(o) \/ Send(o)
         \/ ReadBack(o) \/ RecordDelivery(o) \/ Crash(o)
  PROVE  /\ Others(o)
         /\ Rests(o) \/ Reads(o) \/ Raises(o) \/ Refreshes(o) \/ Delivers(o) \/ Records(o)
<1>0. /\ TypeOK /\ obs[o] \in Observations /\ marker \in Markers
      /\ obs[o].seen \in Markers /\ obs[o].step \in Steps
  BY DEF IInv, TypeOK, Observations
<1>1. CASE Begin(o)
  <2>1. PICK recovered \in BOOLEAN : \E severity \in IF recovered THEN {1} ELSE Severities :
          Become(o, [IdleObserver EXCEPT !.step = "read", !.number = begun + 1, !.now = clock,
                                         !.recovered = recovered, !.severity = severity])
    BY <1>1 DEF Begin
  <2>2. PICK severity \in Nat :
          Become(o, [IdleObserver EXCEPT !.step = "read", !.number = begun + 1, !.now = clock,
                                         !.recovered = recovered, !.severity = severity])
    BY <2>1
  <2>3. /\ Others(o)
        /\ obs'[o] = [IdleObserver EXCEPT !.step = "read", !.number = begun + 1, !.now = clock,
                                          !.recovered = recovered, !.severity = severity]
    BY <1>0, <2>2, BecomeFacts
  <2>4. obs'[o].step = "read"
    BY <2>3 DEF IdleObserver
  <2> QED BY <1>1, <2>3, <2>4 DEF Begin, Rests, At
<1>2. CASE ReadMarker(o)
  <2>1. CASE Finish(o)
    BY <1>0, <1>2, <2>1, FinishFacts DEF ReadMarker, Rests, At
  <2>2. CASE ~OutOfOrder(o) /\ Become(o, [obs[o] EXCEPT !.step = "reserve", !.seen = marker])
    <3>0. Others(o) /\ obs'[o] = [obs[o] EXCEPT !.step = "reserve", !.seen = marker]
      BY <1>0, <2>2, BecomeFacts
    <3>1. /\ obs'[o].step = "reserve" /\ obs'[o].seen = marker
          /\ obs'[o].now = obs[o].now
      BY <1>0, <3>0 DEF Observations
    <3>2. marker.observed <= obs[o].now
      BY <1>0, <2>2 DEF OutOfOrder, Observations, Markers
    <3> QED BY <1>2, <3>0, <3>1, <3>2 DEF ReadMarker, Reads
  <2> QED BY <1>2, <2>1, <2>2 DEF ReadMarker
<1>3. CASE Reserve(o)
  <2> DEFINE value == Reservation(obs[o])
  <2>1. CASE Finish(o) /\ UNCHANGED marker
    BY <1>0, <1>3, <2>1, FinishFacts DEF Reserve, Rests, At
  <2>2. CASE /\ Unchanged(o) /\ Write(o, value) /\ Escalates(obs[o])
             /\ Become(o, [obs[o] EXCEPT !.step = "send", !.generation = value.generation])
    <3>1. obs[o].seen = marker /\ At(o, "reserve") /\ UNCHANGED <<sent, lost>>
      BY <1>3, <2>2, SeenIsCurrent DEF Reserve
    <3>2. value \in Markers
      BY <1>0, ReservationType
    <3>3. /\ marker'.generation = value.generation /\ marker'.delivery = "pending"
          /\ marker'.severity = obs[o].severity /\ marker'.observed = obs[o].now
          /\ value.generation = marker.generation + 1
      BY <1>0, <2>2, <3>1, <3>2, WriteFields, ReservationFields
    <3> HIDE DEF value
    <3>4. /\ Others(o)
          /\ obs'[o] = [obs[o] EXCEPT !.step = "send", !.generation = value.generation]
      BY <1>0, <2>2, BecomeFacts
    <3>5. /\ obs'[o].step = "send" /\ obs'[o].generation = value.generation
          /\ obs'[o].severity = obs[o].severity
      BY <1>0, <3>4 DEF Observations
    <3> QED BY <3>1, <3>3, <3>4, <3>5 DEF Raises
  <2>3. CASE Unchanged(o) /\ Write(o, value) /\ ~Escalates(obs[o]) /\ Finish(o)
    <3>1. obs[o].seen = marker /\ At(o, "reserve") /\ UNCHANGED <<sent, lost>>
      BY <1>3, <2>3, SeenIsCurrent DEF Reserve
    <3>2. value \in Markers
      BY <1>0, ReservationType
    <3>3. /\ marker'.generation = marker.generation /\ marker'.delivery = marker.delivery
          /\ marker'.active => marker.active
          /\ marker'.active => marker'.severity <= marker.severity
          /\ marker'.observed = obs[o].now
      BY <1>0, <2>3, <3>1, <3>2, WriteFields, ReservationFields
    <3> QED BY <1>0, <2>3, <3>1, <3>3, FinishFacts DEF Refreshes
  <2>4. CASE Become(o, [obs[o] EXCEPT !.step = "read", !.attempt = @ + 1]) /\ UNCHANGED marker
    <3>1. Others(o) /\ obs'[o] = [obs[o] EXCEPT !.step = "read", !.attempt = @ + 1]
      BY <1>0, <2>4, BecomeFacts
    <3>2. obs'[o].step = "read"
      BY <1>0, <3>1 DEF Observations
    <3> QED BY <1>3, <2>4, <3>1, <3>2 DEF Reserve, Rests, At
  <2>5. \/ Finish(o) /\ UNCHANGED marker
        \/ /\ Unchanged(o) /\ Write(o, value)
           /\ \/ /\ Escalates(obs[o])
                 /\ Become(o, [obs[o] EXCEPT !.step = "send", !.generation = value.generation])
              \/ ~Escalates(obs[o]) /\ Finish(o)
        \/ Become(o, [obs[o] EXCEPT !.step = "read", !.attempt = @ + 1]) /\ UNCHANGED marker
    BY <1>3 DEF Reserve
  <2> HIDE DEF value
  <2> QED BY <2>1, <2>2, <2>3, <2>4, <2>5
<1>4. CASE ReserveRaises(o)
  <2> DEFINE value == Reservation(obs[o])
  <2>1. Finish(o) /\ At(o, "reserve") /\ UNCHANGED sent
    BY <1>4 DEF ReserveRaises
  <2>2. CASE UNCHANGED <<marker, lost>>
    BY <1>0, <2>1, <2>2, FinishFacts DEF Rests, At
  <2>3. CASE Unchanged(o) /\ Write(o, value)
             /\ lost' = IF Escalates(obs[o]) THEN lost \cup {value.generation} ELSE lost
    <3>1. obs[o].seen = marker /\ value \in Markers
      BY <1>0, <2>1, <2>3, SeenIsCurrent, ReservationType
    <3>2. CASE Escalates(obs[o])
      <4>1. /\ marker'.generation = value.generation /\ marker'.delivery = "pending"
            /\ marker'.severity = obs[o].severity /\ marker'.observed = obs[o].now
            /\ value.generation = marker.generation + 1
        BY <1>0, <2>3, <3>1, <3>2, WriteFields, ReservationFields
      <4> HIDE DEF value
      <4> QED BY <1>0, <2>1, <2>3, <3>1, <3>2, <4>1, FinishFacts DEF Raises
    <3>3. CASE ~Escalates(obs[o])
      <4>1. /\ marker'.generation = marker.generation /\ marker'.delivery = marker.delivery
            /\ marker'.active => marker.active
            /\ marker'.active => marker'.severity <= marker.severity
            /\ marker'.observed = obs[o].now
        BY <1>0, <2>3, <3>1, <3>3, WriteFields, ReservationFields
      <4> HIDE DEF value
      <4> QED BY <1>0, <2>1, <2>3, <3>1, <3>3, <4>1, FinishFacts DEF Refreshes
    <3> QED BY <3>2, <3>3
  <2> QED BY <1>4, <2>2, <2>3 DEF ReserveRaises
<1>5. CASE Send(o)
  <2>1. PICK receipt \in BOOLEAN :
          /\ sent' = sent \cup {[generation |-> obs[o].generation, severity |-> obs[o].severity,
                                 by |-> obs[o].number, receipt |-> receipt]}
          /\ Become(o, [obs[o] EXCEPT !.step = "readBack", !.receipt = receipt])
    BY <1>5 DEF Send
  <2> DEFINE new == [generation |-> obs[o].generation, severity |-> obs[o].severity,
                     by |-> obs[o].number, receipt |-> receipt]
  <2>5. Others(o) /\ obs'[o] = [obs[o] EXCEPT !.step = "readBack", !.receipt = receipt]
    BY <1>0, <2>1, BecomeFacts
  <2>2. /\ obs'[o].step = "readBack" /\ obs'[o].receipt = receipt
        /\ obs'[o].generation = obs[o].generation
    BY <1>0, <2>5 DEF Observations
  <2>3. /\ new \in Sends /\ new.generation = obs[o].generation
        /\ new.severity = obs[o].severity /\ new.receipt = receipt
    BY <1>0 DEF Sends, Observations
  <2>4. sent' = sent \cup {new}
    BY <2>1
  <2> HIDE DEF new
  <2> QED BY <1>5, <2>2, <2>3, <2>4, <2>5 DEF Delivers, Send
<1>6. CASE ReadBack(o)
  <2>1. CASE Finish(o)
    BY <1>0, <1>6, <2>1, FinishFacts DEF ReadBack, Rests, At
  <2>2. CASE /\ ~OutOfOrder(o) /\ marker.generation = obs[o].generation
             /\ Become(o, [obs[o] EXCEPT !.step = "record", !.seen = marker])
    <3>0. Others(o) /\ obs'[o] = [obs[o] EXCEPT !.step = "record", !.seen = marker]
      BY <1>0, <2>2, BecomeFacts
    <3>1. /\ obs'[o].step = "record" /\ obs'[o].seen = marker
          /\ obs'[o].now = obs[o].now /\ obs'[o].generation = obs[o].generation
          /\ obs'[o].receipt = obs[o].receipt
      BY <1>0, <3>0 DEF Observations
    <3>2. marker.observed <= obs[o].now
      BY <1>0, <2>2 DEF OutOfOrder, Observations, Markers
    <3> QED BY <1>6, <2>2, <3>0, <3>1, <3>2 DEF ReadBack, Reads
  <2> QED BY <1>6, <2>1, <2>2 DEF ReadBack
<1>7. CASE RecordDelivery(o)
  <2>1. Finish(o) /\ At(o, "record") /\ UNCHANGED <<sent, lost>>
    BY <1>7 DEF RecordDelivery
  <2>2. CASE UNCHANGED marker
    BY <1>0, <2>1, <2>2, FinishFacts DEF Rests, At
  <2>3. CASE Unchanged(o) /\ Write(o, Recorded(obs[o]))
    <3>1. obs[o].seen = marker /\ Recorded(obs[o]) \in Markers
      BY <1>0, <2>1, <2>3, SeenIsCurrent, RecordedType
    <3>2. /\ marker'.generation = marker.generation /\ marker'.severity = marker.severity
          /\ marker'.active = marker.active
          /\ marker'.delivery = "delivered" => obs[o].receipt
          /\ marker'.observed = obs[o].now
      BY <1>0, <2>3, <3>1, WriteFields, RecordedFields
    <3> QED BY <1>0, <2>1, <3>1, <3>2, FinishFacts DEF Records
  <2> QED BY <1>7, <2>2, <2>3 DEF RecordDelivery
<1>8. CASE Crash(o)
  BY <1>0, <1>8, FinishFacts DEF Crash, Rests
<1> QED BY <1>1, <1>2, <1>3, <1>4, <1>5, <1>6, <1>7, <1>8

LEMMA TrackerSteps ==
  ASSUME IInv, [Next]_vars
  PROVE  \/ UNCHANGED <<marker, obs, sent, lost>>
         \/ \E o \in Observers :
              /\ Others(o)
              /\ Rests(o) \/ Reads(o) \/ Raises(o) \/ Refreshes(o) \/ Delivers(o) \/ Records(o)
<1>1. CASE Tick \/ UNCHANGED vars
  BY <1>1 DEF Tick, vars
<1>2. CASE \E o \in Observers :
             \/ Begin(o) \/ ReadMarker(o) \/ Reserve(o) \/ ReserveRaises(o) \/ Send(o)
             \/ ReadBack(o) \/ RecordDelivery(o) \/ Crash(o)
  BY <1>2, ObserverSteps
<1> QED BY <1>1, <1>2 DEF Next
-----------------------------------------------------------------------------
(* An observer about to write has read nothing that is later than it.      *)
Timely(o) == obs[o].step \in {"reserve", "record"} => obs[o].seen.observed <= obs[o].now

WritesAreTimely == \A o \in Observers : Timely(o)

(* The observer that bears a receipt has sent its reservation, the one it  *)
(* has read when it records.                                               *)
Bears(o) ==
  /\ obs[o].step \in {"readBack", "record"} /\ obs[o].receipt =>
       \E s \in sent : s.generation = obs[o].generation /\ s.receipt
  /\ obs[o].step = "record" => obs[o].seen.generation = obs[o].generation

ReceiptsAreBorne == \A o \in Observers : Bears(o)

(* What a reservation under way may rely on, and what it leaves behind.    *)
AlertsAreEarned ==
  /\ WritesAreTimely /\ ReceiptsAreBorne
  /\ DeliveredHasReceipt /\ ActiveIncidentIsAnnounced

LEMMA ObservedGrows ==
  ASSUME IInv, WritesAreTimely, [Next]_vars
  PROVE  marker'.observed >= marker.observed
<1>1. marker.observed \in Nat /\ \A o \in Observers : obs[o].now \in Nat
  BY DEF IInv, TypeOK, Markers, Observations
<1>2. CASE UNCHANGED marker
  BY <1>1, <1>2
<1>3. ASSUME NEW o \in Observers, Raises(o) \/ Refreshes(o) \/ Records(o)
      PROVE  marker'.observed >= marker.observed
  <2>1. obs[o].seen = marker /\ marker'.observed = obs[o].now
        /\ obs[o].step \in {"reserve", "record"}
    BY <1>3 DEF Raises, Refreshes, Records, At
  <2> QED BY <1>1, <2>1 DEF WritesAreTimely, Timely
<1> QED BY <1>2, <1>3, TrackerSteps DEF Rests, Reads, Delivers

LEMMA TimelyNext ==
  ASSUME IInv, WritesAreTimely, [Next]_vars
  PROVE  WritesAreTimely'
<1>1. CASE UNCHANGED <<marker, obs, sent, lost>>
  BY <1>1 DEF WritesAreTimely, Timely
<1>2. ASSUME NEW o \in Observers, Others(o),
             Rests(o) \/ Reads(o) \/ Raises(o) \/ Refreshes(o) \/ Delivers(o) \/ Records(o)
      PROVE  WritesAreTimely'
  <2>1. Timely(o)'
    BY <1>2 DEF Timely, Rests, Reads, Raises, Refreshes, Delivers, Records
  <2>2. \A p \in Observers \ {o} : Timely(p)'
    BY <1>2 DEF Others, WritesAreTimely, Timely
  <2> QED BY <2>1, <2>2 DEF WritesAreTimely
<1> QED BY <1>1, <1>2, TrackerSteps

LEMMA SentGrows ==
  ASSUME IInv, [Next]_vars
  PROVE  sent \subseteq sent' /\ lost \subseteq lost'
BY TrackerSteps DEF Rests, Reads, Raises, Refreshes, Delivers, Records

LEMMA BorneNext ==
  ASSUME IInv, ReceiptsAreBorne, [Next]_vars
  PROVE  ReceiptsAreBorne'
<1>1. CASE UNCHANGED <<marker, obs, sent, lost>>
  BY <1>1 DEF ReceiptsAreBorne, Bears
<1>2. ASSUME NEW o \in Observers, Others(o),
             Rests(o) \/ Reads(o) \/ Raises(o) \/ Refreshes(o) \/ Delivers(o) \/ Records(o)
      PROVE  ReceiptsAreBorne'
  <2>1. ASSUME NEW p \in Observers \ {o} PROVE Bears(p)'
    <3>1. obs'[p] = obs[p] /\ sent \subseteq sent'
      BY <1>2, <2>1, SentGrows DEF Others
    <3> QED BY <3>1, <2>1 DEF ReceiptsAreBorne, Bears
  <2>2. CASE Rests(o) \/ Raises(o) \/ Refreshes(o) \/ Records(o)
    <3>1. obs'[o].step \in {"idle", "read", "send"}
      BY <2>2 DEF Rests, Raises, Refreshes, Records
    <3>2. Bears(o)'
      BY <3>1 DEF Bears
    <3> QED BY <2>1, <3>2 DEF ReceiptsAreBorne
  <2>3. CASE Reads(o)
    <3>1. Bears(o)'
      BY <2>3 DEF ReceiptsAreBorne, Bears, Reads, At
    <3> QED BY <2>1, <3>1 DEF ReceiptsAreBorne
  <2>4. CASE Delivers(o)
    <3>1. Bears(o)'
      BY <2>4 DEF Bears, Delivers
    <3> QED BY <2>1, <3>1 DEF ReceiptsAreBorne
  <2> QED BY <1>2, <2>2, <2>3, <2>4
<1> QED BY <1>1, <1>2, TrackerSteps

LEMMA DeliveredNext ==
  ASSUME IInv, ReceiptsAreBorne, DeliveredHasReceipt, [Next]_vars
  PROVE  DeliveredHasReceipt'
<1>0. sent \subseteq sent'
  BY SentGrows
<1>1. CASE UNCHANGED marker
  BY <1>0, <1>1 DEF DeliveredHasReceipt
<1>2. ASSUME NEW o \in Observers, Raises(o) PROVE DeliveredHasReceipt'
  BY <1>2 DEF Raises, DeliveredHasReceipt
<1>3. ASSUME NEW o \in Observers, Refreshes(o) PROVE DeliveredHasReceipt'
  BY <1>0, <1>3 DEF Refreshes, DeliveredHasReceipt
<1>4. ASSUME NEW o \in Observers, Records(o) PROVE DeliveredHasReceipt'
  <2>1. /\ marker'.generation = obs[o].generation /\ At(o, "record")
        /\ marker'.delivery = "delivered" => obs[o].receipt
    BY <1>4 DEF Records, ReceiptsAreBorne, Bears, At
  <2> QED BY <1>0, <2>1 DEF ReceiptsAreBorne, Bears, At, DeliveredHasReceipt
<1> QED BY <1>1, <1>2, <1>3, <1>4, TrackerSteps DEF Rests, Reads, Delivers

LEMMA AnnouncedNext ==
  ASSUME IInv, ActiveIncidentIsAnnounced, [Next]_vars
  PROVE  ActiveIncidentIsAnnounced'
<1>0. /\ marker.severity \in Nat /\ marker'.severity \in Nat
      /\ \A o \in Observers : obs[o].severity \in Nat /\ obs[o].severity >= obs[o].severity
      /\ \A s \in sent : s.severity \in Nat
      /\ sent \subseteq sent' /\ lost \subseteq lost'
  BY NextHolds, SentGrows DEF IInv, TypeOK, Markers, Observations, Sends
<1> DEFINE Known == /\ marker'.generation = marker.generation
                    /\ marker'.active => marker.active
                    /\ marker'.severity <= marker.severity
<1>1. CASE UNCHANGED <<marker, obs, sent, lost>>
  BY <1>1 DEF ActiveIncidentIsAnnounced, At
<1>2. ASSUME NEW o \in Observers, Others(o), Known, marker'.active,
             At(o, "send") => \/ \E s \in sent' : /\ s.generation = obs[o].generation
                                                  /\ s.severity >= obs[o].severity
                              \/ obs[o].generation \in lost'
      PROVE  ActiveIncidentIsAnnounced'
  <2>1. CASE \E s \in sent : s.generation = marker.generation /\ s.severity >= marker.severity
    <3>1. PICK s \in sent : s.generation = marker.generation /\ s.severity >= marker.severity
      BY <2>1
    <3>2. s \in sent' /\ s.generation = marker'.generation /\ s.severity >= marker'.severity
      BY <1>0, <1>2, <3>1
    <3> QED BY <3>2 DEF ActiveIncidentIsAnnounced
  <2>2. ASSUME NEW p \in Observers, At(p, "send"), obs[p].generation = marker.generation,
               obs[p].severity >= marker.severity
        PROVE  ActiveIncidentIsAnnounced'
    <3>1. obs[p].severity >= marker'.severity /\ obs[p].generation = marker'.generation
      BY <1>0, <1>2, <2>2
    <3>2. CASE p # o
      BY <1>2, <2>2, <3>1, <3>2 DEF Others, At, ActiveIncidentIsAnnounced
    <3>3. CASE p = o /\ obs[o].generation \in lost'
      BY <3>1, <3>3 DEF ActiveIncidentIsAnnounced
    <3>4. CASE p = o /\ \E s \in sent' : /\ s.generation = obs[o].generation
                                         /\ s.severity >= obs[o].severity
      <4>1. PICK s \in sent' : s.generation = obs[o].generation /\ s.severity >= obs[o].severity
        BY <3>4
      <4>2. s.severity \in Nat
        BY NextHolds DEF IInv, TypeOK, Sends
      <4>3. s.generation = marker'.generation /\ s.severity >= marker'.severity
        BY <1>0, <3>1, <3>4, <4>1, <4>2
      <4> QED BY <4>3 DEF ActiveIncidentIsAnnounced
    <3> QED BY <1>2, <2>2, <3>2, <3>3, <3>4
  <2>3. CASE marker.generation \in lost
    BY <1>0, <1>2, <2>3 DEF ActiveIncidentIsAnnounced
  <2> QED BY <1>2, <2>1, <2>2, <2>3 DEF ActiveIncidentIsAnnounced
<1>3. ASSUME NEW o \in Observers, Others(o), Raises(o) PROVE ActiveIncidentIsAnnounced'
  BY <1>0, <1>3 DEF Raises, ActiveIncidentIsAnnounced, At
<1>4. ASSUME NEW o \in Observers, Others(o), marker'.active,
             Rests(o) \/ Reads(o) \/ Refreshes(o) \/ Records(o)
      PROVE  ActiveIncidentIsAnnounced'
  <2>3. marker'.generation = marker.generation
    BY <1>4 DEF Rests, Reads, Refreshes, Records
  <2>4. marker.active
    BY <1>4 DEF Rests, Reads, Refreshes, Records
  <2>5. marker'.severity = marker.severity \/ marker'.severity <= marker.severity
    BY <1>4 DEF Rests, Reads, Refreshes, Records
  <2>1. Known
    BY <1>0, <2>3, <2>4, <2>5
  <2>2. At(o, "send") => obs[o].generation \in lost'
    BY <1>4 DEF Rests, Reads, Refreshes, Records, At
  <2> HIDE DEF Known
  <2> QED BY <1>2, <1>4, <2>1, <2>2
<1>5. ASSUME NEW o \in Observers, Others(o), marker'.active, Delivers(o)
      PROVE  ActiveIncidentIsAnnounced'
  <2>3. marker' = marker
    BY <1>5 DEF Delivers
  <2>4. marker'.severity <= marker.severity
    BY <1>0, <2>3
  <2>1. Known
    BY <2>3, <2>4
  <2>2. \E s \in sent' : s.generation = obs[o].generation /\ s.severity >= obs[o].severity
    BY <1>0, <1>5 DEF Delivers
  <2> HIDE DEF Known
  <2> QED BY <1>2, <1>5, <2>1, <2>2
<1>6. CASE ~marker'.active
  BY <1>6 DEF ActiveIncidentIsAnnounced
<1> HIDE DEF Known
<1> QED BY <1>1, <1>3, <1>4, <1>5, <1>6, TrackerSteps

LEMMA EarnedAtFirst == Init => AlertsAreEarned
BY DEF Init, AlertsAreEarned, WritesAreTimely, Timely, ReceiptsAreBorne, Bears,
       DeliveredHasReceipt, ActiveIncidentIsAnnounced, IdleObserver, NoMarker

LEMMA EarnedNext == IInv /\ AlertsAreEarned /\ [Next]_vars => AlertsAreEarned'
BY TimelyNext, BorneNext, DeliveredNext, AnnouncedNext DEF AlertsAreEarned

LEMMA TrackerInvariant == Spec => [](IInv /\ AlertsAreEarned)
BY InitHolds, NextHolds, EarnedAtFirst, EarnedNext, PTL DEF Spec

(* For any observers, faults and bounds: an active incident has been       *)
(* announced at its severity, or its holder is about to, or a fault cut    *)
(* the reservation off (IncidentTracker.observe).                          *)
THEOREM IncidentsAreAnnounced == Spec => []ActiveIncidentIsAnnounced
<1>1. AlertsAreEarned => ActiveIncidentIsAnnounced
  BY DEF AlertsAreEarned
<1> QED BY <1>1, TrackerInvariant, PTL

(* For any observers, faults and bounds: record_delivery writes            *)
(* "delivered" only on a reservation whose own alert got a receipt.        *)
THEOREM DeliveriesAreReceipted == Spec => []DeliveredHasReceipt
<1>1. AlertsAreEarned => DeliveredHasReceipt
  BY DEF AlertsAreEarned
<1> QED BY <1>1, TrackerInvariant, PTL

(* For any observers, faults and bounds: no step of the tracker puts an    *)
(* earlier observation over a later one (MarkerStore.read's rejection and  *)
(* the generation precondition of compare_and_set together).               *)
THEOREM LaterStands == Spec => LaterObservationStands
<1>1. IInv /\ AlertsAreEarned /\ [Next]_vars => marker'.observed >= marker.observed
  BY ObservedGrows DEF AlertsAreEarned
<1> QED BY <1>1, TrackerInvariant, PTL DEF Spec, LaterObservationStands
=============================================================================
