\* Two concurrent observers, store faults and crashes.  The bound on the
\* observations ends a behaviour, hence no deadlock check.
SPECIFICATION Spec
CONSTANTS
  Observers = {o1, o2}
  Severities = {1, 2}
  Attempts = 2
  StoreFaults = TRUE
  Crashes = TRUE
  MaxClock = 1
  MaxObservations = 4
SYMMETRY ObserverSymmetry
INVARIANTS
  TypeOK
  OneSendPerReservation
  DeliveredHasReceipt
  ActiveIncidentIsAnnounced
PROPERTIES
  LaterObservationStands
CHECK_DEADLOCK FALSE
