------------------------- MODULE MCIncidentTracker --------------------------
(* Instances of IncidentTracker for TLC. *)
EXTENDS IncidentTracker, TLC

ObserverSymmetry == Permutations(Observers)
=============================================================================
