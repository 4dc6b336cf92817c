--------------------------- MODULE MCSessionCache ---------------------------
(* Instances of SessionCache for TLC. *)
EXTENDS SessionCache, TLC

CONSTANTS i1, i2, c1, c2

(* Each instance serves one caller. *)
Apart == (c1 :> i1) @@ (c2 :> i2)

(* One instance is checked and renewed, the other runs cycles and reads    *)
(* account facts.                                                          *)
RenewedAndReading ==
  (c1 :> {"check", "renew"}) @@ (c2 :> {"connect", "readOnly"})

ASSUME DistinctValues == c1 # c2 /\ i1 # i2
=============================================================================
