--------------------------- MODULE MCDigestCoverage ---------------------------
(* An instance of DigestCoverage for the model checker. *)
EXTENDS DigestCoverage, TLC

CONSTANTS r1, r2, t1, job1

AllOfOne == (r1 :> t1) @@ (r2 :> t1)
MixedKinds == (r1 :> {"routine"}) @@ (r2 :> Kinds \ {"routine"})
=============================================================================
