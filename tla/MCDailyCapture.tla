--------------------------- MODULE MCDailyCapture ---------------------------
(***************************************************************************)
(* Instances of DailyCapture for TLC: a tenant with two sources and one    *)
(* with a single younger one, a quota smaller than the sources of the      *)
(* first, and two replicas over a midnight.                                *)
(***************************************************************************)
EXTENDS DailyCapture, TLC

CONSTANTS s1, s2, s3, t1, t2

TwoSources == (s1 :> t1) @@ (s2 :> t1)
TwoAges == (s1 :> 1) @@ (s2 :> 2)

ThreeSources == (s1 :> t1) @@ (s2 :> t1) @@ (s3 :> t2)
ThreeAges == (s1 :> 1) @@ (s2 :> 2) @@ (s3 :> 3)

ReplicaSymmetry == Permutations(Replicas)
=============================================================================
