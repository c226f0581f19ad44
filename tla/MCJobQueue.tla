----------------------------- MODULE MCJobQueue -----------------------------
(***************************************************************************)
(* Instances of JobQueue for TLC: a collection and a domain verification,  *)
(* of different priorities, or a single job with the three attempts the    *)
(* routes give it, and two workers.                                        *)
(***************************************************************************)
EXTENDS JobQueue, TLC

CONSTANTS collection, verification

TwoTypes == (collection :> "evidence_collection") @@ (verification :> "domain_verification")
TwoPriorities == (collection :> 40) @@ (verification :> 50)
TwoLimits == (collection :> 2) @@ (verification :> 2)

OneSnapshot == collection :> "source_snapshot"
OnePriority == collection :> 35
OneLimit == collection :> 3

WorkerSymmetry == Permutations(Workers)
=============================================================================
