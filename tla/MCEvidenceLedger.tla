-------------------------- MODULE MCEvidenceLedger --------------------------
(***************************************************************************)
(* Instances of EvidenceLedger for TLC: a content of a provider request    *)
(* and one without; or also another content of the same provider request.  *)
(***************************************************************************)
EXTENDS EvidenceLedger, TLC

CONSTANTS c1, c2, c3, p1

TwoContents == (c1 :> p1) @@ (c3 :> NoId)
OneProviderRequest == (c1 :> p1) @@ (c2 :> p1) @@ (c3 :> NoId)

Symmetry == Permutations(Requests) \cup Permutations(Keys) \cup Permutations(Executors)
              \cup Permutations({c1, c2})
=============================================================================
