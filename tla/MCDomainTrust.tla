--------------------------- MODULE MCDomainTrust ---------------------------
(***************************************************************************)
(* Instances of DomainTrust for TLC: a challenge and its rotation, a source *)
(* of the domain and a lookalike, two requests and a worker.               *)
(***************************************************************************)
EXTENDS DomainTrust, TLC

RequestSymmetry == Permutations(Requests)
=============================================================================
