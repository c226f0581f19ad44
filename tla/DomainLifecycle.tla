-------------------------- MODULE DomainLifecycle --------------------------
(***************************************************************************)
(* What a project may rely on about the trust in its domain: as if every   *)
(* request and every job were done at once, without locks, sessions or     *)
(* answers of DNS that come late.                                          *)
(***************************************************************************)

CONSTANTS
  Challenges,
  Sources,
  OwnSources  \* those in the project's domain

VARIABLES
  standing,  \* of each challenge
  trusted,   \* the project's domain is verified
  sources,   \* the standing of each source
  shown      \* challenges whose token DNS has shown

domain == <<standing, trusted, sources, shown>>

Start ==
  /\ standing = [c \in Challenges |-> "absent"]
  /\ trusted = FALSE
  /\ sources = [s \in Sources |-> "absent"]
  /\ shown = {}

\* A new challenge takes the place of those that are pending.
Issue(c) ==
  /\ standing[c] = "absent"
  /\ standing' = [d \in Challenges |->
       IF d = c THEN "pending"
       ELSE IF standing[d] = "pending" THEN "superseded" ELSE standing[d]]
  /\ UNCHANGED <<trusted, sources, shown>>

ExpirePending(c) ==
  /\ standing[c] = "pending"
  /\ standing' = [standing EXCEPT ![c] = "expired"]
  /\ UNCHANGED <<trusted, sources, shown>>

\* Only a token that was given out can be found in DNS.
Show(c) ==
  /\ standing[c] # "absent"
  /\ shown' = shown \cup {c}
  /\ UNCHANGED <<standing, trusted, sources>>

\* The project is trusted, and the sources it has in its domain with it.
Trusting ==
  /\ trusted' = TRUE
  /\ sources' = [s \in Sources |-> IF s \in OwnSources /\ sources[s] # "absent"
                                   THEN "verified" ELSE sources[s]]
  /\ UNCHANGED shown

\* A challenge is verified once, by its own token, and even one that has expired: the
\* request that was checking it may have been the earlier of the two.
Verify(c) ==
  /\ standing[c] \in {"pending", "expired"}
  /\ c \in shown
  /\ standing' = [standing EXCEPT ![c] = "verified"]
  /\ Trusting

\* A token found too late for its challenge proves the domain all the same.
Confirm(c) ==
  /\ standing[c] \notin {"absent", "pending"}
  /\ c \in shown
  /\ Trusting
  /\ UNCHANGED standing

\* A source is born with the standing its project has at that moment.
Register(s) ==
  /\ sources[s] = "absent"
  /\ sources' = [sources EXCEPT ![s] =
       IF trusted /\ s \in OwnSources THEN "verified" ELSE "unverified"]
  /\ UNCHANGED <<standing, trusted, shown>>

DomainNext ==
  \/ \E c \in Challenges : Issue(c) \/ ExpirePending(c) \/ Show(c) \/ Verify(c) \/ Confirm(c)
  \/ \E s \in Sources : Register(s)

DomainSpec == Start /\ [][DomainNext]_domain
=============================================================================
