------------------------------ MODULE Session ------------------------------
(***************************************************************************)
(* The browser session: the tokens oidc-client-ts keeps in session storage *)
(* (oidc.ts), the gate that mounts the application for a user              *)
(* (AuthGate.tsx), and what every request does with a token                *)
(* (v2Api.ts, request).                                                    *)
(***************************************************************************)
EXTENDS Integers

CONSTANTS
  MaxTokens,    \* bound: tokens issued
  MaxInFlight   \* bound: requests under way with one token

ASSUME SessionAssumption == MaxTokens \in Nat /\ MaxInFlight \in Nat

NoToken == 0
Tokens == 1..MaxTokens

VARIABLES
  issued,    \* the last token the identity provider issued
  stored,    \* the token in session storage
  expired,   \* whether it has expired
  user,      \* AuthGate: the token of the user the gate was given
  gate,      \* AuthGate: loading, ready or error
  inFlight,  \* how many requests with each token are under way
  rejected   \* the tokens the API answered with 401

sessionVars == <<issued, stored, expired, user, gate, inFlight, rejected>>

NoRequests == [t \in Tokens |-> 0]

\* A page loads: for the first time, or with a user a former one left in storage.
SessionInit ==
  /\ issued \in {0, 1} /\ issued <= MaxTokens
  /\ stored = issued
  /\ expired \in BOOLEAN /\ (stored = NoToken => ~ expired)
  /\ user = NoToken /\ gate = "loading"
  /\ inFlight = NoRequests /\ rejected = {}

GateOpen == gate = "ready" /\ user # NoToken

\* Variant: a stored user is admitted whatever its expiry.
AnyStored == stored

Admissible == IF expired THEN NoToken ELSE stored

\* initializeSession and the code after it: an expired user is not admitted.
SessionEstablished ==
  /\ gate = "loading"
  /\ user' = Admissible
  /\ gate' = "ready"
  /\ UNCHANGED <<issued, stored, expired, inFlight, rejected>>

\* The configuration is missing or the callback fails.
SessionFailed ==
  /\ gate = "loading"
  /\ gate' = "error"
  /\ UNCHANGED <<issued, stored, expired, user, inFlight, rejected>>

\* userLoaded: automaticSilentRenew brings a new token, even after the expiry.
Renewed ==
  /\ stored # NoToken /\ issued < MaxTokens
  /\ issued' = issued + 1
  /\ stored' = issued + 1
  /\ expired' = FALSE
  /\ user' = issued + 1
  /\ UNCHANGED <<gate, inFlight, rejected>>

\* The clock passes expires_at: user.expired, which nobody is told of yet.
TokenExpired ==
  /\ stored # NoToken /\ ~ expired
  /\ expired' = TRUE
  /\ UNCHANGED <<issued, stored, user, gate, inFlight, rejected>>

\* The event accessTokenExpired, a second later at the earliest: the gate closes, the
\* user stays in storage.
AccessTokenExpired ==
  /\ stored # NoToken /\ expired
  /\ user' = NoToken
  /\ UNCHANGED <<issued, stored, expired, gate, inFlight, rejected>>

\* request: getAccessToken rejects an absent or expired user.
RequestSent ==
  /\ GateOpen
  /\ stored # NoToken /\ ~ expired
  /\ inFlight[stored] < MaxInFlight
  /\ inFlight' = [inFlight EXCEPT ![stored] = @ + 1]
  /\ UNCHANGED <<issued, stored, expired, user, gate, rejected>>

\* Variant: an answer is counted although none is awaited.
AnsweredTwice(t) ==
  /\ inFlight' = [inFlight EXCEPT ![t] = @ - 1]
  /\ UNCHANGED <<issued, stored, expired, user, gate, rejected>>

RequestAnswered(t) ==
  /\ inFlight[t] > 0
  /\ inFlight' = [inFlight EXCEPT ![t] = @ - 1]
  /\ UNCHANGED <<issued, stored, expired, user, gate, rejected>>

\* Variant: the rejected user stays in storage.
UserRejectedOnly == UNCHANGED <<stored, expired, user>>

\* removeUser, and the userUnloaded event that closes the gate.
UserRemoved == stored' = NoToken /\ expired' = FALSE /\ user' = NoToken

\* A 401 removes the user, the one whose token it was or a renewed one.
RequestRejected(t) ==
  /\ inFlight[t] > 0
  /\ inFlight' = [inFlight EXCEPT ![t] = @ - 1]
  /\ rejected' = rejected \cup {t}
  /\ UserRemoved
  /\ UNCHANGED <<issued, gate>>

\* signIn, or a step-up, leaves the page; the callback loads it again with a new
\* user.
SignIn ==
  /\ gate = "ready" /\ issued < MaxTokens
  /\ issued' = issued + 1
  /\ stored' = issued + 1
  /\ expired' = FALSE
  /\ user' = NoToken /\ gate' = "loading"
  /\ inFlight' = NoRequests
  /\ UNCHANGED rejected

\* signOut, by redirection or, if that fails, by removing the user.
SignOut ==
  /\ GateOpen
  /\ UserRemoved
  /\ UNCHANGED <<issued, gate, inFlight, rejected>>

SessionEvents ==
  \/ SessionFailed \/ Renewed \/ TokenExpired \/ AccessTokenExpired
  \/ RequestSent \/ SignIn \/ SignOut
  \/ \E t \in Tokens : RequestAnswered(t) \/ RequestRejected(t)

-----------------------------------------------------------------------------
(* Properties *)

SessionTypeOK ==
  /\ issued \in 0..MaxTokens /\ stored \in 0..MaxTokens /\ user \in 0..MaxTokens
  /\ expired \in BOOLEAN
  /\ gate \in {"loading", "ready", "error"}
  /\ inFlight \in [Tokens -> 0..MaxInFlight]
  /\ rejected \subseteq Tokens

\* The application is mounted for the user in storage only, whichever of renewal,
\* expiry, a 401, the sign-out and the start of the session come in which order.  It
\* may outlive its token until accessTokenExpired is delivered, but never starts
\* with an expired one, nor comes by it in place of another.
GateFollowsSession ==
  /\ [](GateOpen => user = stored)
  /\ [][GateOpen' /\ expired' => GateOpen /\ user' = user]_sessionVars

\* A token the API has rejected is never sent again.
RejectedIsNotResent ==
  [][\A t \in rejected : inFlight'[t] <= inFlight[t]]_sessionVars
=============================================================================
