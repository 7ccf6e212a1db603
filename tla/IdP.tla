--------------------------------- MODULE IdP ---------------------------------
(***************************************************************************)
(* The identity provider and the clock: what the SDK's caches observe and  *)
(* do not control.  At any instant the IdP serves some set of JSON web     *)
(* keys at each JWKS URI; it rotates keys whenever it likes.               *)
(***************************************************************************)
EXTENDS Integers, CacheExpiry

CONSTANTS
  Keys,       \* JSON web keys the IdP may publish
  Kids,       \* key ids
  NoKid,      \* the absent kid, of a token header or of a JWK
  KidOf,      \* the kid of each key
  URIs,       \* the JWKS URIs
  Instants    \* what the clock can show (bounds the model)

ASSUME KeyAssumption ==
  /\ NoKid \notin Kids
  /\ KidOf \in [Keys -> Kids \cup {NoKid}]

ASSUME InstantsAssumption ==
  /\ Instants \subseteq Nat \ {ZeroTime}
  /\ Instants # {}

VARIABLES
  clock,        \* time.Now()
  published,    \* [URIs -> SUBSET Keys]: what the IdP serves
  withdrawnAt   \* [URIs -> [Keys -> time]]: last withdrawal, ZeroTime if none

idp == <<published, withdrawnAt>>

Time == Nat

IdPTypeOK ==
  /\ clock \in Instants
  /\ published \in [URIs -> SUBSET Keys]
  /\ withdrawnAt \in [URIs -> [Keys -> Time]]

IdPInit ==
  /\ clock \in Instants
  /\ published \in [URIs -> SUBSET Keys]
  /\ withdrawnAt = [u \in URIs |-> [k \in Keys |-> ZeroTime]]

\* Time passes.
ClockMoves ==
  /\ \E t \in Instants : t > clock /\ clock' = t
  /\ UNCHANGED idp

\* The document at u becomes K.
Rotate(u, K) ==
  /\ K # published[u]
  /\ published' = [published EXCEPT ![u] = K]
  /\ withdrawnAt' = [withdrawnAt EXCEPT ![u] =
                       [k \in Keys |-> IF k \in published[u] \ K THEN clock ELSE @[k]]]
  /\ UNCHANGED clock

\* Some key at u has been published at an instant later than t.
PublishedAfter(u, k, t) ==
  \/ k \in published[u]
  \/ withdrawnAt[u][k] # ZeroTime /\ withdrawnAt[u][k] > t

\* keySet.Key(keyID), or the whole set when the token carries no kid.
Candidates(kid, K) == IF kid = NoKid THEN K ELSE {k \in K : KidOf[k] = kid}

=============================================================================
