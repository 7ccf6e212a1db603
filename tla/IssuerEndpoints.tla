--------------------------- MODULE IssuerEndpoints ---------------------------
(***************************************************************************)
(* The well-known endpoints of the issuers, and the clock: what the        *)
(* metadata cache observes and does not control.  An issuer serves some    *)
(* metadata document, or none, and replaces it whenever it likes.  Of a    *)
(* document only the jwks_uri is kept: it is what the rest of the SDK      *)
(* reads.                                                                  *)
(***************************************************************************)
EXTENDS Integers, CacheExpiry

CONSTANTS
  Issuers,      \* the issuers that can be asked
  NoIssuer,     \* the empty issuer
  JWKSURIs,     \* the JWKS URIs an issuer may advertise
  NoURI,        \* a document without a jwks_uri
  NoDocument,   \* no document at any well-known endpoint
  Instants      \* what the clock can show (bounds the model)

Documents == JWKSURIs \cup {NoURI}
Answers   == Documents \cup {NoDocument}

ASSUME DocumentAssumption == NoDocument \notin Documents

ASSUME MetaInstantsAssumption ==
  /\ Instants \subseteq Nat \ {ZeroTime}
  /\ Instants # {}

VARIABLES
  clock,        \* time.Now()
  advertised,   \* [Issuers -> Answers]: what each issuer's endpoints serve
  replacedAt    \* [Issuers -> [Answers -> time]]: when it last stopped serving it

issuers == <<advertised, replacedAt>>

Time == Nat

EndpointsTypeOK ==
  /\ clock \in Instants
  /\ advertised \in [Issuers -> Answers]
  /\ replacedAt \in [Issuers -> [Answers -> Time]]

EndpointsInit ==
  /\ clock \in Instants
  /\ advertised \in [Issuers -> Answers]
  /\ replacedAt = [i \in Issuers |-> [a \in Answers |-> ZeroTime]]

\* Time passes.
TimePasses ==
  /\ \E t \in Instants : t > clock /\ clock' = t
  /\ UNCHANGED issuers

\* Issuer i serves a from now on.
Replace(i, a) ==
  /\ a # advertised[i]
  /\ advertised' = [advertised EXCEPT ![i] = a]
  /\ replacedAt' = [replacedAt EXCEPT ![i][advertised[i]] = clock]
  /\ UNCHANGED clock

\* Issuer i has advertised a at some instant later than t.
AdvertisedAfter(i, a, t) ==
  \/ a = advertised[i]
  \/ replacedAt[i][a] # ZeroTime /\ replacedAt[i][a] > t

=============================================================================
