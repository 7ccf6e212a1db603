------------------------------ MODULE Verifier ------------------------------
(***************************************************************************)
(* A Verifier as its callers see it: the metadata cache, the JWKS cache    *)
(* and the signature check composed on one clock (oauth/jwt.go:            *)
(* parseAndFetchKeys and the loop over the keys; oauth/jwks.go:            *)
(* resolveJWKSURL).                                                        *)
(*                                                                         *)
(* Each member of Calls is a goroutine that verifies one token after       *)
(* another against the configured issuer.  It asks AuthServerMeta for the  *)
(* JWKS URI, JWKSCache for the keys published there, and tries them on the *)
(* token.  The issuer may move its JWKS to another URI and rotate the keys *)
(* at any of them between any two steps.                                   *)
(***************************************************************************)
EXTENDS JWKSCache

CONSTANTS
  Issuer,       \* OAuthConfig.Issuer, normalised
  NoIssuer,     \* the empty issuer
  NoDocument,   \* no metadata at any well-known endpoint
  Tokens        \* the tokens presented: the key that signed it and its kid header

ASSUME VerifierAssumption ==
  /\ Issuer # NoIssuer
  /\ NoDocument \notin URIs \cup {NoURI}
  /\ Tokens \subseteq [key : Keys, kid : TokenKids]

VARIABLES
  advertised, replacedAt, asMeta, task, slowest,   \* of AuthServerMeta
  token,        \* the token each goroutine verifies
  verdict,      \* what became of it
  movedAt,      \* history: when the issuer last changed its metadata
  listedSince   \* history: [URIs -> [Keys -> time]], when a key was last added

Meta == INSTANCE AuthServerMeta WITH
  Callers <- Calls, Spellings <- {Issuer}, NormalIssuer <- [s \in {Issuer} |-> Issuer],
  Issuers <- {Issuer}, JWKSURIs <- URIs

metaVars == <<advertised, replacedAt, asMeta, task, slowest>>
steady   == <<movedAt, listedSince>>
allVars  == <<vars, metaVars, token, verdict, steady>>

\* A verdict is "pending" while its call is under way.  "signature" and
\* "noJWKS" are permanent errors, as are "permanent", an answer of the JWKS
\* endpoint, and "noMetadata"; the others but "accepted" and "headerParse"
\* are transient.
Verdicts == {"accepted", "signature", "kidNotFound", "noJWKS", "noMetadata",
             "discovery", "headerParse", "transient", "permanent", "pending"}

VerifierInit ==
  /\ Init
  /\ Meta!Init
  /\ token \in [Calls -> Tokens]
  /\ verdict = [c \in Calls |-> "transient"]
  /\ movedAt = ZeroTime
  /\ listedSince = [u \in URIs |-> [k \in Keys |-> ZeroTime]]

-----------------------------------------------------------------------------
\* The environment.

Passing ==
  /\ Tick
  /\ Meta!Tick
  /\ UNCHANGED <<token, verdict, steady>>

Rotating ==
  /\ \E u \in URIs, K \in SUBSET Keys :
       /\ Publish(u, K)
       /\ listedSince' = [listedSince EXCEPT ![u] =
                            [k \in Keys |-> IF k \in K \ published[u] THEN clock ELSE @[k]]]
  /\ UNCHANGED <<metaVars, token, verdict, movedAt>>

Moving ==
  /\ \E a \in Meta!Answers : Meta!Advertise(Issuer, a)
  /\ movedAt' = clock
  /\ UNCHANGED <<idp, jwks, health, call, history, token, verdict, listedSince>>

-----------------------------------------------------------------------------
\* A call.

\* The verifier is asked for a token; resolveJWKSURL begins.
Verify(c, t) ==
  /\ verdict[c] # "pending"
  /\ Meta!FetchAuthServerMeta(c, Issuer)
  /\ token' = [token EXCEPT ![c] = t]
  /\ verdict' = [verdict EXCEPT ![c] = "pending"]
  /\ UNCHANGED <<idp, jwks, health, call, history, steady>>

Fails(c, v) ==
  /\ verdict' = [verdict EXCEPT ![c] = v]
  /\ UNCHANGED <<jwks, health, call, history>>

\* The metadata is being looked up or discovered, and may not be to be had.
Resolving(c) ==
  /\ \/ Meta!LookupMiss(c) /\ UNCHANGED <<verdict, jwks, health, call, history>>
     \/ Meta!Discover(c) /\ UNCHANGED <<verdict, jwks, health, call, history>>
     \/ Meta!NoMetadata(c) /\ Fails(c, "noMetadata")
     \/ Meta!DiscoveryFails(c) /\ Fails(c, "discovery")
  /\ UNCHANGED <<idp, token, steady>>

\* Mutant: a goroutine that discovered goes on with what the cache held.
AnswerOfEntry(c) == asMeta.uri

\* What resolveJWKSURL makes of the document it was given.
AnswerURI(c) == task'[c].answer

\* The metadata is at hand: resolveJWKSURL returns its jwks_uri, if it has
\* one, and jwt.ParseSigned accepts the token or does not.
Resolved(c) ==
  /\ Meta!LookupHit(c) \/ Meta!Store(c)
  /\ IF AnswerURI(c) = NoURI
     THEN Fails(c, "noJWKS")
     ELSE \/ Begin(c, AnswerURI(c), token[c].kid) /\ UNCHANGED verdict
          \/ HeaderParseFails(c) /\ verdict' = [verdict EXCEPT ![c] = "headerParse"]
  /\ UNCHANGED <<idp, token, steady>>

\* Mutants: any key of the kid will do; the signature is not looked at.
JudgedByKid(t, result) == IF result.err = "none" THEN "accepted" ELSE result.err
NotJudged(t, result)   == result.err

\* The loop over the keys that parseAndFetchKeys returned: the token is
\* accepted if one of them verifies its signature.
Judged(t, result) ==
  CASE result.err # "none"                             -> result.err
    [] result.err = "none" /\ t.key \in result.keys    -> "accepted"
    [] result.err = "none" /\ t.key \notin result.keys -> "signature"

\* The keys are being fetched; the step that returns them ends the call.
Fetching(c) ==
  /\ Step(c)
  /\ verdict' = IF call'[c].pc # "idle" THEN verdict
                ELSE [verdict EXCEPT ![c] = Judged(token[c], call'[c])]
  /\ UNCHANGED <<metaVars, token, steady>>

VerifierNext ==
  \/ Passing
  \/ Rotating
  \/ Moving
  \/ \E c \in Calls, t \in Tokens : Verify(c, t)
  \/ \E c \in Calls : Resolving(c) \/ Resolved(c) \/ Fetching(c)

VerifierSpec == VerifierInit /\ [][VerifierNext]_allVars

\* A goroutine under way keeps running, and discoveries and exchanges end, at
\* the latest when httpTimeout fires.
VerifierFairness == \A c \in Calls : WF_allVars(Resolving(c) \/ Resolved(c) \/ Fetching(c))

FairVerifierSpec == VerifierSpec /\ VerifierFairness

-----------------------------------------------------------------------------
\* Properties.

\* Every variable has its type.
OwnTypeOK ==
  /\ token \in [Calls -> Tokens]
  /\ verdict \in [Calls -> Verdicts]
  /\ movedAt \in Time
  /\ listedSince \in [URIs -> [Keys -> Time]]

VerifierTypeOK == TypeOK /\ Meta!TypeOK /\ OwnTypeOK

\* The issuer has named one JWKS URI, and the token's key has been published
\* there, without interruption since t.
ServedSince(k, t) ==
  /\ advertised[Issuer] \in URIs
  /\ movedAt <= t
  /\ k \in published[advertised[Issuer]]
  /\ listedSince[advertised[Issuer]][k] <= t

\* How long before a call its issuer's metadata or its keys may have changed
\* unnoticed.
Settling == Window + slowest

\* A genuine token is only refused for its signature, its kid or a missing
\* jwks_uri while the issuer is settling: if it has named the same JWKS URI
\* for 110% of the TTL, and the time a discovery takes, before the call, and
\* published the token's key there throughout, then the call finds the key.
\* The two caches' staleness does not add up, and it does not matter what
\* kids and rotations the other calls meet, nor which responses come late.
SettledTokensVerify ==
  [][\A c \in Calls :
       /\ verdict[c] = "pending"
       /\ verdict'[c] \in {"signature", "kidNotFound", "noJWKS", "noMetadata"}
       /\ token[c].kid \in {NoKid, KidOf[token[c].key]}
       => ~ ServedSince(token[c].key, (task[c].at - Settling)')]_allVars

\* A token is only accepted if its key was recently published at a URI that
\* the issuer recently named: here the two delays do count from different
\* instants, the metadata's from the call and the keys' from the lookup.
AcceptedKeysWereServed ==
  [][\A c \in Calls :
       /\ verdict[c] = "pending"
       /\ verdict'[c] = "accepted"
       => \E u \in URIs :
            /\ Meta!AdvertisedAfter(Issuer, u, task[c].at - Settling)
            /\ PublishedAfter(u, token[c].key, call[c].now - Window)]_allVars

\* How many more steps a call can take: at most three at the metadata, one of
\* them a discovery, and then those of the JWKS cache.
StepsToVerdict(c) ==
  CASE verdict[c] # "pending"                        -> 0
    [] verdict[c] = "pending" /\ call[c].pc # "idle" -> StepsLeft(call[c])
    [] verdict[c] = "pending" /\ call[c].pc = "idle" ->
         14 + [idle |-> 0, store |-> 1, discover |-> 2, lookup |-> 3][task[c].pc]

\* A verification is nearer its verdict after every step it takes, and no other
\* goroutine, rotation or move of the issuer sets it back: a token costs at most
\* one discovery and two exchanges, though nothing the caches hold is its own.
VerdictsComeNearer ==
  [][\A c \in Calls : /\ verdict[c] = "pending"
                      /\ <<task[c], call[c], verdict[c]>>' # <<task[c], call[c], verdict[c]>>
                      => StepsToVerdict(c)' < StepsToVerdict(c)]_allVars

\* Every token presented gets its verdict, whatever the issuer and the other
\* goroutines do.
VerdictsCome == \A c \in Calls : verdict[c] = "pending" ~> verdict[c] # "pending"

=============================================================================
