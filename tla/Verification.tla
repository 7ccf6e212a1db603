---------------------------- MODULE Verification ----------------------------
(***************************************************************************)
(* What a Verifier promises its callers, with no cache in it.  A token is  *)
(* pending until it has its verdict: the issuer names a JWKS URI, or none; *)
(* the keys there are looked at once or twice; and the verdict is one that *)
(* what the issuer has served and when allows.  The issuer's own answers   *)
(* may be Window old, and its metadata the delay of an answer more.        *)
(***************************************************************************)
EXTENDS IdP

CONSTANTS
  Calls,        \* goroutines verifying tokens
  Tokens,       \* the tokens: the key that signed each and its kid header
  Issuer,       \* the configured issuer
  NoIssuer,     \* the empty issuer
  NoURI,        \* a metadata document without a jwks_uri
  NoDocument,   \* no metadata at any well-known endpoint
  Window        \* how long what an issuer has replaced may still be used

VARIABLES
  advertised, replacedAt,   \* of IssuerEndpoints
  listedSince,  \* [URIs -> [Keys -> time]]: when a key was last added
  token,        \* the token each goroutine verifies
  verdict,      \* what became of it, or "pending"
  search,       \* how far the search for its key has come
  delay         \* the longest time a metadata answer has been on its way

world    == <<clock, idp, advertised, replacedAt, listedSince>>
contract == <<world, token, verdict, search, delay>>

Endpoints == INSTANCE IssuerEndpoints WITH Issuers <- {Issuer}, JWKSURIs <- URIs

\* The URI named, the looks taken at it, and the instant of the last one.
Search(u, looks, since) == [uri |-> u, looks |-> looks, since |-> since]
Unnamed == Search(NoURI, 0, ZeroTime)

Init ==
  /\ Endpoints!EndpointsInit
  /\ IdPInit
  /\ listedSince = [u \in URIs |-> [k \in Keys |-> ZeroTime]]
  /\ token \in [Calls -> Tokens]
  /\ verdict = [c \in Calls |-> "transient"]
  /\ search = [c \in Calls |-> Unnamed]
  /\ delay = 0

\* The environment's steps.
Environment ==
  /\ \/ ClockMoves /\ UNCHANGED <<advertised, replacedAt, listedSince>>
     \/ /\ \E u \in URIs, K \in SUBSET Keys :
             /\ Rotate(u, K)
             /\ listedSince' = [listedSince EXCEPT ![u] =
                                  [k \in Keys |-> IF k \in K \ published[u] THEN clock ELSE @[k]]]
        /\ UNCHANGED <<advertised, replacedAt>>
     \/ /\ \E a \in Endpoints!Answers : Endpoints!Replace(Issuer, a)
        /\ UNCHANGED <<idp, listedSince>>
  /\ UNCHANGED <<token, verdict, search, delay>>

-----------------------------------------------------------------------------
\* A call.

Verify(c, t) ==
  /\ verdict[c] # "pending"
  /\ token' = [token EXCEPT ![c] = t]
  /\ verdict' = [verdict EXCEPT ![c] = "pending"]
  /\ UNCHANGED <<world, search, delay>>

Nameless(c) == verdict[c] = "pending" /\ search[c] = Unnamed

\* An answer of the issuer, which may have been on its way longer than any.
Recent(a) ==
  /\ delay' \in Nat /\ delay' >= delay
  /\ Endpoints!AdvertisedAfter(Issuer, a, clock - Window - delay')

Name(c, u) ==
  /\ Nameless(c)
  /\ Recent(u)
  /\ search' = [search EXCEPT ![c] = Search(u, 0, ZeroTime)]
  /\ UNCHANGED <<world, token, verdict>>

\* The step that gives the verdict v.
Judge(c, v) ==
  /\ verdict' = [verdict EXCEPT ![c] = v]
  /\ search' = [search EXCEPT ![c] = Unnamed]
  /\ UNCHANGED <<world, token>>

\* No metadata is only found missing while it is, and a jwks_uri only if it
\* was so recently; discovery and the token's header fail as they like.
NoMetadata(c) ==
  /\ Judge(c, "noMetadata")
  /\ Nameless(c)
  /\ advertised[Issuer] = NoDocument
  /\ UNCHANGED delay

NoJWKS(c) ==
  /\ Judge(c, "noJWKS")
  /\ Nameless(c)
  /\ Recent(NoURI)

DiscoveryFails(c) == Judge(c, "discovery") /\ Nameless(c) /\ UNCHANGED delay

HeaderParseFails(c) ==
  /\ Judge(c, "headerParse")
  /\ Nameless(c)
  /\ \E u \in URIs : Recent(u)

Look(c) ==
  /\ verdict[c] = "pending"
  /\ search[c].uri \in URIs
  /\ search[c].looks < 2
  /\ search' = [search EXCEPT ![c] = Search(search[c].uri, search[c].looks + 1, clock)]
  /\ UNCHANGED <<world, token, verdict, delay>>

\* What a look may have shown, and what it must have.
MayShow(c, k)  == PublishedAfter(search[c].uri, k, search[c].since - Window)
MustShow(c, k) == /\ k \in published[search[c].uri]
                  /\ listedSince[search[c].uri][k] <= search[c].since - Window

\* The keys a token's kid header asks for: any, if it has none.
Wanted(c) == Candidates(token[c].kid, Keys)

Looked(c) == verdict[c] = "pending" /\ search[c].looks > 0

Accept(c) ==
  /\ Judge(c, "accepted")
  /\ Looked(c)
  /\ token[c].key \in Wanted(c)
  /\ MayShow(c, token[c].key)
  /\ UNCHANGED delay

\* Its signature fails if its key is not wanted or need not have shown.
RefuseSignature(c) ==
  /\ Judge(c, "signature") /\ UNCHANGED delay
  /\ Looked(c)
  /\ token[c].key \in Wanted(c) => ~ MustShow(c, token[c].key)
  /\ token[c].kid # NoKid => \E k \in Wanted(c) : MayShow(c, k)

\* A kid is given up after two looks that need not have shown it.
RefuseKid(c) ==
  /\ Judge(c, "kidNotFound") /\ UNCHANGED delay
  /\ Looked(c)
  /\ search[c].looks = 2
  /\ token[c].kid # NoKid
  /\ \A k \in Wanted(c) : ~ MustShow(c, k)

FetchFails(c) ==
  /\ \E v \in {"transient", "permanent"} : Judge(c, v)
  /\ Looked(c)
  /\ UNCHANGED delay

Next ==
  \/ Environment
  \/ \E c \in Calls, t \in Tokens : Verify(c, t)
  \/ \E c \in Calls, u \in URIs : Name(c, u)
  \/ \E c \in Calls : \/ NoMetadata(c) \/ NoJWKS(c) \/ DiscoveryFails(c) \/ HeaderParseFails(c)
                      \/ Look(c)
                      \/ Accept(c) \/ RefuseSignature(c) \/ RefuseKid(c) \/ FetchFails(c)

Spec == Init /\ [][Next]_contract

=============================================================================
