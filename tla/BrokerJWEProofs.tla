--------------------------- MODULE BrokerJWEProofs ---------------------------
(***************************************************************************)
(* Proofs about BrokerJWE, for every set of secrets, purposes, lifetimes   *)
(* and instants.                                                           *)
(***************************************************************************)
EXTENDS BrokerJWE, TLAPS

\* What minting leaves in the artifact: the key tells the secret and the
\* purpose, and the header tells how to open it.
WellMinted ==
  /\ artifact.key.secret = artifact.with
  /\ artifact.key.info = artifact.purpose
  /\ artifact.exp.type = "unix" => artifact.exp.unix = artifact.born.s + artifact.ttl
  /\ artifact.by = "encode" => /\ artifact.kid = "v1"
                               /\ artifact.key = DeriveKey(artifact.with, artifact.purpose)
                               /\ artifact.form = "json"
  /\ artifact.by = "generate" =>
       /\ artifact.kid = "none"
       /\ artifact.key = HashSHA256(artifact.with)
       /\ artifact.signer = HashSHA256(artifact.signer.secret)
       /\ IF artifact.signer.secret = NoSecret
          THEN artifact.cty = "JSON" /\ artifact.form = "json"
          ELSE artifact.cty = "JWT" /\ artifact.form = "jwt"

BrokerInv == TypeOK /\ WellMinted /\ PurposesKeptApart /\ HonouredForItsLifetime

LEMMA KeysTyped ==
  ASSUME NEW s \in Secrets \cup {NoSecret}, NEW p \in Purposes
  PROVE  DeriveKey(s, p) \in KeyTerms /\ HashSHA256(s) \in KeyTerms
BY DEF DeriveKey, HashSHA256, KeyTerms

LEMMA ExpTyped ==
  ASSUME now \in Instants, NEW type \in ExpTypes, NEW n \in Lifetimes
  PROVE  ExpOf(type, n) \in Exps
<1>1. now.s \in Nat /\ n \in Nat
  BY TimeAssumption DEF Instants
<1>2. now.s + n \in Nat
  BY <1>1
<1> QED BY <1>2 DEF ExpOf, Exps

-----------------------------------------------------------------------------
\* Minting.

LEMMA EncodedWell ==
  ASSUME TypeOK, NEW p \in Purposes, NEW n \in Lifetimes, NEW type \in ExpTypes,
         NEW allowed \in BOOLEAN, artifact' = Encoded(p, n, type, allowed)
  PROVE  artifact' \in Artifacts /\ WellMinted'
<1>1. artifact' \in Artifacts
  BY KeysTyped, ExpTyped DEF Encoded, Artifacts, TypeOK
<1>2. WellMinted'
  BY DEF WellMinted, Encoded, DeriveKey, HashSHA256, ExpOf
<1> QED BY <1>1, <1>2

LEMMA GeneratedWell ==
  ASSUME TypeOK, NEW js \in Secrets \cup {NoSecret}, NEW n \in Lifetimes, NEW type \in ExpTypes,
         NEW allowed \in BOOLEAN, artifact' = Generated(js, n, type, allowed)
  PROVE  artifact' \in Artifacts /\ WellMinted'
<1>1. HashSHA256(secret) \in KeyTerms /\ HashSHA256(js) \in KeyTerms
  BY DEF HashSHA256, KeyTerms, TypeOK
<1>2. artifact' \in Artifacts
  BY <1>1, ExpTyped DEF Generated, Artifacts, TypeOK
<1>3. WellMinted'
  BY DEF WellMinted, Generated, HashSHA256, ExpOf
<1> QED BY <1>2, <1>3

LEMMA ForeignWell ==
  ASSUME TypeOK, NEW key \in {HashSHA256(secret)} \cup {DeriveKey(secret, p) : p \in Purposes},
         NEW kid \in {"v1", "none", "other"}, NEW cty \in {"JSON", "JWT", "none", "other"},
         NEW form \in {"json", "jwt"}, NEW n \in Lifetimes,
         artifact' = Foreign(key, kid, cty, form, n)
  PROVE  artifact' \in Artifacts /\ WellMinted'
<1>1. key \in KeyTerms /\ key.secret = secret /\ key.info \in Purposes \cup {NoPurpose}
      /\ HashSHA256(secret) \in KeyTerms
  BY DEF HashSHA256, DeriveKey, KeyTerms, TypeOK
<1>2. ExpOf("unix", n) \in Exps
  BY ExpTyped DEF ExpTypes, TypeOK
<1>3. artifact' \in Artifacts
  BY <1>1, <1>2 DEF Foreign, Artifacts, TypeOK
<1>4. WellMinted'
  BY <1>1 DEF WellMinted, Foreign, ExpOf
<1> QED BY <1>3, <1>4

LEMMA PendingHolds ==
  ASSUME outcome'.result = "pending"
  PROVE  PurposesKeptApart' /\ HonouredForItsLifetime'
BY DEF PurposesKeptApart, HonouredForItsLifetime

LEMMA BrokerInit == Init => BrokerInv
<1> SUFFICES ASSUME Init
             PROVE  BrokerInv
  OBVIOUS
<1>1. PICK p \in Purposes, n \in Lifetimes : artifact = Encoded(p, n, "unix", TRUE)
  BY DEF Init
<1>2. /\ DeriveKey(secret, p) \in KeyTerms /\ HashSHA256(NoSecret) \in KeyTerms
      /\ now \in Instants /\ secret \in Secrets
  BY DEF Init, DeriveKey, HashSHA256, KeyTerms
<1>3. ExpOf("unix", n) \in Exps
  BY <1>2, ExpTyped DEF ExpTypes
<1>4. artifact \in Artifacts
  BY <1>1, <1>2, <1>3 DEF Encoded, Artifacts
<1>5. outcome \in Outcomes /\ outcome.result = "pending"
  BY <1>2 DEF Init, Pending, Outcomes
<1>6. WellMinted
  BY <1>1 DEF WellMinted, Encoded, DeriveKey, HashSHA256, ExpOf
<1> QED BY <1>2, <1>4, <1>5, <1>6 DEF BrokerInv, TypeOK, PurposesKeptApart, HonouredForItsLifetime

-----------------------------------------------------------------------------
\* Opening.

\* A verdict is only the claims if the artifact is allowed.
LEMMA JudgementsTyped ==
  ASSUME TypeOK, NEW r \in Judgements
  PROVE  /\ r \in {"claims", "invalid", "disallowed"}
         /\ artifact.allowed /\ artifact.exp.type = "unix" =>
              (r = "claims" <=> ~ Expired(artifact.exp))
<1>1. artifact.exp.type \in ExpTypes /\ artifact.allowed \in BOOLEAN
  BY DEF TypeOK, Artifacts, Exps
<1>2. CASE ~ artifact.allowed
  BY <1>2 DEF Judgements
<1>3. CASE artifact.allowed
  BY <1>1, <1>3 DEF Judgements, ExpTypes
<1> QED BY <1>1, <1>2, <1>3

\* An artifact within its lifetime has not expired, and one a second past it has.
LEMMA ExpiryBounds ==
  ASSUME TypeOK, WellMinted, artifact.exp.type = "unix"
  PROVE  /\ Expired(artifact.exp) => Past(now, artifact.born, artifact.ttl)
         /\ NotBefore(now, artifact.born, artifact.ttl + 1) => Expired(artifact.exp)
<1>1. /\ now.s \in Nat /\ artifact.born.s \in Nat /\ artifact.ttl \in Nat
      /\ artifact.exp.unix = artifact.born.s + artifact.ttl
  BY TimeAssumption DEF TypeOK, WellMinted, Artifacts, Instants
<1>2. artifact.exp.unix \in Nat
  BY <1>1
<1> QED BY <1>1, <1>2 DEF Expired, Past, NotBefore

\* Opening it as p, a reader gets the claims or not.
LEMMA DecodedRight ==
  ASSUME BrokerInv, NEW p \in Purposes, NEW r \in Decoded(p)
  PROVE  /\ r \in {"claims", "invalid", "disallowed"}
         /\ r = "claims" => artifact.with = secret /\ artifact.purpose \in {p, NoPurpose}
         /\ IntendedFor(p) /\ secret = artifact.with => r \in Judgements
<1>a. TypeOK /\ WellMinted
  BY DEF BrokerInv
<1>b. secret # NoSecret
  BY <1>a, SecretAssumption DEF TypeOK
<1>1. CASE artifact.kid = "v1"
  <2>1. IF artifact.key = DeriveKey(secret, p) /\ artifact.form = "json"
        THEN r \in Judgements ELSE r = "invalid"
    <3>1. r \in IF artifact.key = DeriveKey(secret, p) /\ artifact.form = "json"
                THEN Judgements ELSE {"invalid"}
      BY <1>1 DEF Decoded, Decrypts
    <3> QED BY <3>1
  <2>2. artifact.key = DeriveKey(secret, p) => artifact.with = secret /\ artifact.purpose = p
    BY <1>a DEF WellMinted, DeriveKey
  <2>3. IntendedFor(p) /\ secret = artifact.with =>
          artifact.key = DeriveKey(secret, p) /\ artifact.form = "json"
    BY <1>1, <1>a DEF WellMinted, IntendedFor
  <2> QED BY <1>a, <2>1, <2>2, <2>3, JudgementsTyped
<1>2. CASE artifact.kid # "v1"
  <2>1. \/ r \in Judgements /\ artifact.key = HashSHA256(secret)
        \/ r = "invalid" /\ ~ (artifact.key = HashSHA256(secret) /\ Parses(secret))
    BY <1>2 DEF Decoded, Parsed, Decrypts
  <2>2. artifact.key = HashSHA256(secret) =>
          artifact.with = secret /\ artifact.purpose = NoPurpose
    BY <1>a DEF WellMinted, HashSHA256
  <2>3. IntendedFor(p) /\ secret = artifact.with =>
          artifact.key = HashSHA256(secret) /\ Parses(secret)
    BY <1>2, <1>a, <1>b DEF WellMinted, IntendedFor, Parses
  <2> QED BY <1>a, <2>1, <2>2, <2>3, JudgementsTyped
<1> QED BY <1>1, <1>2

LEMMA ParsedRight ==
  ASSUME BrokerInv, NEW js, NEW r \in Parsed(secret, js)
  PROVE  /\ r \in {"claims", "invalid", "disallowed"}
         /\ r = "claims" => artifact.with = secret /\ artifact.purpose = NoPurpose
<1>1. (r \in Judgements /\ artifact.key = HashSHA256(secret)) \/ r = "invalid"
  BY DEF Parsed, Decrypts
<1>2. artifact.key = HashSHA256(secret) => artifact.with = secret /\ artifact.purpose = NoPurpose
  BY DEF BrokerInv, WellMinted, HashSHA256
<1> QED BY <1>1, <1>2, JudgementsTyped DEF BrokerInv

LEMMA BrokerStep == BrokerInv /\ [Next]_vars => BrokerInv'
<1> SUFFICES ASSUME BrokerInv, [Next]_vars
             PROVE  BrokerInv'
  OBVIOUS
<1>a. TypeOK /\ WellMinted /\ PurposesKeptApart /\ HonouredForItsLifetime
  BY DEF BrokerInv
<1>1. CASE Tick \/ RotateSecret \/ UNCHANGED vars
  <2>1. now' \in Instants /\ secret' \in Secrets /\ UNCHANGED <<artifact, outcome>>
    BY <1>1, <1>a DEF Tick, RotateSecret, vars, TypeOK
  <2>2. WellMinted'
    BY <1>a, <2>1 DEF WellMinted
  <2>3. PurposesKeptApart' /\ HonouredForItsLifetime'
    BY <1>a, <2>1 DEF PurposesKeptApart, HonouredForItsLifetime, IntendedFor
  <2> QED BY <1>a, <2>1, <2>2, <2>3 DEF BrokerInv, TypeOK
<1>2. CASE Mint
  <2>1. outcome' = Pending /\ UNCHANGED <<now, secret>>
    BY <1>2 DEF Mint
  <2>2. outcome' \in Outcomes /\ outcome'.result = "pending"
    BY <1>a, <2>1 DEF Pending, Outcomes, TypeOK
  <2>3. artifact' \in Artifacts /\ WellMinted'
    <3>1. PICK n \in Lifetimes :
            \/ \E type \in ExpTypes, allowed \in BOOLEAN :
                 \/ \E p \in Purposes : artifact' = Encoded(p, n, type, allowed)
                 \/ \E js \in Secrets \cup {NoSecret} : artifact' = Generated(js, n, type, allowed)
            \/ \E key \in {HashSHA256(secret)} \cup {DeriveKey(secret, p) : p \in Purposes},
                  kid \in {"v1", "none", "other"}, cty \in {"JSON", "JWT", "none", "other"},
                  form \in {"json", "jwt"} : artifact' = Foreign(key, kid, cty, form, n)
      BY <1>2 DEF Mint
    <3>2. CASE \E type \in ExpTypes, allowed \in BOOLEAN, p \in Purposes :
                 artifact' = Encoded(p, n, type, allowed)
      BY <1>a, <3>2, EncodedWell
    <3>3. CASE \E type \in ExpTypes, allowed \in BOOLEAN, js \in Secrets \cup {NoSecret} :
                 artifact' = Generated(js, n, type, allowed)
      BY <1>a, <3>3, GeneratedWell
    <3>4. CASE \E key \in {HashSHA256(secret)} \cup {DeriveKey(secret, p) : p \in Purposes},
                  kid \in {"v1", "none", "other"}, cty \in {"JSON", "JWT", "none", "other"},
                  form \in {"json", "jwt"} : artifact' = Foreign(key, kid, cty, form, n)
      <4>1. PICK key \in {HashSHA256(secret)} \cup {DeriveKey(secret, p) : p \in Purposes},
                 kid \in {"v1", "none", "other"}, cty \in {"JSON", "JWT", "none", "other"},
                 form \in {"json", "jwt"} : artifact' = Foreign(key, kid, cty, form, n)
        BY <3>4
      <4> QED BY <1>a, <4>1, ForeignWell
    <3> QED BY <3>1, <3>2, <3>3, <3>4
  <2> QED BY <1>a, <2>1, <2>2, <2>3, PendingHolds DEF BrokerInv, TypeOK
<1>3. ASSUME NEW p \in Purposes, DecodeOAuthJWE(p)
      PROVE  BrokerInv'
  <2>1. PICK r \in Decoded(p) :
          outcome' = [result |-> r, at |-> now, as |-> p, under |-> secret]
    BY <1>3 DEF DecodeOAuthJWE
  <2>2. UNCHANGED <<now, secret, artifact>>
    BY <1>3 DEF DecodeOAuthJWE
  <2>3. TypeOK' /\ WellMinted'
    BY <1>a, <2>1, <2>2, DecodedRight DEF TypeOK, WellMinted, Outcomes
  <2>4. PurposesKeptApart'
    BY <2>1, <2>2, DecodedRight DEF PurposesKeptApart
  <2>5. HonouredForItsLifetime'
    <3> SUFFICES ASSUME IntendedFor(p), secret = artifact.with, artifact.allowed,
                        artifact.exp.type = "unix"
                 PROVE  /\ r # "claims" => Past(now, artifact.born, artifact.ttl)
                        /\ NotBefore(now, artifact.born, artifact.ttl + 1) => r # "claims"
      BY <2>1, <2>2 DEF HonouredForItsLifetime, IntendedFor
    <3>1. r = "claims" <=> ~ Expired(artifact.exp)
      BY <1>a, DecodedRight, JudgementsTyped
    <3> QED BY <1>a, <3>1, ExpiryBounds
  <2> QED BY <2>3, <2>4, <2>5 DEF BrokerInv
<1>4. ASSUME NEW js \in Secrets \cup {NoSecret}, ParseAndDecryptJWE(js)
      PROVE  BrokerInv'
  <2>1. PICK r \in Parsed(secret, js) :
          outcome' = [result |-> r, at |-> now, as |-> NoPurpose, under |-> secret]
    BY <1>4 DEF ParseAndDecryptJWE
  <2>2. UNCHANGED <<now, secret, artifact>>
    BY <1>4 DEF ParseAndDecryptJWE
  <2>3. TypeOK' /\ WellMinted'
    BY <1>a, <2>1, <2>2, ParsedRight DEF TypeOK, WellMinted, Outcomes
  <2>4. PurposesKeptApart'
    BY <2>1, <2>2, ParsedRight DEF PurposesKeptApart
  <2>5. HonouredForItsLifetime'
    BY <2>1, PurposeAssumption DEF HonouredForItsLifetime
  <2> QED BY <2>3, <2>4, <2>5 DEF BrokerInv
<1> QED BY <1>1, <1>2, <1>3, <1>4 DEF Next

-----------------------------------------------------------------------------
\* The theorems.

\* Every variable has its type: no exp is minted in the past of the epoch.
THEOREM BrokerTypeCorrect == Spec => []TypeOK
<1>1. BrokerInv => TypeOK
  BY DEF BrokerInv
<1> QED BY <1>1, BrokerInit, BrokerStep, PTL DEF Spec

\* No artifact opens for a purpose it was not minted for, or under a secret it
\* was not minted with, for any labels and any headers.
THEOREM PurposesApart == Spec => []PurposesKeptApart
<1>1. BrokerInv => PurposesKeptApart
  BY DEF BrokerInv
<1> QED BY <1>1, BrokerInit, BrokerStep, PTL DEF Spec

\* Artifacts of either release are honoured for their lifetime, to the second,
\* for every lifetime and every resolution of the clock.
THEOREM LifetimeHonoured == Spec => []HonouredForItsLifetime
<1>1. BrokerInv => HonouredForItsLifetime
  BY DEF BrokerInv
<1> QED BY <1>1, BrokerInit, BrokerStep, PTL DEF Spec

=============================================================================
