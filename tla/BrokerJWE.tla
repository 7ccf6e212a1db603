------------------------------ MODULE BrokerJWE ------------------------------
(***************************************************************************)
(* The encrypted artifacts of the OAuth broker and their legacy            *)
(* predecessors (broker/helpers.go: EncodeOAuthJWE, DecodeOAuthJWE;        *)
(* jwe_auth/jwe_auth.go: GenerateJWEToken, ParseAndDecryptJWE).            *)
(*                                                                         *)
(* The broker keeps no state of its own: a pending authorization or an     *)
(* authorization code is an artifact that leaves it and comes back, to any *)
(* replica, at any endpoint and at any time.  Encryption is symbolic: an   *)
(* artifact opens under the very key it was sealed with, and a key is what *)
(* it was derived from.  Opening is a function of the artifact, the time   *)
(* and the secret, so one artifact at a time is enough.                    *)
(***************************************************************************)
EXTENDS Integers

CONSTANTS
  Secrets,      \* the shared secrets replicas are configured with over time
  NoSecret,     \* an empty secret
  Purposes,     \* the HKDF info labels
  NoPurpose,    \* a legacy artifact is for no purpose in particular
  Lifetimes,    \* the TTLs, in seconds, that artifacts are minted with
  Seconds,      \* the Unix times the clock can show (bounds the model)
  Fractions     \* the fractions of a second it can show (bounds the model)

ASSUME SecretAssumption  == NoSecret \notin Secrets
ASSUME PurposeAssumption == NoPurpose \notin Purposes
ASSUME TimeAssumption    ==
  /\ Lifetimes \subseteq Nat
  /\ Seconds \subseteq Nat /\ Seconds # {}
  /\ Fractions \subseteq Nat /\ Fractions # {}

VARIABLES
  now,        \* time.Now()
  secret,     \* the secret the replicas share
  artifact,   \* the artifact in flight
  outcome     \* what the last attempt to open it came to

vars == <<now, secret, artifact, outcome>>

-----------------------------------------------------------------------------
\* Time: seconds and fractions.  time.Time.Unix drops the fraction.
Instants == [s : Seconds, f : Fractions]

\* Instant t is later than the instant m plus n seconds, or not before it.
Past(t, m, n)      == t.s > m.s + n \/ (t.s = m.s + n /\ t.f > m.f)
NotBefore(t, m, n) == t.s > m.s + n \/ (t.s = m.s + n /\ t.f >= m.f)

\* Mutant: the label does not enter the derivation.
DerivedFromSecret(sec, info) == [alg |-> "hkdf", secret |-> sec, info |-> NoPurpose]

\* Keys: HKDF(secret, info) and SHA256(secret).
DeriveKey(sec, info) == [alg |-> "hkdf", secret |-> sec, info |-> info]
HashSHA256(sec)      == [alg |-> "sha256", secret |-> sec, info |-> NoPurpose]

KeyTerms == [alg : {"hkdf", "sha256"}, secret : Secrets \cup {NoSecret},
             info : Purposes \cup {NoPurpose}]

\* The exp claim: absent, a number in or out of the int64 range, or no number.
ExpTypes == {"none", "unix", "beyond", "notNumber"}
Exps     == [type : ExpTypes, unix : Nat]

\* An artifact.  Its protected header: kid and cty.  Its key.  Its plaintext:
\* JSON, or a JWT with the key of its HS256 signature.  Its claims: exp, and
\* whether their names are all on the whitelist.  And, which is not in it, by
\* whom it was minted ("encode" is EncodeOAuthJWE, "generate" GenerateJWEToken),
\* when, for how long, for what, and with which secret.
Artifacts ==
  [kid : {"v1", "none", "other"}, cty : {"JSON", "JWT", "none", "other"}, key : KeyTerms,
   form : {"json", "jwt"}, signer : KeyTerms, exp : Exps, allowed : BOOLEAN,
   by : {"encode", "generate", "elsewhere"}, born : Instants, ttl : Lifetimes,
   purpose : Purposes \cup {NoPurpose}, with : Secrets]

Outcomes == [result : {"pending", "claims", "invalid", "disallowed"}, at : Instants,
             as : Purposes \cup {NoPurpose}, under : Secrets]

Pending == [result |-> "pending", at |-> now, as |-> NoPurpose, under |-> secret]

\* The exp that the host stamps for a lifetime of n seconds before it has the
\* claims encrypted, or leaves out, or gets wrong.
ExpOf(type, n) == [type |-> type, unix |-> now.s + n]

-----------------------------------------------------------------------------
\* Minting.

\* EncodeOAuthJWE, for one purpose, with the replicas' secret.
Encoded(p, n, type, allowed) ==
  [kid |-> "v1", cty |-> "JSON", key |-> DeriveKey(secret, p), form |-> "json",
   signer |-> HashSHA256(NoSecret), exp |-> ExpOf(type, n), allowed |-> allowed,
   by |-> "encode", born |-> now, ttl |-> n, purpose |-> p, with |-> secret]

\* GenerateJWEToken, signed first unless jwtSecret is empty.
Generated(jwtSecret, n, type, allowed) ==
  [kid |-> "none", cty |-> IF jwtSecret = NoSecret THEN "JSON" ELSE "JWT",
   key |-> HashSHA256(secret), form |-> IF jwtSecret = NoSecret THEN "json" ELSE "jwt",
   signer |-> HashSHA256(jwtSecret), exp |-> ExpOf(type, n), allowed |-> allowed,
   by |-> "generate", born |-> now, ttl |-> n, purpose |-> NoPurpose, with |-> secret]

\* Another producer that knows the secret may set the header as it likes.
Foreign(key, kid, cty, form, n) ==
  [kid |-> kid, cty |-> cty, key |-> key, form |-> form, signer |-> HashSHA256(secret),
   exp |-> ExpOf("unix", n), allowed |-> TRUE, by |-> "elsewhere", born |-> now, ttl |-> n,
   purpose |-> key.info, with |-> secret]

Init ==
  /\ now \in Instants
  /\ secret \in Secrets
  /\ \E p \in Purposes, n \in Lifetimes : artifact = Encoded(p, n, "unix", TRUE)
  /\ outcome = Pending

Mint ==
  /\ \E n \in Lifetimes :
       \/ \E type \in ExpTypes, allowed \in BOOLEAN :
            \/ \E p \in Purposes : artifact' = Encoded(p, n, type, allowed)
            \/ \E js \in Secrets \cup {NoSecret} : artifact' = Generated(js, n, type, allowed)
       \/ \E key \in {HashSHA256(secret)} \cup {DeriveKey(secret, p) : p \in Purposes},
             kid \in {"v1", "none", "other"}, cty \in {"JSON", "JWT", "none", "other"},
             form \in {"json", "jwt"} : artifact' = Foreign(key, kid, cty, form, n)
  /\ outcome' = Pending
  /\ UNCHANGED <<now, secret>>

-----------------------------------------------------------------------------
\* Opening.

Decrypts(key) == artifact.key = key

\* The plaintext yields claims.  A content type of JWT, which is also the
\* default, asks for a signature if there is a secret to check it with; one of
\* JSON never does; any other takes either.
Parses(jwtSecret) ==
  LET IsJSON   == artifact.form = "json"
      IsSigned == artifact.form = "jwt" /\ artifact.signer = HashSHA256(jwtSecret)
  IN  CASE jwtSecret # NoSecret /\ artifact.cty \in {"JWT", "none"} -> IsSigned
        [] jwtSecret # NoSecret /\ artifact.cty = "other"           -> IsSigned \/ IsJSON
        [] jwtSecret = NoSecret \/ artifact.cty = "JSON"            -> IsJSON

\* Mutant: a token is past its exp from that very second on.
ExpiredAtExp(exp) == exp.type = "unix" /\ now.s >= exp.unix

\* validateExpiration: seconds are compared, and exp's own second is in time.
Expired(exp) == exp.type = "unix" /\ now.s > exp.unix

\* What becomes of the claims: whitelist first, then exp.  An exp beyond the
\* int64 range is converted as the processor likes.
Judgements ==
  CASE ~ artifact.allowed                                 -> {"disallowed"}
    [] artifact.allowed /\ artifact.exp.type = "beyond"    -> {"claims", "invalid"}
    [] artifact.allowed /\ artifact.exp.type = "notNumber" -> {"invalid"}
    [] artifact.allowed /\ artifact.exp.type \in {"none", "unix"} ->
         IF Expired(artifact.exp) THEN {"invalid"} ELSE {"claims"}

\* Mutant: the decryption's own error is passed on.
ParsedUnmasked(jweSecret, jwtSecret) ==
  IF Decrypts(HashSHA256(jweSecret)) /\ Parses(jwtSecret) THEN Judgements ELSE {"jose"}

\* ParseAndDecryptJWE: what does not open or parse is an invalid token.
Parsed(jweSecret, jwtSecret) ==
  IF Decrypts(HashSHA256(jweSecret)) /\ Parses(jwtSecret) THEN Judgements ELSE {"invalid"}

\* DecodeOAuthJWE: the kid v1 selects the derived key, any other the legacy
\* path, which signs with the encryption secret.
Decoded(p) ==
  IF artifact.kid = "v1"
  THEN IF Decrypts(DeriveKey(secret, p)) /\ artifact.form = "json" THEN Judgements ELSE {"invalid"}
  ELSE Parsed(secret, secret)

DecodeOAuthJWE(p) ==
  /\ \E r \in Decoded(p) : outcome' = [result |-> r, at |-> now, as |-> p, under |-> secret]
  /\ UNCHANGED <<now, secret, artifact>>

ParseAndDecryptJWE(jwtSecret) ==
  /\ \E r \in Parsed(secret, jwtSecret) :
       outcome' = [result |-> r, at |-> now, as |-> NoPurpose, under |-> secret]
  /\ UNCHANGED <<now, secret, artifact>>

\* Time passes; the replicas are restarted with another secret.
Tick ==
  /\ \E t \in Instants : Past(t, now, 0) /\ now' = t
  /\ UNCHANGED <<secret, artifact, outcome>>

RotateSecret ==
  /\ \E s \in Secrets \ {secret} : secret' = s
  /\ UNCHANGED <<now, artifact, outcome>>

Next ==
  \/ Tick
  \/ RotateSecret
  \/ Mint
  \/ \E p \in Purposes : DecodeOAuthJWE(p)
  \/ \E js \in Secrets \cup {NoSecret} : ParseAndDecryptJWE(js)

Spec == Init /\ [][Next]_vars

-----------------------------------------------------------------------------
\* Properties.

\* Every variable has its type.
TypeOK ==
  /\ now \in Instants
  /\ secret \in Secrets
  /\ artifact \in Artifacts
  /\ outcome \in Outcomes

\* An artifact that opens was minted with the secret it is opened under, and
\* one that was derived for a purpose opens for this purpose alone, whatever
\* headers it carries and by whichever path it is opened: a pending
\* authorization is never taken for a code.
PurposesKeptApart ==
  outcome.result = "claims" =>
    /\ artifact.with = outcome.under
    /\ artifact.purpose \in {outcome.as, NoPurpose}

\* The minter intends the artifact for a reader with this purpose: the legacy
\* form, signed with the same secret or not at all, is for all of them.
IntendedFor(p) ==
  \/ artifact.by = "encode" /\ artifact.purpose = p
  \/ artifact.by = "generate" /\ artifact.signer.secret \in {artifact.with, NoSecret}

\* Every replica that has the secret, of either release, honours an artifact
\* for the whole of its lifetime, and none does a second after its end:
\* neither the fraction that Unix drops when the artifact is minted, nor the
\* one it drops when it is opened, can cut the lifetime short.
HonouredForItsLifetime ==
  /\ outcome.result # "pending"
  /\ outcome.as \in Purposes /\ IntendedFor(outcome.as)
  /\ outcome.under = artifact.with
  /\ artifact.allowed /\ artifact.exp.type = "unix"
  => /\ outcome.result # "claims" => Past(outcome.at, artifact.born, artifact.ttl)
     /\ NotBefore(outcome.at, artifact.born, artifact.ttl + 1) => outcome.result # "claims"

=============================================================================
