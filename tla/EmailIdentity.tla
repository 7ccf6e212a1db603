---------------------------- MODULE EmailIdentity ----------------------------
(***************************************************************************)
(* From the JSON object of a verified token, or of a userinfo response, to *)
(* the identity a host authenticates (oauth/claims.go: claimsFromRawClaims;*)
(* broker/helpers.go: ClaimsFromUserInfo; oauth/email_identity.go:         *)
(* ResolveEmailIdentity; oauth/identity_policy.go: ValidateIdentityClaims; *)
(* oauth/forward.go: EmailFromNamespacedExtra).                            *)
(*                                                                         *)
(* The host projects the object, resolves the email once, applies the      *)
(* policy to a copy of the claims that carries it, and asks for the        *)
(* username hint it forwards to ClickHouse.  The resolution and the hint   *)
(* range over the map of extra claims, which Go visits in a random order:  *)
(* an iteration is an action that takes any claim not yet visited.         *)
(***************************************************************************)
EXTENDS Integers

CONSTANTS
  Emails, NoEmail,       \* addresses without surrounding blanks; the empty string
  Domains, NoDomain,     \* domains up to case and blanks; the empty string
  DomainOf,              \* what follows the @, NoDomain if the address has not one @
  EmailNames, NoName,    \* claim names that end in /email; the empty string
  VerifiedNames,         \* these and other names a token's extra claims may have
  VerifiedNameOf         \* a name of EmailNames with "_verified" appended

ASSUME AddressAssumption ==
  /\ NoEmail \notin Emails
  /\ NoDomain \notin Domains
  /\ DomainOf \in [Emails -> Domains \cup {NoDomain}]

ASSUME NameAssumption ==
  /\ EmailNames \cap VerifiedNames = {}
  /\ NoName \notin EmailNames \cup VerifiedNames
  /\ VerifiedNameOf \in [EmailNames -> VerifiedNames]

-----------------------------------------------------------------------------
\* A string is an address with or without blanks around it; without an address
\* it is blank or empty.
Texts == [email : Emails \cup {NoEmail}, padded : BOOLEAN]
Empty == [email |-> NoEmail, padded |-> FALSE]

\* Mutant: blanks are not trimmed.
NotTrimmed(t) == t

\* strings.TrimSpace
Trim(t) == [t EXCEPT !.padded = FALSE]

\* A claim's value, as encoding/json decodes it; "other" is a number, an
\* object, an array or null.
Values == [type : {"string"}, text : Texts] \cup [type : {"bool"}, yes : BOOLEAN]
            \cup [type : {"other"}]

Names == EmailNames \cup VerifiedNames

HostedDomains  == [domain : Domains \cup {NoDomain}, padded : BOOLEAN]
NoHostedDomain == [domain |-> NoDomain, padded |-> FALSE]
Extras         == UNION {[D -> Values] : D \in SUBSET Names}

Claims == [email : Texts, emailVerified : BOOLEAN, hd : HostedDomains, extra : Extras]

\* The JSON object.  An absent email counts as "other".  Its email_verified is
\* the boolean true, a string that spells true in any case, or neither.  An hd
\* that is no string is the empty one.
Documents == [email : Values, emailVerified : {"true", "spelled", "neither"},
              hd : HostedDomains, extra : Extras]

TextOf(v) == IF v.type = "string" THEN v.text ELSE Empty

\* The claims that a projection which takes these forms of email_verified for
\* true makes of an object.  No member in Names is standard: all are extra.
ClaimsOf(o, evidence) == [email |-> TextOf(o.email), emailVerified |-> o.emailVerified \in evidence,
                          hd |-> o.hd, extra |-> o.extra]

ClaimsFromRawClaims(o) == ClaimsOf(o, {"true", "spelled"})
ClaimsFromUserInfo(o)  == ClaimsOf(o, {"true"})

\* OAuthConfig's IdentityPolicy: an empty list is no restriction.
Policies == [requireVerified : BOOLEAN, emailDomains : SUBSET (Domains \cup {NoDomain}),
             hostedDomains : SUBSET (Domains \cup {NoDomain})]

VARIABLES
  document,   \* what the IdP said of the user
  claims,     \* its projection
  policy,     \* the host's policy
  pc,         \* where the host stands
  todo,       \* the extra claims the loop has not visited
  emailKey,   \* the loop's first match
  identity,   \* what ResolveEmailIdentity returned: an email and its evidence
  err,        \* its error, or that of ValidateIdentityClaims
  hint        \* what EmailFromNamespacedExtra returned

given == <<document, claims, policy>>
vars  == <<given, pc, todo, emailKey, identity, err, hint>>

Identities == [email : Texts, emailVerified : BOOLEAN]
NoIdentity == [email |-> Empty, emailVerified |-> FALSE]

Extra(n) == claims.extra[n]

Init ==
  /\ document \in Documents
  /\ claims \in {ClaimsFromRawClaims(document), ClaimsFromUserInfo(document)}
  /\ policy \in Policies
  /\ pc = "resolve"
  /\ todo = {}
  /\ emailKey = NoName
  /\ identity = NoIdentity
  /\ err = "none"
  /\ hint = Empty

-----------------------------------------------------------------------------
\* ResolveEmailIdentity.

\* It returns; the host goes on to the policy, or to forwarding.
Resolves(email, verified) ==
  /\ identity' = [email |-> email, emailVerified |-> verified]
  /\ pc' = "validate"
  /\ UNCHANGED err

Refuses(e) ==
  /\ err' = e
  /\ pc' = "forward"
  /\ UNCHANGED identity

\* A nonblank standard email takes precedence.
ResolveStandard ==
  /\ pc = "resolve"
  /\ Trim(claims.email) # Empty
  /\ Resolves(Trim(claims.email), claims.emailVerified)
  /\ UNCHANGED <<given, todo, emailKey, hint>>

RangeOverExtra ==
  /\ pc = "resolve"
  /\ Trim(claims.email) = Empty
  /\ pc' = "visit"
  /\ todo' = DOMAIN claims.extra
  /\ UNCHANGED <<given, emailKey, identity, err, hint>>

\* A claim is a candidate if its name ends in /email and its value is a string
\* that is not blank.
Usable(n) == n \in EmailNames /\ Extra(n).type = "string" /\ Trim(Extra(n).text) # Empty

\* Mutant: a second match is only ambiguous if its address differs.
AmbiguousIfOther(n) == emailKey # NoName /\ Trim(Extra(n).text) # Trim(Extra(emailKey).text)

\* The second match ends the loop, whatever is left of it.
Ambiguous(n) == emailKey # NoName

Visit(n) ==
  /\ pc = "visit"
  /\ n \in todo
  /\ todo' = todo \ {n}
  /\ \/ /\ Usable(n) /\ Ambiguous(n)
        /\ Refuses("ambiguous")
        /\ UNCHANGED emailKey
     \/ /\ Usable(n) /\ ~ Ambiguous(n)
        /\ emailKey' = n
        /\ UNCHANGED <<pc, identity, err>>
     \/ /\ ~ Usable(n)
        /\ UNCHANGED <<pc, emailKey, identity, err>>
  /\ UNCHANGED <<given, hint>>

\* Mutant: the standard email_verified vouches for any email.
EvidenceOfStandard(n) == claims.emailVerified

\* The boolean true at the very name of the match, with "_verified" appended.
Evidence(n) ==
  /\ VerifiedNameOf[n] \in DOMAIN claims.extra
  /\ Extra(VerifiedNameOf[n]).type = "bool"
  /\ Extra(VerifiedNameOf[n]).yes

LoopEnds ==
  /\ pc = "visit"
  /\ todo = {}
  /\ IF emailKey = NoName THEN Refuses("missing")
                          ELSE Resolves(Trim(Extra(emailKey).text), Evidence(emailKey))
  /\ UNCHANGED <<given, todo, emailKey, hint>>

-----------------------------------------------------------------------------
\* ValidateIdentityClaims.

\* ContainsDomain, after EmailDomain, which trims: both compare up to case and
\* blanks, so a domain stands for all its spellings.
EmailDomain(email) == IF email.email \in Emails THEN DomainOf[email.email] ELSE NoDomain

Unverified(c)    == policy.requireVerified /\ c.email # Empty /\ ~ c.emailVerified
EmailMissing(c)  == policy.emailDomains # {} /\ c.email = Empty
ForeignDomain(c) == /\ policy.emailDomains # {}
                    /\ EmailDomain(c.email) \notin policy.emailDomains \ {NoDomain}
ForeignHost(c)   == /\ policy.hostedDomains # {}
                    /\ c.hd = NoHostedDomain \/ c.hd.domain \notin policy.hostedDomains

ValidateIdentityClaims(c) ==
  CASE Unverified(c)                        -> "notVerified"
    [] ~ Unverified(c) /\ EmailMissing(c)   -> "missing"
    [] /\ ~ Unverified(c)
       /\ ~ EmailMissing(c)
       /\ ForeignDomain(c) \/ ForeignHost(c) -> "unauthorizedDomain"
    [] OTHER                                -> "none"

\* The host's shallow copy of the claims, with the resolved email in it, as the
\* comment on ResolveEmailIdentity prescribes.
ResolvedClaims == [claims EXCEPT !.email = identity.email,
                                 !.emailVerified = identity.emailVerified]

Validate ==
  /\ pc = "validate"
  /\ err' = ValidateIdentityClaims(ResolvedClaims)
  /\ pc' = "forward"
  /\ UNCHANGED <<given, todo, emailKey, identity, hint>>

-----------------------------------------------------------------------------
\* EmailFromNamespacedExtra.

RangeForHint ==
  /\ pc = "forward"
  /\ pc' = "look"
  /\ todo' = DOMAIN claims.extra
  /\ UNCHANGED <<given, emailKey, identity, err, hint>>

\* Mutant: a blank string is a match.
HintableIfString(n) == n \in EmailNames /\ Extra(n).type = "string"

Hintable(n) == Usable(n)

\* The first match is returned.
Look(n) ==
  /\ pc = "look"
  /\ n \in todo
  /\ todo' = todo \ {n}
  /\ IF Hintable(n) THEN hint' = Trim(Extra(n).text) /\ pc' = "done"
                    ELSE UNCHANGED <<hint, pc>>
  /\ UNCHANGED <<given, emailKey, identity, err>>

NoHint ==
  /\ pc = "look"
  /\ todo = {}
  /\ pc' = "done"
  /\ UNCHANGED <<given, todo, emailKey, identity, err, hint>>

Next ==
  \/ ResolveStandard
  \/ RangeOverExtra
  \/ \E n \in Names : Visit(n) \/ Look(n)
  \/ LoopEnds
  \/ Validate
  \/ RangeForHint
  \/ NoHint

Spec == Init /\ [][Next]_vars

-----------------------------------------------------------------------------
\* Properties.

\* Every variable has its type; an email that is returned has no blanks.
TypeOK ==
  /\ document \in Documents
  /\ claims \in Claims
  /\ policy \in Policies
  /\ pc \in {"resolve", "visit", "validate", "forward", "look", "done"}
  /\ todo \subseteq DOMAIN claims.extra
  /\ emailKey \in EmailNames \cup {NoName}
  /\ identity \in Identities /\ ~ identity.email.padded
  /\ err \in {"none", "ambiguous", "missing", "notVerified", "unauthorizedDomain"}
  /\ hint \in Texts /\ ~ hint.padded

\* The extra members that name an address, and whether a claim is vouched for.
Matches == {n \in EmailNames \cap DOMAIN claims.extra :
              Extra(n).type = "string" /\ Extra(n).text.email # NoEmail}

VouchedFor(n) == /\ VerifiedNameOf[n] \in DOMAIN claims.extra
                 /\ Extra(VerifiedNameOf[n]) = [type |-> "bool", yes |-> TRUE]

\* The identity depends on the claims alone, never on the order in which the
\* extra claims are visited: with a blank standard email it is that of the one
\* match, there is no match when it is missing, and two matches are ambiguous,
\* even if they agree.
IdentityIgnoresOrder ==
  /\ pc = "validate" => \/ /\ Trim(claims.email) # Empty
                           /\ identity = [email |-> Trim(claims.email),
                                          emailVerified |-> claims.emailVerified]
                        \/ \E n \in Matches :
                             /\ Trim(claims.email) = Empty
                             /\ Matches = {n}
                             /\ identity = [email |-> Trim(Extra(n).text),
                                            emailVerified |-> VouchedFor(n)]
  /\ pc = "forward" /\ identity = NoIdentity =>
       /\ Trim(claims.email) = Empty
       /\ err = IF Matches = {} THEN "missing" ELSE "ambiguous"
       /\ \A n \in Matches : Matches # {n}

\* A host that has applied its policy has applied it to the email it goes by:
\* when it insists on verified emails, the member of the IdP's object that
\* supplied the email has its own evidence in the object, and neither the
\* standard email_verified nor another namespace stands in; and the domain
\* allowed is that of this email.
AcceptedEmailIsVouchedFor ==
  pc = "forward" /\ err = "none" =>
    /\ policy.requireVerified =>
         \/ /\ identity.email = Trim(TextOf(document.email))
            /\ document.emailVerified \in {"true", "spelled"}
         \/ \E n \in Matches : identity.email = Trim(Extra(n).text) /\ VouchedFor(n)
    /\ policy.emailDomains # {} =>
         identity.email.email \in Emails /\ DomainOf[identity.email.email] \in policy.emailDomains

\* The username hint is the identity: although the loop of the hint takes the
\* first match it meets, it returns the email that was resolved whenever that
\* came from the extra claims, and a hint where the resolution found none.
HintAgreesWithIdentity ==
  pc = "done" /\ Trim(claims.email) = Empty =>
    /\ identity # NoIdentity => hint = identity.email
    /\ identity = NoIdentity /\ err = "missing" => hint = Empty
    /\ err = "ambiguous" => hint # Empty

=============================================================================
