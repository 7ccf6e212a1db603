------------------------- MODULE EmailIdentityProofs -------------------------
(***************************************************************************)
(* Proofs about EmailIdentity, for every set of names, addresses, domains  *)
(* and claims.                                                             *)
(***************************************************************************)
EXTENDS EmailIdentity, TLAPS

-----------------------------------------------------------------------------
\* The strengthening.

\* While a loop runs, it has met at most the one match it remembers.
LoopInv ==
  /\ pc = "visit" =>
       /\ Trim(claims.email) = Empty
       /\ identity = NoIdentity
       /\ emailKey = NoName => Matches \subseteq todo
       /\ emailKey # NoName => /\ emailKey \in Matches
                               /\ emailKey \notin todo
                               /\ Matches \subseteq todo \cup {emailKey}
  /\ pc = "resolve" => emailKey = NoName /\ identity = NoIdentity
  /\ pc = "look" => Matches \subseteq todo
  /\ pc # "done" => hint = Empty
  /\ pc \in {"resolve", "visit", "validate"} => err = "none"

\* What was resolved, from then on.
Standard == /\ Trim(claims.email) # Empty
            /\ identity = [email |-> Trim(claims.email), emailVerified |-> claims.emailVerified]
FromMatch(n) == /\ Trim(claims.email) = Empty
                /\ Matches = {n}
                /\ identity = [email |-> Trim(Extra(n).text), emailVerified |-> VouchedFor(n)]
Refused == /\ identity = NoIdentity
           /\ Trim(claims.email) = Empty
           /\ err = IF Matches = {} THEN "missing" ELSE "ambiguous"
           /\ \A n \in Matches : Matches # {n}

ResolvedInv ==
  pc \in {"validate", "forward", "look", "done"} =>
    \/ /\ Standard \/ \E n \in Matches : FromMatch(n)
       /\ identity # NoIdentity
       /\ err # "ambiguous"
    \/ pc # "validate" /\ Refused

HintInv ==
  pc = "done" => \/ hint = Empty /\ Matches = {}
                 \/ \E n \in Matches : hint = Trim(Extra(n).text) /\ hint # Empty

\* What an accepted identity owes to the claims.
PolicyBound ==
  pc = "forward" /\ err = "none" =>
    /\ policy.requireVerified =>
         \/ identity.email = Trim(claims.email) /\ claims.emailVerified
         \/ \E n \in Matches : identity.email = Trim(Extra(n).text) /\ VouchedFor(n)
    /\ policy.emailDomains # {} =>
         identity.email.email \in Emails /\ DomainOf[identity.email.email] \in policy.emailDomains

\* And the claims to the document.
ClaimsProjected ==
  claims \in {ClaimsFromRawClaims(document), ClaimsFromUserInfo(document)}

IdentityInv == TypeOK /\ LoopInv /\ ResolvedInv /\ HintInv /\ PolicyBound /\ ClaimsProjected

-----------------------------------------------------------------------------
\* A string is trimmed to nothing exactly when it names no address.
LEMMA Trimmed ==
  ASSUME NEW t \in Texts
  PROVE  /\ Trim(t) \in Texts /\ ~ Trim(t).padded
         /\ Trim(t).email = t.email
         /\ Trim(t) = Empty <=> t.email = NoEmail
<1>1. Trim(t).email = t.email
  BY DEF Trim, Texts
<1>2. ~ Trim(t).padded
  BY DEF Trim, Texts
<1>3. Trim(t) \in Texts
  BY DEF Trim, Texts
<1>4. Empty \in Texts /\ Empty.email = NoEmail /\ ~ Empty.padded
  BY DEF Empty, Texts
<1>5. t.email = NoEmail => Trim(t) = Empty
  BY <1>1, <1>2, <1>3, <1>4 DEF Texts
<1> QED BY <1>1, <1>2, <1>3, <1>4, <1>5

\* The loops' test for a match, and for its evidence, mean what they should.
LEMMA MatchesAreUsable ==
  ASSUME TypeOK, NEW n \in DOMAIN claims.extra
  PROVE  /\ Usable(n) <=> n \in Matches
         /\ n \in Names
         /\ n \in Matches => /\ Extra(n).text \in Texts
                             /\ Trim(Extra(n).text) \in Texts
                             /\ ~ Trim(Extra(n).text).padded
                             /\ Trim(Extra(n).text) # Empty
<1>1. PICK D \in SUBSET Names : claims.extra \in [D -> Values]
  BY DEF TypeOK, Claims, Extras
<1>2. n \in Names /\ Extra(n) \in Values
  BY <1>1 DEF Extra
<1>3. Extra(n).type = "string" => Extra(n).text \in Texts
  BY <1>2 DEF Values
<1> QED BY <1>2, <1>3, Trimmed DEF Usable, Matches

LEMMA EvidenceVouches ==
  ASSUME TypeOK, NEW n \in EmailNames
  PROVE  Evidence(n) = VouchedFor(n)
<1>1. PICK D \in SUBSET Names : claims.extra \in [D -> Values]
  BY DEF TypeOK, Claims, Extras
<1>2. ASSUME NEW m \in DOMAIN claims.extra
      PROVE  (Extra(m).type = "bool" /\ Extra(m).yes) <=> Extra(m) = [type |-> "bool", yes |-> TRUE]
  <2>1. Extra(m) \in Values
    BY <1>1 DEF Extra
  <2>2. CASE Extra(m) \in [type : {"bool"}, yes : BOOLEAN]
    BY <2>2
  <2>3. CASE Extra(m) \notin [type : {"bool"}, yes : BOOLEAN]
    BY <2>1, <2>3 DEF Values
  <2> QED BY <2>2, <2>3
<1> QED BY <1>2 DEF Evidence, VouchedFor

-----------------------------------------------------------------------------
\* Either projection has the type of the claims.
LEMMA ProjectionTyped ==
  ASSUME NEW o \in Documents
  PROVE  ClaimsFromRawClaims(o) \in Claims /\ ClaimsFromUserInfo(o) \in Claims
<1>1. TextOf(o.email) \in Texts
  BY DEF TextOf, Documents, Values, Empty, Texts
<1> QED BY <1>1 DEF ClaimsFromRawClaims, ClaimsFromUserInfo, ClaimsOf, Documents, Claims

LEMMA IdentityInit == Init => IdentityInv
<1> SUFFICES ASSUME Init PROVE IdentityInv
  OBVIOUS
<1>1. document \in Documents /\ claims \in Claims /\ ClaimsProjected
  BY ProjectionTyped DEF Init, ClaimsProjected
<1> QED BY <1>1 DEF Init, IdentityInv, TypeOK, LoopInv, ResolvedInv, HintInv, PolicyBound,
                    Identities, NoIdentity, Empty, Texts

\* The document and its projection stay as they are.
LEMMA ProjectionKept ==
  ASSUME ClaimsProjected, UNCHANGED given
  PROVE  ClaimsProjected'
BY DEF ClaimsProjected, given, ClaimsFromRawClaims, ClaimsFromUserInfo

\* Matches and evidence are of the claims, which never change.
LEMMA SameClaims ==
  ASSUME UNCHANGED claims
  PROVE  /\ Matches' = Matches
         /\ \A n : Extra(n)' = Extra(n) /\ VouchedFor(n)' = VouchedFor(n)
BY DEF Matches, Extra, VouchedFor

LEMMA ResolvingKeepsInv ==
  ASSUME IdentityInv, ResolveStandard \/ RangeOverExtra \/ LoopEnds \/ \E n \in Names : Visit(n)
  PROVE  IdentityInv'
<1>a. TypeOK /\ LoopInv
  BY DEF IdentityInv
<1>b. UNCHANGED <<document, claims, policy, hint>> /\ ClaimsProjected' /\ pc' # "done" /\ pc' # "look" /\ pc' # "resolve"
  BY ProjectionKept DEF IdentityInv, given, ResolveStandard, RangeOverExtra, LoopEnds, Visit,
                        Resolves, Refuses
<1>c. Matches' = Matches /\ \A n : Extra(n)' = Extra(n) /\ VouchedFor(n)' = VouchedFor(n)
  BY <1>b, SameClaims
<1>d. claims.email \in Texts /\ claims.emailVerified \in BOOLEAN
  BY <1>a DEF TypeOK, Claims
<1>1. CASE ResolveStandard
  <2>1. Standard' /\ identity' # NoIdentity /\ err' = "none" /\ pc' = "validate"
    BY <1>1, <1>a, <1>b, <1>d, Trimmed
       DEF ResolveStandard, Resolves, Standard, NoIdentity, LoopInv
  <2>2. TypeOK'
    BY <1>1, <1>a, <1>b, <1>d, Trimmed DEF ResolveStandard, Resolves, TypeOK, Identities
  <2>3. LoopInv'
    BY <1>1, <1>a, <1>b, <2>1 DEF ResolveStandard, LoopInv
  <2> QED BY <1>b, <2>1, <2>2, <2>3
          DEF IdentityInv, ResolvedInv, HintInv, PolicyBound
<1>2. CASE RangeOverExtra
  <2>1. TypeOK'
    BY <1>2, <1>a, <1>b DEF RangeOverExtra, TypeOK
  <2>2. LoopInv'
    BY <1>2, <1>a, <1>b, <1>c DEF RangeOverExtra, LoopInv, Matches
  <2> QED BY <1>2, <1>b, <2>1, <2>2
          DEF RangeOverExtra, IdentityInv, ResolvedInv, HintInv, PolicyBound
<1>3. ASSUME NEW n \in Names, Visit(n)
      PROVE  IdentityInv'
  <2>1. /\ pc = "visit" /\ n \in todo /\ todo' = todo \ {n} /\ n \in DOMAIN claims.extra
        /\ Usable(n) <=> n \in Matches
        /\ identity = NoIdentity /\ identity' = NoIdentity
    BY <1>3, <1>a, MatchesAreUsable DEF Visit, Refuses, TypeOK, LoopInv
  <2>2. CASE Usable(n) /\ Ambiguous(n)
    <3>1. /\ pc' = "forward" /\ err' = "ambiguous" /\ UNCHANGED emailKey
      BY <1>3, <2>2 DEF Visit, Refuses
    <3>2. emailKey \in Matches /\ n \in Matches /\ emailKey # n
      BY <1>a, <2>1, <2>2 DEF LoopInv, Ambiguous
    <3>3. Refused'
      BY <1>a, <1>b, <1>c, <2>1, <3>1, <3>2 DEF Refused, LoopInv
    <3>4. TypeOK'
      BY <1>a, <1>b, <2>1, <3>1 DEF TypeOK
    <3>5. LoopInv'
      BY <1>a, <1>b, <2>1, <3>1 DEF LoopInv
    <3> QED BY <1>b, <3>1, <3>3, <3>4, <3>5
            DEF IdentityInv, ResolvedInv, HintInv, PolicyBound
  <2>3. CASE Usable(n) /\ ~ Ambiguous(n)
    <3>1. emailKey' = n /\ UNCHANGED <<pc, identity, err>> /\ emailKey = NoName
      BY <1>3, <2>3 DEF Visit, Ambiguous
    <3>2. n \in Matches /\ n \in EmailNames /\ n # NoName
      BY <2>1, <2>3, NameAssumption DEF Matches
    <3>3. TypeOK'
      BY <1>a, <1>b, <2>1, <3>1, <3>2 DEF TypeOK
    <3>4. LoopInv'
      BY <1>a, <1>b, <1>c, <2>1, <3>1, <3>2 DEF LoopInv
    <3> QED BY <1>b, <2>1, <3>1, <3>3, <3>4
            DEF IdentityInv, ResolvedInv, HintInv, PolicyBound
  <2>4. CASE ~ Usable(n)
    <3>1. UNCHANGED <<pc, emailKey, identity, err>>
      BY <1>3, <2>4 DEF Visit
    <3>2. TypeOK'
      BY <1>a, <1>b, <2>1, <3>1 DEF TypeOK
    <3>3. LoopInv'
      BY <1>a, <1>b, <1>c, <2>1, <2>4, <3>1 DEF LoopInv
    <3> QED BY <1>b, <2>1, <3>1, <3>2, <3>3
            DEF IdentityInv, ResolvedInv, HintInv, PolicyBound
  <2> QED BY <2>2, <2>3, <2>4
<1>4. CASE LoopEnds
  <2>1. pc = "visit" /\ todo = {} /\ UNCHANGED <<todo, emailKey>>
    BY <1>4 DEF LoopEnds
  <2>2. CASE emailKey = NoName
    <3>1. pc' = "forward" /\ err' = "missing" /\ UNCHANGED identity /\ Matches = {}
      BY <1>4, <1>a, <2>1, <2>2 DEF LoopEnds, Refuses, LoopInv
    <3>2. Refused'
      BY <1>a, <1>b, <1>c, <2>1, <3>1 DEF Refused, LoopInv
    <3>3. TypeOK' /\ LoopInv'
      BY <1>a, <1>b, <2>1, <3>1 DEF TypeOK, LoopInv
    <3> QED BY <1>b, <3>1, <3>2, <3>3 DEF IdentityInv, ResolvedInv, HintInv, PolicyBound
  <2>3. CASE emailKey # NoName
    <3>1. /\ pc' = "validate" /\ UNCHANGED err
          /\ identity' = [email |-> Trim(Extra(emailKey).text), emailVerified |-> Evidence(emailKey)]
      BY <1>4, <2>3 DEF LoopEnds, Resolves
    <3>2. emailKey \in Matches /\ Matches = {emailKey}
      BY <1>a, <2>1, <2>3 DEF LoopInv
    <3>3. /\ Evidence(emailKey) = VouchedFor(emailKey)
          /\ Trim(Extra(emailKey).text) \in Texts /\ ~ Trim(Extra(emailKey).text).padded
          /\ Trim(Extra(emailKey).text) # Empty
      BY <1>a, <3>2, EvidenceVouches, MatchesAreUsable DEF Matches
    <3>4. FromMatch(emailKey)'
      BY <1>a, <1>b, <1>c, <2>1, <3>1, <3>2, <3>3 DEF FromMatch, LoopInv
    <3>5. identity' # NoIdentity /\ identity' \in Identities /\ ~ identity'.email.padded
      BY <3>1, <3>3 DEF NoIdentity, Identities, VouchedFor
    <3>6. TypeOK' /\ LoopInv' /\ err' = "none"
      BY <1>a, <1>b, <2>1, <3>1, <3>5 DEF TypeOK, LoopInv
    <3>7. \E m \in Matches' : FromMatch(m)'
      BY <1>c, <2>1, <3>2, <3>4
    <3> QED BY <1>b, <3>1, <3>5, <3>6, <3>7
            DEF IdentityInv, ResolvedInv, HintInv, PolicyBound
  <2> QED BY <2>2, <2>3
<1> QED BY <1>1, <1>2, <1>3, <1>4

\* What was resolved, and whether the resolution was refused, outlives the loop.
LEMMA OutcomeKept ==
  ASSUME UNCHANGED <<claims, identity>>
  PROVE  /\ Standard \/ (\E n \in Matches : FromMatch(n))
              => (Standard \/ \E n \in Matches : FromMatch(n))'
         /\ Refused /\ UNCHANGED err => Refused'
<1>1. Matches' = Matches /\ \A n : Extra(n)' = Extra(n) /\ VouchedFor(n)' = VouchedFor(n)
  BY SameClaims
<1>2. ASSUME NEW n \in Matches, FromMatch(n)
      PROVE  FromMatch(n)'
  BY <1>1, <1>2 DEF FromMatch
<1> QED BY <1>1, <1>2 DEF Standard, Refused

\* ValidateIdentityClaims, which looks at the copy of the claims.
LEMMA PolicyApplied ==
  ASSUME TypeOK
  PROVE  /\ ValidateIdentityClaims(ResolvedClaims) \in
              {"none", "missing", "notVerified", "unauthorizedDomain"}
         /\ /\ ValidateIdentityClaims(ResolvedClaims) = "none"
            /\ identity.email # Empty
            /\ policy.requireVerified
            => identity.emailVerified
         /\ /\ ValidateIdentityClaims(ResolvedClaims) = "none"
            /\ policy.emailDomains # {}
            => /\ identity.email.email \in Emails
               /\ DomainOf[identity.email.email] \in policy.emailDomains
<1> DEFINE c == ResolvedClaims
<1>1. c.email = identity.email /\ c.emailVerified = identity.emailVerified
  BY DEF TypeOK, Claims, ResolvedClaims
<1>2. ValidateIdentityClaims(c) = "none" => ~ Unverified(c) /\ ~ EmailMissing(c) /\ ~ ForeignDomain(c)
  BY DEF ValidateIdentityClaims
<1>3. ValidateIdentityClaims(c) \in {"none", "missing", "notVerified", "unauthorizedDomain"}
  BY DEF ValidateIdentityClaims
<1>4. ~ Unverified(c) /\ identity.email # Empty /\ policy.requireVerified => identity.emailVerified
  BY <1>1 DEF Unverified
<1>5. ~ ForeignDomain(c) /\ policy.emailDomains # {} =>
         /\ identity.email.email \in Emails
         /\ DomainOf[identity.email.email] \in policy.emailDomains
  BY <1>1 DEF ForeignDomain, EmailDomain
<1> QED BY <1>2, <1>3, <1>4, <1>5

LEMMA ValidateKeepsInv ==
  ASSUME IdentityInv, Validate
  PROVE  IdentityInv'
<1>a. TypeOK /\ LoopInv /\ ResolvedInv
  BY DEF IdentityInv
<1>1. /\ pc = "validate" /\ pc' = "forward" /\ err' = ValidateIdentityClaims(ResolvedClaims)
      /\ UNCHANGED <<document, claims, policy, todo, emailKey, identity, hint>> /\ ClaimsProjected'
  BY ProjectionKept DEF IdentityInv, given, Validate
<1>2. Matches' = Matches /\ \A n : Extra(n)' = Extra(n) /\ VouchedFor(n)' = VouchedFor(n)
  BY <1>1, SameClaims
<1>3. /\ Standard \/ \E n \in Matches : FromMatch(n)
      /\ identity # NoIdentity
  BY <1>1, <1>a DEF ResolvedInv
<1>4. identity.email # Empty
  <2>1. CASE Standard
    BY <2>1 DEF Standard
  <2>2. ASSUME NEW n \in Matches, FromMatch(n)
        PROVE  identity.email # Empty
    BY <1>a, <2>2, MatchesAreUsable DEF FromMatch, Matches
  <2> QED BY <1>3, <2>1, <2>2
<1>5. /\ err' \in {"none", "missing", "notVerified", "unauthorizedDomain"}
      /\ err' = "none" /\ policy.requireVerified => identity.emailVerified
      /\ err' = "none" /\ policy.emailDomains # {} =>
           /\ identity.email.email \in Emails
           /\ DomainOf[identity.email.email] \in policy.emailDomains
  BY <1>1, <1>4, <1>a, PolicyApplied
<1>6. identity.emailVerified => \/ identity.email = Trim(claims.email) /\ claims.emailVerified
                                \/ \E n \in Matches : /\ identity.email = Trim(Extra(n).text)
                                                       /\ VouchedFor(n)
  <2>1. CASE Standard
    BY <2>1 DEF Standard
  <2>2. ASSUME NEW n \in Matches, FromMatch(n), identity.emailVerified
        PROVE  identity.email = Trim(Extra(n).text) /\ VouchedFor(n)
    BY <2>2 DEF FromMatch
  <2> QED BY <1>3, <2>1, <2>2
<1>7. PolicyBound'
  <2>1. Trim(claims.email)' = Trim(claims.email)
    BY <1>1 DEF Trim
  <2>2. ASSUME NEW n
        PROVE  (identity.email = Trim(Extra(n).text))' <=> identity.email = Trim(Extra(n).text)
    BY <1>1, <1>2 DEF Trim
  <2> QED BY <1>1, <1>2, <1>5, <1>6, <2>1, <2>2 DEF PolicyBound
<1>8. TypeOK'
  BY <1>1, <1>5, <1>a DEF TypeOK
<1>9. LoopInv' /\ HintInv'
  BY <1>1, <1>a DEF LoopInv, HintInv
<1>10. ResolvedInv'
  BY <1>1, <1>3, <1>5, OutcomeKept DEF ResolvedInv
<1> QED BY <1>1, <1>7, <1>8, <1>9, <1>10 DEF IdentityInv

LEMMA ForwardingKeepsInv ==
  ASSUME IdentityInv, RangeForHint \/ NoHint \/ \E n \in Names : Look(n)
  PROVE  IdentityInv'
<1>a. TypeOK /\ LoopInv /\ ResolvedInv
  BY DEF IdentityInv
<1>b. /\ UNCHANGED <<document, claims, policy, emailKey, identity, err>> /\ ClaimsProjected'
      /\ pc \in {"forward", "look"} /\ pc' \in {"look", "done"}
      /\ todo' \subseteq DOMAIN claims.extra
  BY <1>a, ProjectionKept DEF IdentityInv, given, RangeForHint, NoHint, Look, TypeOK
<1>c. Matches' = Matches /\ \A n : Extra(n)' = Extra(n) /\ VouchedFor(n)' = VouchedFor(n)
  BY <1>b, SameClaims
<1>1. ResolvedInv' /\ PolicyBound'
  BY <1>a, <1>b, OutcomeKept DEF ResolvedInv, PolicyBound
<1>2. CASE RangeForHint
  <2>1. pc = "forward" /\ pc' = "look" /\ todo' = DOMAIN claims.extra /\ UNCHANGED hint
    BY <1>2 DEF RangeForHint
  <2>2. LoopInv' /\ HintInv' /\ TypeOK'
    BY <1>a, <1>b, <1>c, <2>1 DEF LoopInv, HintInv, TypeOK, Matches
  <2> QED BY <1>b, <1>1, <2>2 DEF IdentityInv
<1>3. CASE NoHint
  <2>1. pc = "look" /\ pc' = "done" /\ todo = {} /\ UNCHANGED <<hint, todo>>
    BY <1>3 DEF NoHint
  <2>2. LoopInv' /\ HintInv' /\ TypeOK'
    BY <1>a, <1>b, <1>c, <2>1 DEF LoopInv, HintInv, TypeOK
  <2> QED BY <1>b, <1>1, <2>2 DEF IdentityInv
<1>4. ASSUME NEW n \in Names, Look(n)
      PROVE  IdentityInv'
  <2>1. pc = "look" /\ n \in todo /\ todo' = todo \ {n} /\ n \in DOMAIN claims.extra
    BY <1>4, <1>a DEF Look, TypeOK
  <2>2. CASE Hintable(n)
    <3>1. pc' = "done" /\ hint' = Trim(Extra(n).text) /\ n \in Matches
      BY <1>4, <1>a, <2>1, <2>2, MatchesAreUsable DEF Look, Hintable
    <3>2. hint' \in Texts /\ ~ hint'.padded /\ hint' # Empty
      BY <1>a, <2>1, <3>1, MatchesAreUsable
    <3>3. LoopInv' /\ HintInv' /\ TypeOK'
      BY <1>a, <1>b, <1>c, <3>1, <3>2 DEF LoopInv, HintInv, TypeOK
    <3> QED BY <1>b, <1>1, <3>3 DEF IdentityInv
  <2>3. CASE ~ Hintable(n)
    <3>1. UNCHANGED <<hint, pc>> /\ n \notin Matches
      BY <1>4, <1>a, <2>1, <2>3, MatchesAreUsable DEF Look, Hintable
    <3>2. LoopInv' /\ HintInv' /\ TypeOK'
      BY <1>a, <1>b, <1>c, <2>1, <3>1 DEF LoopInv, HintInv, TypeOK
    <3> QED BY <1>b, <1>1, <3>2 DEF IdentityInv
  <2> QED BY <2>2, <2>3
<1> QED BY <1>2, <1>3, <1>4

LEMMA IdentityStep == IdentityInv /\ [Next]_vars => IdentityInv'
<1> SUFFICES ASSUME IdentityInv, [Next]_vars
             PROVE  IdentityInv'
  OBVIOUS
<1>1. CASE UNCHANGED vars
  <2>1. Matches' = Matches /\ \A n : Extra(n)' = Extra(n) /\ VouchedFor(n)' = VouchedFor(n)
    BY <1>1, SameClaims DEF vars, given
  <2>2. ResolvedInv'
    BY <1>1, OutcomeKept DEF IdentityInv, ResolvedInv, vars, given
  <2>3. ClaimsProjected'
    BY <1>1, ProjectionKept DEF IdentityInv, vars
  <2> QED BY <1>1, <2>1, <2>2, <2>3
          DEF vars, given, IdentityInv, TypeOK, LoopInv, HintInv, PolicyBound
<1>2. CASE Next
  BY <1>2, ResolvingKeepsInv, ValidateKeepsInv, ForwardingKeepsInv DEF Next
<1> QED BY <1>1, <1>2

-----------------------------------------------------------------------------
\* The theorems.

\* Every variable has its type, and no email is returned with blanks around it,
\* whatever the claims and the policy.
THEOREM TypeCorrect == Spec => []TypeOK
<1>1. IdentityInv => TypeOK
  BY DEF IdentityInv
<1> QED BY <1>1, IdentityInit, IdentityStep, PTL DEF Spec

\* The identity that ResolveEmailIdentity returns, or its error, is the same in
\* every order in which the map of extra claims can be visited, for any number
\* of them.
THEOREM OrderIgnored == Spec => []IdentityIgnoresOrder
<1>1. IdentityInv => IdentityIgnoresOrder
  BY DEF IdentityInv, ResolvedInv, IdentityIgnoresOrder, Standard, FromMatch, Refused
<1> QED BY <1>1, IdentityInit, IdentityStep, PTL DEF Spec

\* The policy has been applied to the email the host goes by, and its evidence
\* is that of the claim the email came from.
THEOREM AcceptedIsVouchedFor == Spec => []AcceptedEmailIsVouchedFor
<1>1. IdentityInv => AcceptedEmailIsVouchedFor
  <2> SUFFICES ASSUME IdentityInv PROVE AcceptedEmailIsVouchedFor
    OBVIOUS
  <2>1. /\ claims.email = TextOf(document.email)
        /\ claims.emailVerified => document.emailVerified \in {"true", "spelled"}
    <3>1. PICK evidence \in {{"true", "spelled"}, {"true"}} : claims = ClaimsOf(document, evidence)
      BY DEF IdentityInv, ClaimsProjected, ClaimsFromRawClaims, ClaimsFromUserInfo
    <3>2. claims.email = TextOf(document.email)
      BY <3>1 DEF ClaimsOf
    <3>3. claims.emailVerified = (document.emailVerified \in evidence)
      BY <3>1 DEF ClaimsOf
    <3> QED BY <3>1, <3>2, <3>3
  <2> QED BY <2>1 DEF IdentityInv, PolicyBound, AcceptedEmailIsVouchedFor
<1> QED BY <1>1, IdentityInit, IdentityStep, PTL DEF Spec

\* The username hint is the email that was resolved from the extra claims.
THEOREM HintAgrees == Spec => []HintAgreesWithIdentity
<1>1. ASSUME IdentityInv, pc = "done", Trim(claims.email) = Empty
      PROVE  /\ identity # NoIdentity => hint = identity.email
             /\ identity = NoIdentity /\ err = "missing" => hint = Empty
             /\ err = "ambiguous" => hint # Empty
  <2>1. CASE identity # NoIdentity /\ err # "ambiguous"
    <3>1. PICK n \in Matches : FromMatch(n)
      BY <1>1, <2>1 DEF IdentityInv, ResolvedInv, Standard, Refused
    <3> QED BY <1>1, <2>1, <3>1 DEF IdentityInv, HintInv, FromMatch
  <2>2. CASE Refused
    BY <1>1, <2>2 DEF IdentityInv, HintInv, Refused
  <2> QED BY <1>1, <2>1, <2>2 DEF IdentityInv, ResolvedInv
<1>2. IdentityInv => HintAgreesWithIdentity
  BY <1>1 DEF HintAgreesWithIdentity
<1> QED BY <1>2, IdentityInit, IdentityStep, PTL DEF Spec

=============================================================================
