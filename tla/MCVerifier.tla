----------------------------- MODULE MCVerifier -----------------------------
(***************************************************************************)
(* Constants, a bound and a view for model-checking Verifier.              *)
(***************************************************************************)
EXTENDS VerifierInvariants, TLC

CONSTANTS k1, k2, kid1,
  MaxChanges,  \* how often the issuer changes its keys or metadata (bounds the model)
  Moves        \* whether it may change its metadata (bounds the model)

\* Two keys that share a kid; the tokens are signed with the first.
SharedKid == (k1 :> kid1) @@ (k2 :> kid1)
WithAndWithoutKid == {[key |-> k1, kid |-> kid1], [key |-> k1, kid |-> NoKid]}

\* One key, and the token with its kid.
SingleKid == k1 :> kid1
WithKid == {[key |-> k1, kid |-> kid1]}

InstantsShort == {1, 2}
VerifierSymmetry == Permutations(Calls) \cup Permutations(URIs)

VARIABLE changes   \* how often it has

MCInit == VerifierInit /\ changes = 0

MCNext ==
  \/ changes < MaxChanges /\ (Rotating \/ (Moves /\ Moving)) /\ changes' = changes + 1
  \/ /\ \/ Passing
        \/ \E c \in Calls, t \in Tokens : Verify(c, t)
        \/ \E c \in Calls : Resolving(c) \/ Resolved(c) \/ Fetching(c)
     /\ UNCHANGED changes

MCSpec == MCInit /\ [][MCNext]_<<allVars, changes>>

MCFairSpec == MCSpec /\ VerifierFairness

\* What a call under way can still tell: once it has its JWKS URI the answer
\* of the metadata is dead, and an exchange that failed is over.
LiveCall(c) ==
  CASE verdict[c] # "pending"                          -> <<>>
    [] verdict[c] = "pending" /\ call[c].pc = "idle"   ->
         <<token[c], task[c].pc, task[c].answer, task[c].served>>
    [] verdict[c] = "pending" /\ call[c].pc # "idle"   ->
         <<token[c], task[c].at, [call[c] EXCEPT !.err = (@ = "none")]>>

\* A deadline is only ever compared with a reading of the clock: the metadata's
\* with the current one, the keys' with that of a call about to look them up.
\* An entry past its deadline by every such reading is dead, and so is an empty
\* key set.
Readings == {call[c].now : c \in {q \in Calls : call[q].pc = "lookup"}}
Coming   == {t \in Instants : t >= clock}

Entry(content, deadline, readings) ==
  LET alive == {t \in readings : t < deadline}
  IN  IF alive = {} THEN <<>> ELSE <<content, alive>>

\* When a key was last added matters while it is published, and when it was
\* last withdrawn while it is not.
Listing == [u \in URIs |-> [k \in Keys |-> IF k \in published[u] THEN listedSince[u][k]
                                                                ELSE withdrawnAt[u][k]]]
Naming  == [u \in Meta!Answers |-> IF u = advertised[Issuer] THEN movedAt ELSE replacedAt[Issuer][u]]

VerifierView ==
  <<clock, published, Entry(<<jwks.keys, jwks.url>>, jwks.expiresAt,
                            IF jwks.keys = {} THEN {} ELSE Readings \cup Coming),
    advertised, Entry(<<asMeta.uri, asMeta.url>>, asMeta.expiresAt, Coming), slowest,
    [c \in Calls |-> LiveCall(c)], Listing, Naming, changes>>
=============================================================================
