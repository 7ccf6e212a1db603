-------------------------- MODULE MCAuthServerMeta --------------------------
(***************************************************************************)
(* Constants for model-checking AuthServerMeta.                            *)
(***************************************************************************)
EXTENDS AuthServerMetaRefinement, TLC

CONSTANTS i1, i2, s1, s1slash, s2, sblank

\* Two spellings of one issuer, another issuer, and a blank string.
Normalised == (s1 :> i1) @@ (s1slash :> i1) @@ (s2 :> i2) @@ (sblank :> NoIssuer)

MetaSymmetry == Permutations(Callers) \cup Permutations(Issuers)

\* With a TTL of 15 the drawn deadlines are 14, 15 and 16 after the store: an
\* entry stored at 1 is at, or past, every one of them at 17.
InstantsEnds == {1, 17}

\* A deadline is only ever compared with the clock; an entry past it is dead.
Cache == LET alive == {t \in Instants : clock <= t /\ t < asMeta.expiresAt}
         IN  IF alive = {} THEN <<>>
             ELSE <<asMeta.issuer, asMeta.uri, asMeta.url, alive>>

\* What a goroutine was told last is dead to every step, and an answer that was
\* recent when it was given stays so.
LiveTasks == [c \in Callers |-> IF task[c].pc = "idle" THEN <<>> ELSE task[c]]

MetaView == <<clock, issuers, LiveTasks, slowest, Cache, TypeOK, AnswersAreRecent>>
=============================================================================
