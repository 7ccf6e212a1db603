------------------------- MODULE VerifierRefinement -------------------------
(***************************************************************************)
(* The composed Verifier implements the cache-free Verification.  The two  *)
(* caches, the health snapshot and the progress of a discovery or a fetch  *)
(* are invisible: of a call only the JWKS URI it was given, the looks it   *)
(* has taken and the clock reading of the last one are seen.               *)
(***************************************************************************)
EXTENDS Verifier, JWKSCacheRefinement

SearchOf(r) ==
  IF r.pc = "idle" THEN [uri |-> NoURI, looks |-> 0, since |-> ZeroTime]
                   ELSE [uri |-> r.uri, looks |-> Looks(r), since |-> r.now]

Contract == INSTANCE Verification WITH
  search <- [c \in Calls |-> SearchOf(call[c])], delay <- slowest

\* Whoever verifies tokens cannot tell the Verifier, with its two caches and
\* all the goroutines sharing them, from one that asks the issuer each time and
\* is at times answered up to 110% of the TTL late: every verdict is one that
\* what the issuer has served, and when, allows.
ImplementsVerification == Contract!Spec

=============================================================================
