---------------------- MODULE AuthServerMetaRefinement ----------------------
(***************************************************************************)
(* The cached, concurrent metadata lookup of AuthServerMeta implements the *)
(* cache-free IssuerDirectory.  A hit and a store are answers; a miss and  *)
(* a discovery are invisible.                                              *)
(***************************************************************************)
EXTENDS AuthServerMetaInvariants

\* A goroutine under way is a pending inquiry; what it has discovered is its
\* own affair until it is stored.
InquiryOf(r) == [phase  |-> IF r.pc = "idle" THEN "told" ELSE "pending",
                 issuer |-> r.issuer,
                 answer |-> IF r.pc = "idle" THEN r.answer ELSE NoDocument]

Directory == INSTANCE IssuerDirectory WITH
  inquiry <- [c \in Callers |-> InquiryOf(task[c])], delay <- slowest

\* Callers of fetchAuthServerMeta cannot tell it from the cache-free directory:
\* whatever the other goroutines store in the single entry, each is told what
\* the issuer it asked for itself advertised recently, and that it has no
\* metadata only while that is so, never from the cache.
ImplementsIssuerDirectory == Directory!Spec

=============================================================================
