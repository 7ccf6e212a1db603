--------------------------- MODULE MCEmailIdentity ---------------------------
(***************************************************************************)
(* Constants and inputs for model-checking EmailIdentity.                  *)
(***************************************************************************)
EXTENDS EmailIdentity, TLC

CONSTANTS alice, bob, a, b, av, bv, d

\* bob's address is malformed: it has no domain.
OneMalformed == (alice :> d) @@ (bob :> NoDomain)
Appended     == (a :> av) @@ (b :> bv)

-----------------------------------------------------------------------------
\* The inputs: every kind of value a claim that matters can have, at every name.

Padded(t) == [t EXCEPT !.padded = TRUE]
Text(e)   == [email |-> e, padded |-> FALSE]
String(t) == [type |-> "string", text |-> t]
Bool(yes) == [type |-> "bool", yes |-> yes]
Other     == [type |-> "other"]
Absent    == [type |-> "absent"]

EmailValues    == {String(Text(alice)), String(Padded(Text(alice))), String(Text(bob)),
                   String(Padded(Empty)), Bool(TRUE), Absent}
VerifiedValues == {Bool(TRUE), Bool(FALSE), String(Text(alice)), Other, Absent}

MCExtras ==
  LET Present(f) == {n \in Names : f[n] # Absent}
  IN  {[n \in Present(f) |-> f[n]] :
         f \in {g @@ h : g \in [EmailNames -> EmailValues], h \in [VerifiedNames -> VerifiedValues]}}

MCDocuments == [email : {String(Padded(Text(alice))), String(Padded(Empty)), Other},
                emailVerified : {"true", "spelled", "neither"},
                hd : [domain : {d, NoDomain}, padded : {FALSE}], extra : MCExtras]

MCPolicies == [requireVerified : BOOLEAN, emailDomains : {{}, {d}, {NoDomain}},
               hostedDomains : {{}, {d}}]

MCInit == document \in MCDocuments /\ policy \in MCPolicies /\ Init
MCSpec == MCInit /\ [][Next]_vars

=============================================================================
