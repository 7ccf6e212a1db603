----------------------------- MODULE MCBrokerJWE -----------------------------
(***************************************************************************)
(* Constants for model-checking BrokerJWE.                                 *)
(***************************************************************************)
EXTENDS BrokerJWE, TLC

SomeLifetimes == {1, 2}
FourSeconds   == 0..3
Halves        == {0, 1}

BrokerSymmetry == Permutations(Secrets) \cup Permutations(Purposes)

=============================================================================
