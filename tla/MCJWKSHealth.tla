---------------------------- MODULE MCJWKSHealth ----------------------------
(***************************************************************************)
(* Constants for model-checking JWKSHealth: those of JWKSCache.            *)
(***************************************************************************)
EXTENDS MCJWKSCache, JWKSHealth

=============================================================================
