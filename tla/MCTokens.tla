------------------------------- MODULE MCTokens -------------------------------
(* Instances of the shared access token for TLC. *)
EXTENDS TokensProperties

CONSTANTS c1, c2

\* A write, and a read that falls back within its first group and to a second one
MCPlans == {<<1>>, <<2, 1>>}
=============================================================================
