---------------------------- MODULE MCSessionTokens ----------------------------
(* Constants for checking SessionTokens on a small instance. *)
EXTENDS SessionTokens

CONSTANTS r1, r2
================================================================================
