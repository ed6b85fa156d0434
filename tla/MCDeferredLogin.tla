-------------------------- MODULE MCDeferredLogin --------------------------
(* Instances of DeferredLogin for TLC. *)
EXTENDS DeferredLogin, TLC

CONSTANTS r1, r2, r3, n1, n2, alice, mail

\* Requests are interchangeable, and so are nonces.
Interchangeable == Permutations(Requests) \cup Permutations(Nonces)
=============================================================================
