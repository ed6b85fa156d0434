--------------------------- MODULE MCOnboardSync ---------------------------
(* Instances of OnboardSync for TLC. *)
EXTENDS OnboardSync, TLC

CONSTANTS phone, laptop, alice, zinc, argon, zincClaim, argonClaim

OneUser == [c \in Clients |-> alice]

ZincFirst == <<zinc, argon>>

OwnClaims == (zinc :> zincClaim) @@ (argon :> argonClaim)
=============================================================================
