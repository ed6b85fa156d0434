---------------------------- MODULE MCRotation ----------------------------
(* Instances of Rotation for TLC. *)
EXTENDS Rotation, TLC

CONSTANTS r1, r2, alice, bob

\* Requests are interchangeable, and so are users.
Symmetry == Permutations(Requests) \cup Permutations(Subjects)
=============================================================================
