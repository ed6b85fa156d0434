---------------------------- MODULE MCHomeLandscape ----------------------------
(* Constants for checking HomeLandscape on a small instance. *)
EXTENDS HomeLandscape

CONSTANTS l1, l2, l3

MCOrder == <<l1, l2, l3>>
================================================================================
