----------------------------- MODULE MCService -----------------------------
(* Constants of Service for TLC. *)
EXTENDS Service

Poison == {2}
Astray == {3}
=============================================================================
