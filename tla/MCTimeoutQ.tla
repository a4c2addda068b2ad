----------------------------- MODULE MCTimeoutQ -----------------------------
(* Instances of TimeoutQ for TLC. *)
EXTENDS TimeoutQ

CONSTANTS c1, c2

\* A machine with one CPU, and one with two.
OneOrTwo == {{c1}, {c1, c2}}
=============================================================================
