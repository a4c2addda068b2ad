------------------------------ MODULE MCOnoff ------------------------------
(* Instances of Onoff for TLC. *)
EXTENDS Onoff
=============================================================================
