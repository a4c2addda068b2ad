------------------------------ MODULE MCWorkQ ------------------------------
(* Instance of WorkQ for TLC. *)
EXTENDS WorkQ
=============================================================================
