------------------------------- MODULE MCNvs -------------------------------
(* Instances of Nvs for TLC. *)
EXTENDS Nvs

CONSTANT long

\* The value long takes two cells, other values one; all identifiers share
\* one place in the cache.
OneOrTwoCells == [v \in Values |-> IF v = long THEN 2 ELSE 1]
OnePlace == [i \in Ids |-> 1]

\* The instances are within what LogInv is about.
ASSUME SectorsSuffice == LargeSectors
=============================================================================
