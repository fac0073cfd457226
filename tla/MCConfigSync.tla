---------------------------- MODULE MCConfigSync ----------------------------
(* ConfigSync for TLC: the configurations give every constant its value.  *)
EXTENDS ConfigSync
=============================================================================
