---------------------------- MODULE MCRustBridge ----------------------------
(* RustBridge for TLC: the configurations give every constant its value.  *)
EXTENDS RustBridge
=============================================================================
