---------------------------- MODULE MCRequestLog ----------------------------
(* RequestLog for TLC: the configurations give every constant its value. *)
EXTENDS RequestLog
=============================================================================
