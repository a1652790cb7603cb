---------------------------- MODULE MCTransport ----------------------------
(* An instance of Transport for TLC: two callers of connect. *)
EXTENDS Transport

CONSTANTS c1, c2

MCCallers == {c1, c2}
=============================================================================
