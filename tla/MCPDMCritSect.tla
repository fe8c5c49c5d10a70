---------------------------- MODULE MCPDMCritSect ----------------------------
(* Instances of PDMCritSect for TLC. *)
EXTENDS PDMCritSect

CONSTANTS emt1, emt2, a, b

\* b may be entered while a is held, never the other way round.
OrderAB == {<<a, b>>}
=============================================================================
