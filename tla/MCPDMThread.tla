---------------------------- MODULE MCPDMThread ----------------------------
(* Instances of PDMThread for TLC. *)
EXTENDS PDMThread
=============================================================================
