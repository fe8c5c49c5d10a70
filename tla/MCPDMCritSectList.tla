-------------------------- MODULE MCPDMCritSectList --------------------------
(* Instances of PDMCritSectList for TLC. *)
EXTENDS PDMCritSectList

CONSTANTS emt1, emt2, s1, s2, s3, dev1, dev2
=============================================================================
