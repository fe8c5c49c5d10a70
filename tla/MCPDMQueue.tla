---------------------------- MODULE MCPDMQueue -----------------------------
(* Instances of PDMQueue for TLC. *)
EXTENDS PDMQueue

CONSTANTS emt1, emt2, dev

\* One EMT inserts from ring-0, the device thread from ring-3; the other EMT flushes.
RingsOf == emt1 :> {"R0"} @@ emt2 :> {} @@ dev :> {"R3"}

\* Everybody inserts from ring-3.
AllR3 == [t \in {emt1, emt2, dev} |-> {"R3"}]
=============================================================================
