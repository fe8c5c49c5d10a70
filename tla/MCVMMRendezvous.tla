-------------------------- MODULE MCVMMRendezvous --------------------------
(* Instances of VMMRendezvous for TLC. *)
EXTENDS VMMRendezvous

\* Success, a scheduling status of EM and an error.
ResultsMC == {0, 1, -1}

\* One request of each type; one that stops on an error and one that does not.
RequestsMC ==
  {[type |-> t, stop |-> FALSE] : t \in {"ONE_BY_ONE", "ALL_AT_ONCE", "ONCE", "DESCENDING"}}
  \cup {[type |-> "ASCENDING", stop |-> TRUE]}
=============================================================================
