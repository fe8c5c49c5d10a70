--------------------------- MODULE RequestService ---------------------------
(***************************************************************************)
(* What the request interface promises to its callers, without packets'    *)
(* lists, force flags or events: a request sent to a virtual CPU runs on   *)
(* that CPU, requests of one kind in the order in which they were sent; a  *)
(* request sent to any CPU runs on one of them; a CPU runs one request at  *)
(* a time; and a call returns only after its request has run.              *)
(***************************************************************************)
EXTENDS Sequences

CONSTANTS Cpus, Packets, NoReq,
          Kinds    \* "priority" and "normal"

VARIABLES line,    \* per CPU and kind, the requests waiting, oldest first
          pool,    \* per kind, the requests waiting for any CPU
          serving, \* per CPU, the request it runs
          phase    \* per packet: "idle", "waiting", "running" or "done"

vars == <<line, pool, serving, phase>>

Init == /\ line = [c \in Cpus |-> [k \in Kinds |-> <<>>]]
        /\ pool = [k \in Kinds |-> {}]
        /\ serving = [c \in Cpus |-> NoReq]
        /\ phase = [p \in Packets |-> "idle"]

Becomes(p, from, to) == phase[p] = from /\ phase' = [phase EXCEPT ![p] = to]

\* A request for all CPUs is sent to one after the other.
Send(p) == /\ Becomes(p, "idle", "waiting")
           /\ \E k \in Kinds :
                \/ \E c \in Cpus : /\ line' = [line EXCEPT ![c][k] = Append(@, p)]
                                   /\ UNCHANGED pool
                \/ pool' = [pool EXCEPT ![k] = @ \union {p}] /\ UNCHANGED line
           /\ UNCHANGED serving

Start(c, p) == /\ serving[c] = NoReq /\ serving' = [serving EXCEPT ![c] = p]
               /\ Becomes(p, "waiting", "running")
               /\ \E k \in Kinds :
                    \/ /\ line[c][k] # <<>> /\ Head(line[c][k]) = p
                       /\ line' = [line EXCEPT ![c][k] = Tail(@)]
                       /\ UNCHANGED pool
                    \/ /\ p \in pool[k] /\ pool' = [pool EXCEPT ![k] = @ \ {p}]
                       /\ UNCHANGED line

Finish(c, p) == /\ serving[c] = p /\ serving' = [serving EXCEPT ![c] = NoReq]
                /\ Becomes(p, "running", "done")
                /\ UNCHANGED <<line, pool>>

Return(p) == Becomes(p, "done", "idle") /\ UNCHANGED <<line, pool, serving>>

Next == \E p \in Packets : \/ Send(p) \/ Return(p)
                           \/ \E c \in Cpus : Start(c, p) \/ Finish(c, p)

Spec == Init /\ [][Next]_vars
=============================================================================
