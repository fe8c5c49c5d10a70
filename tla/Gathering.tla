----------------------------- MODULE Gathering -----------------------------
(***************************************************************************)
(* What VMMR3EmtRendezvous promises (VBox/vmm/vmm.h): nothing runs on any  *)
(* virtual CPU until all of them have come, the callback runs once per CPU *)
(* (or once in all) in the order the flags ask for, nobody leaves before   *)
(* the last callback has returned, and everyone is told the same status.   *)
(***************************************************************************)
EXTENDS Integers

CONSTANTS cCpus, Requests, Results

Cpus == 0 .. cCpus - 1

VARIABLES
  phase,   \* "none", "gather", "run" or "leave"
  flags,   \* the type of the rendezvous and whether it stops on an error
  place,   \* where each CPU is: "away", "here", "running" or "ran"
  status,  \* the status so far
  told     \* the status each CPU was last told

gvars == <<phase, flags, place, status, told>>

Failed(rc) == rc < 0

\* The first error wins, else the lowest informational status that is not success.
Merge(st, rc) ==
  IF Failed(st) \/ rc = 0 \/ (st # 0 /\ rc > st) THEN st ELSE rc

Exclusive(t) == t # "ALL_AT_ONCE"
Ran == {c \in Cpus : place[c] = "ran"}
Running == {c \in Cpus : place[c] = "running"}

\* Whether the type lets CPU c be the next one.
InTurn(c) ==
  /\ Exclusive(flags.type) => Running = {}
  /\ flags.type = "ONCE" => Ran = {}
  /\ flags.type = "ASCENDING" => Ran = 0 .. c - 1
  /\ flags.type = "DESCENDING" => Ran = c + 1 .. cCpus - 1

AllRan == IF flags.type = "ONCE" THEN Ran # {} ELSE Ran = Cpus

GInit == /\ phase = "none" /\ status = 0
         /\ flags = [type |-> "NONE", stop |-> FALSE]
         /\ place = [c \in Cpus |-> "away"]
         /\ told = [c \in Cpus |-> 0]

Start == /\ phase = "none" /\ phase' = "gather"
         /\ flags' \in Requests
         /\ status' = 0
         /\ UNCHANGED <<place, told>>

Come(c) == /\ phase = "gather" /\ place[c] = "away"
           /\ place' = [place EXCEPT ![c] = "here"]
           /\ phase' = IF \A d \in Cpus : place'[d] = "here" THEN "run" ELSE "gather"
           /\ UNCHANGED <<flags, status, told>>

Run(c) == /\ phase = "run" /\ place[c] = "here" /\ InTurn(c)
          /\ ~(flags.stop /\ Failed(status))
          /\ place' = [place EXCEPT ![c] = "running"]
          /\ UNCHANGED <<phase, flags, status, told>>

Skip(c) == /\ phase = "run" /\ place[c] = "here" /\ InTurn(c)
           /\ flags.stop /\ Failed(status)
           /\ place' = [place EXCEPT ![c] = "ran"]
           /\ UNCHANGED <<phase, flags, status, told>>

Finish(c) == /\ place[c] = "running"
             /\ place' = [place EXCEPT ![c] = "ran"]
             /\ \E rc \in Results : status' = Merge(status, rc)
             /\ UNCHANGED <<phase, flags, told>>

Close == /\ phase = "run" /\ AllRan /\ Running = {} /\ phase' = "leave"
         /\ place' = [c \in Cpus |-> "ran"]
         /\ UNCHANGED <<flags, status, told>>

Leave(c) == /\ phase = "leave" /\ place[c] # "away"
            /\ place' = [place EXCEPT ![c] = "away"]
            /\ told' = [told EXCEPT ![c] = IF Failed(status) THEN 0 ELSE status]
            /\ UNCHANGED <<phase, flags, status>>

\* The caller leaves last, and is the only one to be told of an error.
End(c) == /\ phase = "leave" /\ \A d \in Cpus : place[d] = "away" <=> d # c
          /\ phase' = "none"
          /\ place' = [place EXCEPT ![c] = "away"]
          /\ told' = [told EXCEPT ![c] = status]
          /\ UNCHANGED <<flags, status>>

GNext == Start \/ Close \/ \E c \in Cpus : \/ Come(c) \/ Run(c) \/ Skip(c) \/ Finish(c)
                                           \/ Leave(c) \/ End(c)

Spec == GInit /\ [][GNext]_gvars
=============================================================================
