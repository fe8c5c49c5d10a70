------------------------------- MODULE VMReq -------------------------------
(***************************************************************************)
(* Requests to the emulation threads (EMTs): VBox/VMM/VMMR3/VMReq.cpp, and *)
(* how an EMT is woken to serve them, VBox/VMM/VMMR3/VMEmt.cpp.            *)
(*                                                                         *)
(* A client allocates a packet, pushes it on a lock-free list of a virtual *)
(* CPU or of the VM, raises a force flag (FF), signals the EMTs that sleep *)
(* and waits for the event in the packet.  An EMT takes a whole list,      *)
(* keeps the oldest packet, pushes the others back and runs the request.   *)
(* The lists of free packets are abstracted to the set of free packets.    *)
(***************************************************************************)
EXTENDS Integers, FiniteSets, SequencesExt

CONSTANTS
  cCpus,               \* number of virtual CPUs, each with its EMT
  VMCPUID_ANY, VMCPUID_ALL, VMCPUID_ALL_REVERSE, \* special destinations
  Clients,             \* threads that are not EMTs
  Pollers,             \* clients that ask with no timeout first and then wait
  Packets, NoReq,
  Plans,               \* the calls that are made: for each client, a sequence of them
  StartStates,         \* the states of the VM at the start
  MaxFree              \* packets kept for reuse, 128 in the code

Cpus == 0 .. cCpus - 1
Dests == Cpus \union {VMCPUID_ANY}
Kinds == {"priority", "normal"}

\* dst: the destination; noWait: VMREQFLAGS_NO_WAIT; em: the function changes the
\* state of the VM and so returns an informational status for the caller of the loop.
Call == [dst : Dests \union {VMCPUID_ALL, VMCPUID_ALL_REVERSE}, kind : Kinds,
         noWait : BOOLEAN, em : BOOLEAN]

ASSUME CpusAssumption == cCpus \in Nat \ {0}
ASSUME DestsAssumption == /\ VMCPUID_ANY \notin Cpus
                          /\ {VMCPUID_ALL, VMCPUID_ALL_REVERSE} \cap Dests = {}
                          /\ VMCPUID_ALL # VMCPUID_ALL_REVERSE
ASSUME NoReqAssumption == NoReq \notin Packets
ASSUME PollersAssumption == Pollers \subseteq Clients
ASSUME PlansAssumption == \A plan \in Plans :
  /\ plan \in [Clients -> Seq(Call)]
  /\ \A u \in Clients : \A i \in DOMAIN plan[u] :
       /\ plan[u][i].dst \notin Dests => ~plan[u][i].noWait  \* asserted by VMR3ReqQueue
       /\ u \in Pollers => plan[u][i].dst \in Dests
ASSUME StatesAssumption == StartStates \subseteq {"RUNNING", "SUSPENDED"}
ASSUME BoundAssumption == MaxFree \in Nat

VARIABLES
  vmState,  \* VM::enmVMState, as far as it tells how EMTs look for work
  req,      \* the packets
  event,    \* VMREQ::EventSem is signalled (it resets when a wait ends)
  reqs,     \* pPriorityReqs and pNormalReqs of each destination, newest first
  ff,       \* VM_FF_REQUEST and VMCPU_FF_REQUEST
  fWait,    \* VMINTUSERPERVMCPU::fWait
  semWait,  \* VMINTUSERPERVMCPU::EventSemWait is signalled
  emt,      \* where each EMT is, and its locals
  client,   \* where each client is, and its locals
  ran,      \* the CPUs that have run the request of each packet, in order
  calls     \* the calls each client has still to make

vars == <<vmState, req, event, reqs, ff, fWait, semWait, emt, client, ran, calls>>

\* q: the destination served; kind, req: the request taken; list: what is to be
\* pushed back; em: the status to return is one for the caller of the loop.
EmtTop == [pc |-> "top", q |-> VMCPUID_ANY, kind |-> "normal", list |-> <<>>, req |-> NoReq,
           em |-> FALSE]

\* todo: the CPUs to ask, first to last; notify: the EMTs still to be notified;
\* noWait: the flag as it was when the packet was queued.
Idle == [pc |-> "idle", req |-> NoReq, noWait |-> FALSE, todo |-> <<>>, notify |-> <<>>]

NewReq == [enmState |-> "INVALID", dst |-> VMCPUID_ANY, kind |-> "normal",
           noWait |-> FALSE, em |-> FALSE, fEventSemClear |-> TRUE]

Init ==
  /\ vmState \in StartStates
  /\ req = [p \in Packets |-> NewReq]
  /\ event = [p \in Packets |-> FALSE]
  /\ reqs = [d \in Dests |-> [k \in Kinds |-> <<>>]]
  /\ ff = [d \in Dests |-> FALSE]
  /\ fWait = [c \in Cpus |-> FALSE]
  /\ semWait = [c \in Cpus |-> FALSE]
  /\ emt = [c \in Cpus |-> EmtTop]
  /\ client = [u \in Clients |-> Idle]
  /\ ran = [p \in Packets |-> <<>>]
  /\ calls \in Plans

-----------------------------------------------------------------------------
(* Packets *)

SetState(p, s) == req' = [req EXCEPT ![p].enmState = s]

In(s) == {p \in Packets : req[p].enmState = s}

\* VMR3ReqFree.  Surplus packets go back to the heap.
VMR3ReqFree(p) == SetState(p, IF Cardinality(In("FREE")) < MaxFree THEN "FREE" ELSE "INVALID")

\* A packet from the heap; which one does not matter.
New == IF In("INVALID") = {} THEN {} ELSE {CHOOSE p \in In("INVALID") : TRUE}

AllCpus == [i \in 1 .. cCpus |-> i - 1]

\* The CPUs a request is sent to, one by one.
Targets(dst) == CASE dst = VMCPUID_ALL -> AllCpus
                  [] dst = VMCPUID_ALL_REVERSE -> Reverse(AllCpus)
                  [] OTHER -> <<dst>>

\* Mutants: the loop goes one too far; the loop stops one too early.
MorePastEnd(s) == Len(s) > 0
MoreButLast(s) == Len(s) > 2
\* One step of a loop over the CPUs, whether to ask or to notify them, is not the last.
More(s) == Len(s) > 1

\* Mutant: the state is looked at first, to save the wait.
WaitOverCompleted(p) == event[p] \/ req[p].enmState = "COMPLETED"
\* A wait for the event of packet p may end.
WaitOver(p) == event[p]

-----------------------------------------------------------------------------
(* Clients: VMR3ReqCallVU *)

ClientAt(u, pc) == client[u].pc = pc
ClientGo(u, pc) == client' = [client EXCEPT ![u].pc = pc]

\* VMR3ReqAllocU: a recycled packet, or a new one (the lists are searched twice, but
\* without a lock, so a packet may be missed).
\* A packet not known to be clear is cleared with a wait of 0 ms.
VMR3ReqAllocU(u) ==
  /\ ClientAt(u, "idle") /\ calls[u] # <<>>
  /\ \E p \in In("FREE") \union New : LET call == Head(calls[u]) IN
       /\ req' = [req EXCEPT ![p] =
            [enmState |-> "ALLOCATED", dst |-> call.dst, kind |-> call.kind,
             noWait |-> call.noWait, em |-> call.em, fEventSemClear |-> TRUE]]
       /\ event' = [event EXCEPT ![p] = @ /\ req[p].enmState = "FREE" /\ req[p].fEventSemClear]
       /\ ran' = [ran EXCEPT ![p] = <<>>]
       /\ client' = [client EXCEPT ![u] =
            [pc |-> "queue", req |-> p, noWait |-> call.noWait,
             todo |-> Targets(call.dst), notify |-> <<>>]]
  /\ calls' = [calls EXCEPT ![u] = Tail(@)]
  /\ UNCHANGED <<vmState, reqs, ff, fWait, semWait, emt>>

\* VMR3ReqQueue: the packet becomes visible with the compare-and-swap.
Queue(u) == LET p == client[u].req IN
  /\ ClientAt(u, "queue")
  /\ SetState(p, "QUEUED")
  /\ reqs' = [reqs EXCEPT ![Head(client[u].todo)][req[p].kind] = <<p>> \o @]
  /\ ClientGo(u, "setff")
  /\ UNCHANGED <<vmState, event, ff, fWait, semWait, emt, ran, calls>>

SetFF(u) == LET d == Head(client[u].todo) IN
  /\ ClientAt(u, "setff")
  /\ ff' = [ff EXCEPT ![d] = TRUE]
  /\ client' = [client EXCEPT ![u].pc = "notify",
                              ![u].notify = IF d = VMCPUID_ANY THEN AllCpus ELSE <<d>>]
  /\ UNCHANGED <<vmState, req, event, reqs, fWait, semWait, emt, ran, calls>>

\* VMR3NotifyCpuFFU, or one round of VMR3NotifyGlobalFFU, and what is done after the
\* last: nobody waits for a VMREQFLAGS_NO_WAIT packet, which may be gone by now.
NotifyFF(u) == LET c == Head(client[u].notify) IN
  /\ ClientAt(u, "notify")
  /\ semWait' = [semWait EXCEPT ![c] = @ \/ fWait[c]]
  /\ client' = [client EXCEPT ![u] =
       CASE More(@.notify) -> [@ EXCEPT !.notify = Tail(client[u].notify)]
         [] ~More(@.notify) /\ @.noWait -> Idle
         [] OTHER -> [@ EXCEPT !.notify = <<>>, !.pc = IF u \in Pollers THEN "poll" ELSE "wait"]]
  /\ UNCHANGED <<vmState, req, event, reqs, ff, fWait, emt, ran, calls>>

\* VMR3ReqWait with 0 ms: whether it returns success or VERR_TIMEOUT, the poller
\* goes on to wait without a timeout (Console::doCPURemove and others).
Poll(u) == LET p == client[u].req IN
  /\ ClientAt(u, "poll")
  /\ event' = [event EXCEPT ![p] = FALSE]
  /\ req' = [req EXCEPT ![p].fEventSemClear = @ \/ event[p]]
  /\ ClientGo(u, "wait")
  /\ UNCHANGED <<vmState, reqs, ff, fWait, semWait, emt, ran, calls>>

\* VMR3ReqWait with RT_INDEFINITE_WAIT: the wait ends ...
WaitEvent(u) == LET p == client[u].req IN
  /\ ClientAt(u, "wait") /\ WaitOver(p)
  /\ event' = [event EXCEPT ![p] = FALSE]
  /\ ClientGo(u, "check")
  /\ UNCHANGED <<vmState, req, reqs, ff, fWait, semWait, emt, ran, calls>>

\* ... and is repeated unless the request has completed.  A request for all CPUs
\* then goes to the next of them.
CheckState(u) == LET p == client[u].req IN
  /\ ClientAt(u, "check")
  /\ IF req[p].enmState \notin {"COMPLETED", "INVALID"}
     THEN ClientGo(u, "wait") /\ UNCHANGED req
     ELSE IF More(client[u].todo)
     THEN /\ req' = [req EXCEPT ![p].fEventSemClear = TRUE, ![p].enmState = "ALLOCATED"]
          /\ client' = [client EXCEPT ![u].pc = "queue", ![u].todo = Tail(@)]
     ELSE /\ req' = [req EXCEPT ![p].fEventSemClear = TRUE]
          /\ ClientGo(u, "free")
  /\ UNCHANGED <<vmState, event, reqs, ff, fWait, semWait, emt, ran, calls>>

Free(u) ==
  /\ ClientAt(u, "free")
  /\ VMR3ReqFree(client[u].req)
  /\ client' = [client EXCEPT ![u] = Idle]
  /\ UNCHANGED <<vmState, event, reqs, ff, fWait, semWait, emt, ran, calls>>

ClientNext(u) == \/ Queue(u) \/ SetFF(u) \/ NotifyFF(u) \/ Poll(u) \/ WaitEvent(u)
                 \/ CheckState(u) \/ Free(u)

-----------------------------------------------------------------------------
(* EMTs: how they look for requests, and sleep *)

EmtAt(c, pc) == emt[c].pc = pc
EmtGo(c, pc) == emt' = [emt EXCEPT ![c].pc = pc]

Pending(d) == \E k \in Kinds : reqs[d][k] # <<>>

\* VM_FF_REQUEST or VMCPU_FF_REQUEST of the CPU.
FFPending(c) == ff[VMCPUID_ANY] \/ ff[c]

\* emR3ForcedActions looks at the force flags while the VM runs, the loop of
\* vmR3EmulationThreadWithId at the lists while it does not.
Serve(c) ==
  /\ EmtAt(c, "top")
  /\ \E d \in {VMCPUID_ANY, c} :
       /\ IF vmState = "RUNNING" THEN ff[d]
          ELSE Pending(d) /\ (d = c => ~Pending(VMCPUID_ANY))
       /\ emt' = [emt EXCEPT ![c] = [EmtTop EXCEPT !.pc = "clear", !.q = d]]
  /\ UNCHANGED <<vmState, req, event, reqs, ff, fWait, semWait, client, ran, calls>>

\* VMR3WaitHalted or VMR3WaitU: nothing is pending.
StartWait(c) ==
  /\ EmtAt(c, "top") /\ ~FFPending(c)
  /\ vmState = "SUSPENDED" => ~Pending(VMCPUID_ANY) /\ ~Pending(c)
  /\ EmtGo(c, "fwait")
  /\ UNCHANGED <<vmState, req, event, reqs, ff, fWait, semWait, client, ran, calls>>

\* Mutant: the EMT sleeps without looking at the flags once more.
SetWaitUnchecked(c) ==
  /\ EmtAt(c, "fwait") /\ fWait' = [fWait EXCEPT ![c] = TRUE]
  /\ EmtGo(c, "sleep")
  /\ UNCHANGED <<vmState, req, event, reqs, ff, semWait, client, ran, calls>>

\* From here on it is signalled, but not for what was pushed before.
SetWait(c) ==
  /\ EmtAt(c, "fwait") /\ fWait' = [fWait EXCEPT ![c] = TRUE]
  /\ EmtGo(c, "check")
  /\ UNCHANGED <<vmState, req, event, reqs, ff, semWait, client, ran, calls>>

\* The loop of vmR3HaltGlobal1Wait; the other halt methods have the same.
CheckFF(c) ==
  /\ EmtAt(c, "check")
  /\ IF FFPending(c) THEN fWait' = [fWait EXCEPT ![c] = FALSE] /\ EmtGo(c, "top")
     ELSE EmtGo(c, "sleep") /\ UNCHANGED fWait
  /\ UNCHANGED <<vmState, req, event, reqs, ff, semWait, client, ran, calls>>

Wake(c) ==
  /\ EmtAt(c, "sleep") /\ semWait[c]
  /\ semWait' = [semWait EXCEPT ![c] = FALSE]
  /\ EmtGo(c, "check")
  /\ UNCHANGED <<vmState, req, event, reqs, ff, fWait, client, ran, calls>>

\* The sleep is bounded, by a second or by the next timer.
Timeout(c) ==
  /\ EmtAt(c, "sleep") /\ EmtGo(c, "check")
  /\ UNCHANGED <<vmState, req, event, reqs, ff, fWait, semWait, client, ran, calls>>

-----------------------------------------------------------------------------
(* EMTs: VMR3ReqProcessU with idDstCpu = q *)

\* The flag is lowered first, so that a request pushed from here on raises it again.
ClearFF(c) ==
  /\ EmtAt(c, "clear")
  /\ ff' = [ff EXCEPT ![emt[c].q] = FALSE]
  /\ EmtGo(c, "priority")
  /\ UNCHANGED <<vmState, req, event, reqs, fWait, semWait, client, ran, calls>>

\* Take the whole list of a kind; keep the oldest and push the others back.
Take(c, k) == LET q == emt[c].q
                  l == reqs[q][k] IN
  /\ EmtAt(c, k)
  /\ reqs' = [reqs EXCEPT ![q][k] = <<>>]
  /\ emt' = [emt EXCEPT ![c] =
       IF l = <<>>
       THEN IF k = "priority" THEN [@ EXCEPT !.pc = "normal"] ELSE EmtTop
       ELSE [@ EXCEPT !.kind = k, !.req = Last(l), !.list = Front(l),
                      !.pc = CASE Len(l) > 1 -> "pushback"
                               [] Len(l) = 1 /\ k = "priority" -> "peek"
                               [] OTHER -> "exec"]]
  /\ UNCHANGED <<vmState, req, event, ff, fWait, semWait, client, ran, calls>>

\* Mutant: the normal requests are forgotten.
PeekNot(c) ==
  /\ EmtAt(c, "peek") /\ EmtGo(c, "exec")
  /\ UNCHANGED <<vmState, req, event, reqs, ff, fWait, semWait, client, ran, calls>>

\* A lone priority request: is there a normal one?
Peek(c) ==
  /\ EmtAt(c, "peek")
  /\ EmtGo(c, IF reqs[emt[c].q]["normal"] # <<>> THEN "setff" ELSE "exec")
  /\ UNCHANGED <<vmState, req, event, reqs, ff, fWait, semWait, client, ran, calls>>

\* Mutants: the new ones are lost; the new ones are put at the old end.
JoinedLosing(new, old) == old
JoinedSwapped(new, old) == old \o new
\* The list of the packets pushed meanwhile and those taken before.
Joined(new, old) == new \o old

\* vmR3ReqProcessUTooManyHelper: only an empty list takes the packets back, ...
PushBack(c) == LET q == emt[c].q
                   k == emt[c].kind IN
  /\ EmtAt(c, "pushback")
  /\ IF reqs[q][k] = <<>>
     THEN /\ reqs' = [reqs EXCEPT ![q][k] = emt[c].list]
          /\ emt' = [emt EXCEPT ![c].pc = "setff", ![c].list = <<>>]
     ELSE EmtGo(c, "retake") /\ UNCHANGED reqs
  /\ UNCHANGED <<vmState, req, event, ff, fWait, semWait, client, ran, calls>>

\* ... else those pushed meanwhile are taken too; they are newer.
Retake(c) == LET q == emt[c].q
                 k == emt[c].kind IN
  /\ EmtAt(c, "retake")
  /\ reqs' = [reqs EXCEPT ![q][k] = <<>>]
  /\ emt' = [emt EXCEPT ![c].pc = "pushback", ![c].list = Joined(reqs[q][k], @)]
  /\ UNCHANGED <<vmState, req, event, ff, fWait, semWait, client, ran, calls>>

\* vmR3ReqSetFF
ReqSetFF(c) ==
  /\ EmtAt(c, "setff")
  /\ ff' = [ff EXCEPT ![emt[c].q] = TRUE]
  /\ EmtGo(c, "exec")
  /\ UNCHANGED <<vmState, req, event, reqs, fWait, semWait, client, ran, calls>>

-----------------------------------------------------------------------------
(* EMTs: vmR3ReqProcessOneU *)

\* The function of the request runs, and may resume or suspend the VM.
Exec(c) == LET p == emt[c].req IN
  /\ EmtAt(c, "exec")
  /\ SetState(p, "PROCESSING")
  /\ ran' = [ran EXCEPT ![p] = Append(@, c)]
  /\ vmState' = IF ~req[p].em THEN vmState
                ELSE IF vmState = "RUNNING" THEN "SUSPENDED" ELSE "RUNNING"
  /\ emt' = [emt EXCEPT ![c].pc = "complete", ![c].em = req[p].em]
  /\ UNCHANGED <<event, reqs, ff, fWait, semWait, client, calls>>

Complete(c) ==
  /\ EmtAt(c, "complete")
  /\ SetState(emt[c].req, "COMPLETED")
  /\ EmtGo(c, "flags")
  /\ UNCHANGED <<vmState, event, reqs, ff, fWait, semWait, client, ran, calls>>

\* The loop goes on unless the status is one for the caller to handle.
Resume(c) == emt' = [emt EXCEPT ![c] =
               IF @.em THEN EmtTop ELSE [EmtTop EXCEPT !.pc = "clear", !.q = emt[c].q]]

\* A packet that nobody waits for is freed here.
Flags(c) == LET p == emt[c].req IN
  /\ EmtAt(c, "flags")
  /\ IF req[p].noWait THEN VMR3ReqFree(p) /\ Resume(c)
     ELSE req' = [req EXCEPT ![p].fEventSemClear = FALSE] /\ EmtGo(c, "signal")
  /\ UNCHANGED <<vmState, event, reqs, ff, fWait, semWait, client, ran, calls>>

Signal(c) ==
  /\ EmtAt(c, "signal")
  /\ event' = [event EXCEPT ![emt[c].req] = TRUE]
  /\ Resume(c)
  /\ UNCHANGED <<vmState, req, reqs, ff, fWait, semWait, client, ran, calls>>

Process(c) == \/ ClearFF(c) \/ (\E k \in Kinds : Take(c, k)) \/ Peek(c) \/ PushBack(c)
              \/ Retake(c) \/ ReqSetFF(c) \/ Exec(c) \/ Complete(c) \/ Flags(c)
              \/ Signal(c)

EmtNext(c) == Serve(c) \/ SetWait(c) \/ CheckFF(c) \/ Wake(c) \/ Process(c)

Next == \/ \E u \in Clients : VMR3ReqAllocU(u) \/ ClientNext(u)
        \/ \E c \in Cpus : EmtNext(c) \/ StartWait(c) \/ Timeout(c)

Spec == Init /\ [][Next]_vars

\* Threads that can go on do.  Nobody has to make a call, a CPU that runs need not
\* halt, and no timeout is relied upon.
LiveSpec == /\ Spec
            /\ \A u \in Clients : WF_vars(ClientNext(u))
            /\ \A c \in Cpus : WF_vars(EmtNext(c))

-----------------------------------------------------------------------------
(* Properties *)

\* Types; and a client in a call always has a CPU to ask.
TypeOK ==
  /\ vmState \in {"RUNNING", "SUSPENDED"}
  /\ req \in [Packets -> [enmState : {"INVALID", "ALLOCATED", "QUEUED", "PROCESSING",
                                      "COMPLETED", "FREE"},
                          dst : Dests \union {VMCPUID_ALL, VMCPUID_ALL_REVERSE},
                          kind : Kinds, noWait : BOOLEAN, em : BOOLEAN,
                          fEventSemClear : BOOLEAN]]
  /\ event \in [Packets -> BOOLEAN]
  /\ reqs \in [Dests -> [Kinds -> Seq(Packets)]]
  /\ ff \in [Dests -> BOOLEAN]
  /\ fWait \in [Cpus -> BOOLEAN] /\ semWait \in [Cpus -> BOOLEAN]
  /\ emt \in [Cpus -> [pc : {"top", "fwait", "check", "sleep", "clear", "peek", "pushback",
                             "retake", "setff", "exec", "complete", "flags", "signal"}
                            \union Kinds,
                       q : Dests, kind : Kinds, list : Seq(Packets),
                       req : Packets \union {NoReq}, em : BOOLEAN]]
  /\ client \in [Clients -> [pc : {"idle", "queue", "setff", "notify", "poll", "wait",
                                   "check", "free"},
                             req : Packets \union {NoReq}, noWait : BOOLEAN,
                             todo : Seq(Dests), notify : Seq(Cpus)]]
  /\ \A u \in Clients : /\ client[u].pc # "idle" => client[u].todo # <<>>
                        /\ client[u].pc = "notify" => client[u].notify # <<>>
  /\ ran \in [Packets -> Seq(Cpus)]
  /\ calls \in [Clients -> Seq(Call)]

\* The request an EMT has taken and not begun to run, and those it will push back.
InHand(c) == IF emt[c].pc \in {"peek", "pushback", "retake", "setff", "exec"}
             THEN Append(emt[c].list, emt[c].req) ELSE <<>>

\* Where packet p waits to be run.
Places(p) == {l \in Dests \X Kinds : p \in Range(reqs[l[1]][l[2]])}
             \union {<<c, "hand">> : c \in {x \in Cpus : p \in Range(InHand(x))}}

\* A queued packet is in exactly one place, a list or the hands of one EMT, whatever
\* is pushed while an EMT has taken a list and pushes part of it back
\* (vmR3ReqProcessUTooManyHelper); any other packet is in none.
OnePlace == \A p \in Packets :
  Cardinality(Places(p)) = IF req[p].enmState = "QUEUED" THEN 1 ELSE 0

\* When a call returns its request has run, once on each CPU asked and in the order
\* promised for VMCPUID_ALL and VMCPUID_ALL_REVERSE; it never runs more often.
RanAsAsked ==
  /\ \A u \in Clients : client[u].pc = "free" =>
       LET p == client[u].req IN
         IF req[p].dst = VMCPUID_ANY THEN Len(ran[p]) = 1 ELSE ran[p] = Targets(req[p].dst)
  /\ \A p \in Packets : \/ IsPrefix(ran[p], Targets(req[p].dst))
                        \/ req[p].dst = VMCPUID_ANY /\ Len(ran[p]) = 1

\* The event of a packet is signalled only when its request has completed, and is then
\* never taken for clear: no later call can end because of it (the assertion of
\* VMR3ReqAllocU).
EventNotStale == \A p \in Packets :
  event[p] => req[p].enmState = "COMPLETED" /\ ~req[p].fEventSemClear

\* Requests waiting in the lists of d are announced by a force flag, or will be by
\* whoever pushed them, or an EMT is about to take them.
PendingFlagged == \A d \in Dests : \A k \in Kinds : reqs[d][k] # <<>> =>
  \/ ff[d]
  \/ \E u \in Clients : client[u].pc = "setff" /\ Head(client[u].todo) = d
  \/ \E c \in Cpus : /\ emt[c].q = d
                     /\ emt[c].pc \in {"clear", "priority", "pushback", "retake", "setff"}
                                      \union IF k = "normal" THEN {"normal", "peek"} ELSE {}

\* No request is lost, duplicated or forgotten between the clients that push, the
\* EMTs that push back and the flag that both raise and lower.
QueuedIsSeen == OnePlace /\ PendingFlagged

\* The EMTs that may serve d do not all sleep through its force flag, unless one of
\* them is signalled or about to be: fWait is written before the flag is read by the
\* EMT, and read after the flag is written by the client.
NoLostWakeup == \A d \in Dests :
  LET servers == IF d = VMCPUID_ANY THEN Cpus ELSE {d} IN
    ff[d] /\ (\A c \in servers : emt[c].pc = "sleep")
      => \E c \in servers : \/ semWait[c]
                            \/ \E u \in Clients : c \in Range(client[u].notify)

\* The packets waiting at reqs[d][k], with those an EMT has taken from it.
Taken(c, d, k) == IF emt[c].q = d /\ emt[c].kind = k THEN InHand(c) ELSE <<>>

phaseOf == [s \in {"INVALID", "ALLOCATED", "QUEUED", "PROCESSING", "COMPLETED", "FREE"} |->
  CASE s = "QUEUED" -> "waiting" [] s = "PROCESSING" -> "running"
    [] s = "COMPLETED" -> "done" [] OTHER -> "idle"]

Lines == [c \in Cpus |-> [k \in Kinds |-> Reverse(reqs[c][k] \o Taken(c, c, k))]]
Pool == [k \in Kinds |-> Range(reqs[VMCPUID_ANY][k]) \union
                         UNION {Range(Taken(c, VMCPUID_ANY, k)) : c \in Cpus}]
Serving == [c \in Cpus |-> IF emt[c].pc = "complete" THEN emt[c].req ELSE NoReq]
Phases == [p \in Packets |-> phaseOf[req[p].enmState]]

Service == INSTANCE RequestService WITH
  line <- Lines, pool <- Pool, serving <- Serving, phase <- Phases

\* The lists, flags and packets give what RequestService promises: first come, first
\* served on each CPU, one request at a time, and no return before it has run.
ImplementsService == Service!Spec

\* Every call returns and every request runs, also one that nobody waits for, though
\* EMTs sleep, race for the same list or leave the loop early to change the VM state:
\* as the calls are finitely many, in the end no call and no request is left.
CallsReturn == <>[](/\ \A u \in Clients \ Pollers : client[u].pc = "idle"
                    /\ \A p \in Packets : req[p].enmState \notin {"QUEUED", "PROCESSING"})

\* VMReq.cpp says of RT_INDEFINITE_WAIT that VMR3ReqWait waits till the request is
\* completed: also a poller gets its answer.
PollsReturn == \A u \in Pollers : client[u].pc = "wait" ~> client[u].pc = "free"
=============================================================================
