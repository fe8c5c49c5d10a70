----------------------------- MODULE PDMCritSect -----------------------------
(***************************************************************************)
(* The critical sections of the pluggable device manager (PDM):            *)
(* VBox/VMM/VMMAll/PDMAllCritSect.cpp, VBox/VMM/VMMR3/PDMCritSect.cpp and  *)
(* the places of VMMR3/VMM.cpp and VMMR3/EM.cpp that process queued leaves.*)
(*                                                                         *)
(* Unlike an ordinary mutex a PDM critical section is used by the same     *)
(* thread in ring-3, in ring-0 and in raw mode.  Where a thread cannot     *)
(* block or signal it enters by calling ring-3, and when somebody waits it *)
(* leaves by queueing the section for ring-3 to leave: until then it still *)
(* owns the section although its code is done with it, and may enter it    *)
(* again.                                                                  *)
(***************************************************************************)
EXTENDS Integers, Sequences, FiniteSets

CONSTANTS
  Threads,    \* the threads that use the sections
  Emts,       \* those that are emulation threads and also run in ring-0 or raw mode
  Sects,      \* the critical sections
  NoThread,   \* NIL_RTNATIVETHREAD
  NoSect,
  MayHold,    \* lock order: <<held, s>> if s may be entered while holding held
  MaxNest,    \* bound on the nesting depth
  MaxOps      \* bound on the number of enters, tries and yields

ASSUME EmtAssumption == Emts \subseteq Threads
ASSUME NoneAssumption == NoThread \notin Threads /\ NoSect \notin Sects
ASSUME OrderAssumption == MayHold \subseteq Sects \X Sects
ASSUME BoundAssumption == MaxNest \in Nat /\ MaxOps \in Nat

VARIABLES
  cLockers,      \* RTCRITSECT::cLockers of each section
  cNestings,     \* RTCRITSECT::cNestings
  owner,         \* RTCRITSECT::NativeThreadOwner
  pendingUnlock, \* PDMCRITSECT_FLAGS_PENDING_UNLOCK in RTCRITSECT::fFlags
  event,         \* RTCRITSECT::EventSem is signalled (it resets when a wait ends)
  eventToSignal, \* PDMCRITSECTINT::EventToSignal is set
  ctx,           \* where each thread runs
  queue,         \* PDMCPU::apQueuedCritSectsLeaves of the thread's VCPU
  call,          \* the operation each thread is in, and its locals
  held,          \* how often the code of a thread has entered and not left
  ops            \* number of enters, tries and yields begun

vars == <<cLockers, cNestings, owner, pendingUnlock, event, eventToSignal, ctx,
          queue, call, held, ops>>

\* "R3": ring-3; "RZ": ring-0 with preemption disabled or raw mode, where the
\* guest runs; "Call": ring-3 on behalf of RZ, in vmmR3ServiceCallRing3Request.
Contexts == {"R3", "RZ", "Call"}

\* pc: the step the operation is at; i: the queued leave being processed.
Idle == [pc |-> "idle", op |-> "none", sect |-> NoSect, i |-> 0]

Init ==
  /\ cLockers = [s \in Sects |-> -1]
  /\ cNestings = [s \in Sects |-> 0]
  /\ owner = [s \in Sects |-> NoThread]
  /\ pendingUnlock = [s \in Sects |-> FALSE]
  /\ event = [s \in Sects |-> FALSE]
  /\ eventToSignal = [s \in Sects |-> FALSE]
  /\ ctx = [th \in Threads |-> "R3"]
  /\ queue = [th \in Threads |-> <<>>]
  /\ call = [th \in Threads |-> Idle]
  /\ held = [th \in Threads |-> [s \in Sects |-> 0]]
  /\ ops = 0

LockVars == <<cLockers, cNestings, owner, pendingUnlock, event, eventToSignal>>

At(th, l) == call[th].pc = l
Goto(th, l) == call' = [call EXCEPT ![th].pc = l]

\* The section an operation works on: while the queued leaves are processed,
\* the one being left.
Sect(th) == IF call[th].i > 0 THEN queue[th][call[th].i] ELSE call[th].sect

Holds(th) == {s \in Sects : held[th][s] > 0}

\* The operation has entered its section: a request made through ring-3
\* returns to where the thread came from.
Entered(th) ==
  /\ held' = [held EXCEPT ![th][Sect(th)] = @ + 1]
  /\ ctx' = IF call[th].op = "CallEnter" THEN [ctx EXCEPT ![th] = "RZ"] ELSE ctx
  /\ call' = [call EXCEPT ![th] = Idle]

\* A leave is done: go on with the queue, enter again after a yield, or return.
Left(th) ==
  call' = [call EXCEPT ![th] =
             IF @.i > 0 THEN [@ EXCEPT !.pc = "ff"]
             ELSE IF @.op = "Yield" THEN [@ EXCEPT !.pc = "try"] ELSE Idle]

-----------------------------------------------------------------------------
(* Which operations the users of the sections begin, and when. *)

\* A thread in ring-3 processes the queued leaves before anything else.
Ready(th) == At(th, "idle") /\ (ctx[th] = "RZ" \/ queue[th] = <<>>)

Begin(th, op, s, l) ==
  /\ Ready(th)
  /\ call' = [call EXCEPT ![th] = [pc |-> l, op |-> op, sect |-> s, i |-> 0]]

Bounded == ops < MaxOps /\ ops' = ops + 1

PDMCritSectEnter(th) == \E s \in Sects :
  /\ Bounded /\ held[th][s] < MaxNest
  /\ held[th][s] > 0 \/ \A h \in Holds(th) : <<h, s>> \in MayHold
  /\ Begin(th, "Enter", s, "try")
  /\ UNCHANGED <<LockVars, ctx, queue, held>>

PDMCritSectTryEnter(th) == \E s \in Sects :
  /\ Bounded /\ held[th][s] < MaxNest
  /\ Begin(th, "TryEnter", s, "try")
  /\ UNCHANGED <<LockVars, ctx, queue, held>>

PDMCritSectLeave(th) == \E s \in Sects :
  /\ held[th][s] > 0
  /\ Begin(th, "Leave", s, "leave")
  /\ held' = [held EXCEPT ![th][s] = @ - 1]
  /\ UNCHANGED <<LockVars, ctx, queue, ops>>

\* PDMCritSectHasWaiters, as the owner calls it.
HasWaiters(s) == cLockers[s] >= cNestings[s]

PDMR3CritSectYield(th) == \E s \in Sects :
  /\ Bounded /\ ctx[th] # "RZ" /\ Holds(th) = {s}
  /\ cNestings[s] = 1 /\ HasWaiters(s)
  /\ Begin(th, "Yield", s, "leave")
  /\ held' = [held EXCEPT ![th][s] = @ - 1]
  /\ UNCHANGED <<LockVars, ctx, queue>>

PDMR3CritSectScheduleExitEvent(th) == \E s \in Sects :
  /\ Ready(th) /\ ctx[th] = "R3" /\ owner[s] = th
  /\ eventToSignal' = [eventToSignal EXCEPT ![s] = TRUE]
  /\ UNCHANGED <<cLockers, cNestings, owner, pendingUnlock, event, ctx, queue, call, held, ops>>

-----------------------------------------------------------------------------
(* pdmCritSectEnter and pdmCritSectTryEnter. *)

\* ASMAtomicCmpXchgS32(&cLockers, 0, -1), when it succeeds.
Grab(s) == cLockers[s] = -1 /\ cLockers' = [cLockers EXCEPT ![s] = 0]

EnterGrab(th) ==
  /\ At(th, "try") \/ At(th, "spin")
  /\ Grab(Sect(th))
  /\ Goto(th, "first")
  /\ UNCHANGED <<cNestings, owner, pendingUnlock, event, eventToSignal, ctx, queue, held, ops>>

\* pdmCritSectEnterFirst
EnterFirst(th) ==
  /\ At(th, "first")
  /\ cNestings' = [cNestings EXCEPT ![Sect(th)] = 1]
  /\ owner' = [owner EXCEPT ![Sect(th)] = th]
  /\ Entered(th)
  /\ UNCHANGED <<cLockers, pendingUnlock, event, eventToSignal, queue, ops>>

\* Mutant: a nested enter does not count itself.
EnterNestedUncounted(th) ==
  /\ At(th, "try") /\ cLockers[Sect(th)] # -1 /\ owner[Sect(th)] = th
  /\ cNestings' = [cNestings EXCEPT ![Sect(th)] = @ + 1]
  /\ Entered(th)
  /\ UNCHANGED <<cLockers, owner, pendingUnlock, event, eventToSignal, queue, ops>>

EnterNested(th) ==
  /\ At(th, "try") /\ cLockers[Sect(th)] # -1 /\ owner[Sect(th)] = th
  /\ cLockers' = [cLockers EXCEPT ![Sect(th)] = @ + 1]
  /\ cNestings' = [cNestings EXCEPT ![Sect(th)] = @ + 1]
  /\ Entered(th)
  /\ UNCHANGED <<owner, pendingUnlock, event, eventToSignal, queue, ops>>

\* Somebody else owns it: a try returns VERR_SEM_BUSY, an enter spins.
EnterBusy(th) ==
  /\ At(th, "try") /\ cLockers[Sect(th)] # -1 /\ owner[Sect(th)] # th
  /\ IF call[th].op = "TryEnter" THEN call' = [call EXCEPT ![th] = Idle]
                                 ELSE Goto(th, "spin")
  /\ UNCHANGED <<LockVars, ctx, queue, held, ops>>

\* Mutant: the value before the increment is tested.
WonOffByOne(n) == n <= 1

\* Whether the section is won, going by cLockers after the increment.
Won(n) == n = 0

\* The spin count is used up: pdmR3R0CritSectEnterContended.
EnterContended(th) ==
  /\ At(th, "spin") /\ ctx[th] # "RZ"
  /\ cLockers' = [cLockers EXCEPT ![Sect(th)] = @ + 1]
  /\ Goto(th, IF Won(cLockers[Sect(th)] + 1) THEN "first" ELSE "wait")
  /\ UNCHANGED <<cNestings, owner, pendingUnlock, event, eventToSignal, ctx, queue, held, ops>>

EnterWait(th) ==
  /\ At(th, "wait") /\ event[Sect(th)]
  /\ event' = [event EXCEPT ![Sect(th)] = FALSE]
  /\ Goto(th, "first")
  /\ UNCHANGED <<cLockers, cNestings, owner, pendingUnlock, eventToSignal, ctx, queue, held, ops>>

\* Mutant: ring-3 enters the section without looking at the queued leaves.
ServiceStart == "try"

\* vmmR3ServiceCallRing3Request processes the queued leaves first.
ServiceFirst == "ff"

\* In RZ the caller either passed a status code to return when the section is
\* busy, or has ring-3 enter it.
EnterReturnBusy(th) ==
  /\ At(th, "spin") /\ ctx[th] = "RZ"
  /\ call' = [call EXCEPT ![th] = Idle]
  /\ UNCHANGED <<LockVars, ctx, queue, held, ops>>

EnterCallRing3(th) ==
  /\ At(th, "spin") /\ ctx[th] = "RZ"
  /\ call' = [call EXCEPT ![th].pc = ServiceFirst, ![th].op = "CallEnter"]
  /\ ctx' = [ctx EXCEPT ![th] = "Call"]
  /\ UNCHANGED <<LockVars, queue, held, ops>>

-----------------------------------------------------------------------------
(* PDMCritSectLeave. *)

\* Mutant: a section that is queued is left for real by its inner leaves.
NestedNotQueued(s) == cNestings[s] > 1 /\ ~ pendingUnlock[s]

Nested(s) == cNestings[s] > 1

LeaveNested(th) ==
  /\ At(th, "leave") /\ Nested(Sect(th))
  /\ cNestings' = [cNestings EXCEPT ![Sect(th)] = @ - 1]
  /\ cLockers' = [cLockers EXCEPT ![Sect(th)] = @ - 1]
  /\ Left(th)
  /\ UNCHANGED <<owner, pendingUnlock, event, eventToSignal, ctx, queue, held, ops>>

Unflag(s) == pendingUnlock' = [pendingUnlock EXCEPT ![s] = FALSE]

\* Mutant: the event is left in the section.
TakeEventNot(th) == UNCHANGED eventToSignal

\* Only ring-3 takes the event that is to be signalled on exit.
TakeEvent(th) ==
  eventToSignal' = IF ctx[th] = "RZ" THEN eventToSignal
                   ELSE [eventToSignal EXCEPT ![Sect(th)] = FALSE]

\* "Leave for real", in ring-3 and in ring-0 with interrupts enabled.
LeaveRelease(th) ==
  /\ At(th, "leave") /\ ~ Nested(Sect(th))
  /\ TakeEvent(th)
  /\ Unflag(Sect(th))
  /\ owner' = [owner EXCEPT ![Sect(th)] = NoThread]
  /\ cNestings' = [cNestings EXCEPT ![Sect(th)] = @ - 1]
  /\ Goto(th, "lockers")
  /\ UNCHANGED <<cLockers, event, ctx, queue, held, ops>>

\* Mutants: the last waiter is forgotten; the semaphore is always signalled.
WaitersLeftOffByOne(n) == n > 0
WaitersLeftAlways(n) == TRUE

\* Whether somebody waits, going by cLockers after the decrement.
WaitersLeft(n) == n >= 0

LeaveLockers(th) ==
  LET n == cLockers[Sect(th)] - 1
  IN  /\ At(th, "lockers")
      /\ cLockers' = [cLockers EXCEPT ![Sect(th)] = n]
      /\ IF WaitersLeft(n) THEN Goto(th, "signal") ELSE Left(th)
      /\ UNCHANGED <<cNestings, owner, pendingUnlock, event, eventToSignal, ctx, queue, held, ops>>

LeaveSignal(th) ==
  /\ At(th, "signal")
  /\ event' = [event EXCEPT ![Sect(th)] = TRUE]
  /\ Left(th)
  /\ UNCHANGED <<cLockers, cNestings, owner, pendingUnlock, eventToSignal, ctx, queue, held, ops>>

\* In raw mode and in ring-0 with interrupts disabled: "Try leave it".
LeaveTry(th) ==
  LET s == Sect(th)
  IN  /\ At(th, "leave") /\ ctx[th] = "RZ" /\ ~ Nested(s)
      /\ IF cLockers[s] = 0
         THEN /\ cNestings' = [cNestings EXCEPT ![s] = 0]
              /\ Unflag(s)
              /\ owner' = [owner EXCEPT ![s] = NoThread]
              /\ Goto(th, "cas")
         ELSE /\ Goto(th, "queue")
              /\ UNCHANGED <<cNestings, pendingUnlock, owner>>
      /\ UNCHANGED <<cLockers, event, eventToSignal, ctx, queue, held, ops>>

\* Mutant: the section is left although somebody raced in.
LeaveCasAlways(s) == TRUE

\* ASMAtomicCmpXchgS32(&cLockers, -1, 0)
LeaveCasOK(s) == cLockers[s] = 0

Restore(th) == owner' = [owner EXCEPT ![Sect(th)] = th]

LeaveCas(th) ==
  LET s == Sect(th)
  IN  /\ At(th, "cas")
      /\ IF LeaveCasOK(s)
         THEN /\ cLockers' = [cLockers EXCEPT ![s] = -1]
              /\ Left(th)
              /\ UNCHANGED <<owner, cNestings>>
         ELSE /\ Restore(th)
              /\ cNestings' = [cNestings EXCEPT ![s] = 1]
              /\ Goto(th, "queue")
              /\ UNCHANGED cLockers
      /\ UNCHANGED <<pendingUnlock, event, eventToSignal, ctx, queue, held, ops>>

Flag(s) == pendingUnlock' = [pendingUnlock EXCEPT ![s] = TRUE]

\* Queues the section for ring-3 and forces the thread to go there.
LeaveQueue(th) ==
  /\ At(th, "queue")
  /\ Flag(Sect(th))
  /\ queue' = [queue EXCEPT ![th] = Append(@, Sect(th))]
  /\ Left(th)
  /\ UNCHANGED <<cLockers, cNestings, owner, event, eventToSignal, ctx, held, ops>>

-----------------------------------------------------------------------------
(* PDMCritSectFF and the changes of context. *)

\* emR3HighPriorityPostForcedActions, after the guest ran.
ForcedActions(th) ==
  /\ At(th, "idle") /\ ctx[th] # "RZ" /\ queue[th] # <<>>
  /\ call' = [call EXCEPT ![th] = [Idle EXCEPT !.pc = "ff", !.op = "FF"]]
  /\ UNCHANGED <<LockVars, ctx, queue, held, ops>>

FFNext(th) ==
  /\ At(th, "ff") /\ call[th].i < Len(queue[th])
  /\ call' = [call EXCEPT ![th].pc = "leave", ![th].i = @ + 1]
  /\ UNCHANGED <<LockVars, ctx, queue, held, ops>>

\* All are left: empty the queue and go on.
FFDone(th) ==
  /\ At(th, "ff") /\ call[th].i = Len(queue[th])
  /\ queue' = [queue EXCEPT ![th] = <<>>]
  /\ call' = [call EXCEPT ![th] = IF @.op = "CallEnter"
                                  THEN [@ EXCEPT !.pc = "try", !.i = 0] ELSE Idle]
  /\ UNCHANGED <<LockVars, ctx, held, ops>>

\* VMMR3HwAccRunGC, VMMR3RawRunGC
RunGuest(th) ==
  /\ Ready(th) /\ th \in Emts /\ ctx[th] = "R3" /\ Holds(th) = {}
  /\ ctx' = [ctx EXCEPT ![th] = "RZ"]
  /\ UNCHANGED <<LockVars, queue, call, held, ops>>

ReturnToRing3(th) ==
  /\ At(th, "idle") /\ ctx[th] = "RZ" /\ Holds(th) = {}
  /\ ctx' = [ctx EXCEPT ![th] = "R3"]
  /\ UNCHANGED <<LockVars, queue, call, held, ops>>

\* VMMRZCallRing3 for another operation, and the way back.
CallRing3(th) ==
  /\ At(th, "idle") /\ ctx[th] = "RZ"
  /\ ctx' = [ctx EXCEPT ![th] = "Call"]
  /\ UNCHANGED <<LockVars, queue, call, held, ops>>

ResumeRZ(th) ==
  /\ Ready(th) /\ ctx[th] = "Call"
  /\ ctx' = [ctx EXCEPT ![th] = "RZ"]
  /\ UNCHANGED <<LockVars, queue, call, held, ops>>

-----------------------------------------------------------------------------
\* What the users of the sections do.
Use(th) ==
  \/ PDMCritSectEnter(th) \/ PDMCritSectTryEnter(th)
  \/ PDMR3CritSectYield(th) \/ PDMR3CritSectScheduleExitEvent(th)
  \/ RunGuest(th) \/ CallRing3(th)

\* The steps of an operation that is under way.
Step(th) ==
  \/ EnterGrab(th) \/ EnterFirst(th) \/ EnterNested(th) \/ EnterBusy(th)
  \/ EnterContended(th) \/ EnterWait(th) \/ EnterReturnBusy(th) \/ EnterCallRing3(th)
  \/ LeaveNested(th) \/ LeaveRelease(th) \/ LeaveLockers(th) \/ LeaveSignal(th)
  \/ LeaveTry(th) \/ LeaveCas(th) \/ LeaveQueue(th)
  \/ ForcedActions(th) \/ FFNext(th) \/ FFDone(th)

Next == \E th \in Threads :
          Use(th) \/ Step(th) \/ PDMCritSectLeave(th) \/ ReturnToRing3(th) \/ ResumeRZ(th)

Spec == Init /\ [][Next]_vars

\* Threads are scheduled, whoever has entered a section leaves it, and a thread
\* that may stop running the guest does so (VMCPU_FF_TO_R3).  Nobody has to enter
\* anything.
Fairness == \A th \in Threads :
  /\ WF_vars(Step(th)) /\ WF_vars(ResumeRZ(th))
  /\ SF_vars(PDMCritSectLeave(th)) /\ SF_vars(ReturnToRing3(th))

LiveSpec == Spec /\ Fairness

-----------------------------------------------------------------------------
(* Properties. *)

OneCall == [pc : {"idle", "try", "spin", "first", "wait", "leave", "lockers", "signal",
                  "cas", "queue", "ff"},
            op : {"none", "Enter", "TryEnter", "CallEnter", "Leave", "Yield", "FF"},
            sect : Sects \cup {NoSect}, i : Nat]

\* The variables have the types of the fields and locals they stand for; no
\* counter drops below the value of a free section.
TypeOK ==
  /\ cLockers \in [Sects -> Nat \cup {-1}] /\ cNestings \in [Sects -> Nat]
  /\ owner \in [Sects -> Threads \cup {NoThread}]
  /\ pendingUnlock \in [Sects -> BOOLEAN]
  /\ event \in [Sects -> BOOLEAN] /\ eventToSignal \in [Sects -> BOOLEAN]
  /\ ctx \in [Threads -> Contexts] /\ queue \in [Threads -> Seq(Sects)]
  /\ call \in [Threads -> OneCall]
  /\ held \in [Threads -> [Sects -> Nat]] /\ ops \in Nat

\* No two threads are inside a critical section, in whatever mix of ring-3,
\* ring-0, raw mode and ring-3 calls they entered it.
MutualExclusion ==
  \A s \in Sects, t, u \in Threads : held[t][s] > 0 /\ held[u][s] > 0 => t = u

\* cLockers accounts for every thread that owns, waits for or is taking over a
\* section: a leaving thread finds out from it whether to wake somebody.
LockersCount ==
  \A s \in Sects :
    cLockers[s] + 1 = cNestings[s] + Cardinality({th \in Threads :
      call[th].pc \in {"first", "wait", "lockers", "cas"} /\ Sect(th) = s})

\* The semaphore is never signalled while it is: a wake-up would be lost.
NoLostSignal == \A th \in Threads : At(th, "signal") => ~ event[Sect(th)]

\* The assertions of pdmCritSectEnterFirst: whoever won the section finds it
\* without an owner and not queued for leaving.
EnterFirstOK ==
  \A th \in Threads : At(th, "first") =>
    owner[Sect(th)] = NoThread /\ cNestings[Sect(th)] = 0 /\ ~ pendingUnlock[Sect(th)]

\* The release assertion of PDMCritSectLeave: whoever leaves a section, for
\* itself or for a queued leave, owns it.
LeaveByOwner ==
  \A th \in Threads : At(th, "leave") => owner[Sect(th)] = th /\ cNestings[Sect(th)] >= 1

\* No assertion of the code can fail, however leaves, queued leaves and enters
\* interleave: a winner finds the section free, only an owner leaves it, and no
\* wake-up is swallowed by one that is still to be seen.
CodeAssertions == EnterFirstOK /\ LeaveByOwner /\ NoLostSignal

\* "We will return to Ring-3 ASAP, so this queue doesn't have to be very long":
\* re-entering a section that is queued and leaving it again does not queue it
\* a second time, so the queue never holds more entries than there are sections.
QueuedOnce ==
  \A th \in Threads : \A i, j \in DOMAIN queue[th] : queue[th][i] = queue[th][j] => i = j

\* An event that is scheduled for the exit stays with the owner who scheduled it
\* and is taken when that owner leaves, never by a later one.
ExitEventOwned ==
  \A s \in Sects : eventToSignal[s] => owner[s] # NoThread /\ ctx[owner[s]] = "R3"

\* PDMCritSectIsOwner, which in ring-3 is RTCritSectIsOwner.
IsOwner(th, s) ==
  /\ owner[s] = th
  /\ ctx[th] = "RZ" => ~ pendingUnlock[s] \/ cNestings[s] > 1

\* Whoever is told to own a section does, and in ring-3 the answer is exact.
IsOwnerSound ==
  \A th \in Threads, s \in Sects : Ready(th) =>
    /\ IsOwner(th, s) => held[th][s] > 0
    /\ ctx[th] # "RZ" /\ held[th][s] > 0 => IsOwner(th, s)

\* A section belongs to one thread at a time, with everything that hangs on the
\* ownership: what it is told about it, and the event it signals when it leaves.
Ownership == MutualExclusion /\ ExitEventOwned /\ IsOwnerSound

\* Every operation returns.  In particular two threads that each queued the
\* section the other one waits for do not block each other, because ring-3
\* processes the queue before it waits.
CallsReturn == \A th \in Threads : ~ At(th, "idle") ~> At(th, "idle")

\* A queued leave is carried out.
QueueDrained == \A th \in Threads : queue[th] # <<>> ~> queue[th] = <<>>

\* The thread that has a section: its owner, or the one that gave up the
\* ownership and has still to find out whether somebody raced in.
User(s) ==
  IF \E th \in Threads : At(th, "cas") /\ Sect(th) = s
  THEN CHOOSE th \in Threads : At(th, "cas") /\ Sect(th) = s
  ELSE owner[s]

Lock == INSTANCE ReentrantLock WITH user <- [s \in Sects |-> User(s)]

\* The sections behave as reentrant locks whose release may be delayed.
ImplementsLock == Lock!Spec
=============================================================================
