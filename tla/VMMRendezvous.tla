--------------------------- MODULE VMMRendezvous ---------------------------
(***************************************************************************)
(* The rendezvous of all emulation threads (EMTs): VBox/VMM/VMMR3/VMM.cpp. *)
(*                                                                         *)
(* One EMT takes a spin lock, clears the counters and the event semaphores *)
(* and raises a force flag (FF); every EMT that sees the flag comes, the   *)
(* last one to come starts the callbacks, and the caller cleans up once    *)
(* the others have gone.  A thread that is not an EMT has one of the EMTs  *)
(* make the call.  An EMT that waits for the spin lock joins the           *)
(* rendezvous of the EMT that has it.                                      *)
(***************************************************************************)
EXTENDS Integers, FiniteSets

CONSTANTS
  cCpus,      \* number of virtual CPUs, each with its EMT
  Requests,   \* the types of rendezvous that are asked for, as records of type and stop
  Results,    \* what a callback returns: 0, informational > 0 or an error < 0
  MaxCalls    \* bound on the number of calls

Cpus == 0 .. cCpus - 1
AllTypes == {"ONE_BY_ONE", "ALL_AT_ONCE", "ONCE", "ASCENDING", "DESCENDING"}
Ordered == {"ASCENDING", "DESCENDING"}

\* "Stop after the first error.  This is not valid for any execution type where
\* more than one EMT is active at a time", nor for ONCE.
Flags == {f \in [type : AllTypes, stop : BOOLEAN] : f.stop => f.type \in Ordered \cup {"ONE_BY_ONE"}}

ASSUME CpusAssumption == cCpus \in Nat /\ cCpus > 1
ASSUME RequestsAssumption == Requests \subseteq Flags
ASSUME ResultsAssumption == Results \subseteq Int /\ 0 \in Results
ASSUME BoundAssumption == MaxCalls \in Nat

VARIABLES
  lock,      \* u32RendezvousLock: the CPU whose EMT has it, or NoCpu
  ff,        \* VM_FF_EMT_RENDEZVOUS
  armed,     \* pfnRendezvous is not NULL
  flags,     \* fRendezvousFlags
  status,    \* i32RendezvousStatus
  cEntered, cDone, cReturned, \* the three counters
  enterOne,  \* hEvtRendezvousEnterOneByOne is signalled
  enterAll,  \* hEvtMulRendezvousEnterAllAtOnce is signalled
  enterOrd,  \* pahEvtRendezvousEnterOrdered[c] is signalled
  evtDone,   \* hEvtMulRendezvousDone is signalled
  evtCaller, \* hEvtRendezvousDoneCaller is signalled
  fIn,       \* fInRendezvous of each CPU
  emt,       \* where each EMT is, and its locals
  told,      \* the status each EMT was last given
  calls

Shared == <<lock, armed, flags>>
Counters == <<cEntered, cDone, cReturned>>
Events == <<enterOne, enterAll, enterOrd, evtDone, evtCaller>>
vars == <<Shared, ff, status, Counters, Events, fIn, emt, told, calls>>

NoCpu == -1
NoFlags == [type |-> "NONE", stop |-> FALSE]
Failed(rc) == rc < 0

\* want: an EMT that waits for the lock wants it for these flags; caller: fIsCaller;
\* fl: fFlags; rc: the result of the callback, later rcRet; old: the status as read.
Home == [pc |-> "idle", want |-> NoFlags, caller |-> FALSE, fl |-> NoFlags, rc |-> 0, old |-> 0]

Init == /\ lock = NoCpu /\ ff = FALSE /\ armed = FALSE /\ flags = NoFlags /\ status = 0
        /\ cEntered = 0 /\ cDone = 0 /\ cReturned = 0
        /\ enterOne = FALSE /\ enterAll = FALSE /\ enterOrd = [c \in Cpus |-> FALSE]
        /\ evtDone = FALSE /\ evtCaller = FALSE
        /\ fIn = [c \in Cpus |-> FALSE]
        /\ emt = [c \in Cpus |-> Home]
        /\ told = [c \in Cpus |-> 0]
        /\ calls = 0

At(c, l) == emt[c].pc = l
Goto(c, l) == emt' = [emt EXCEPT ![c].pc = l]

-----------------------------------------------------------------------------
(* VMMR3EmtRendezvous, up to the callback. *)

\* One compare-and-swap on the lock; an EMT that loses spins.
TryLock(c, fl) ==
  /\ lock = NoCpu
  /\ lock' = c
  /\ emt' = [emt EXCEPT ![c] = [Home EXCEPT !.pc = "slate", !.fl = fl]]
  /\ UNCHANGED calls

VMMR3EmtRendezvous(c, fl) ==
  /\ At(c, "idle") /\ calls < MaxCalls
  /\ calls' = calls + 1
  /\ IF lock = NoCpu
     THEN /\ lock' = c
          /\ emt' = [emt EXCEPT ![c] = [Home EXCEPT !.pc = "slate", !.fl = fl]]
     ELSE /\ emt' = [emt EXCEPT ![c] = [Home EXCEPT !.pc = "spin", !.want = fl]]
          /\ UNCHANGED lock
  /\ UNCHANGED <<ff, armed, flags, status, Counters, Events, fIn, told>>

SpinLock(c) ==
  /\ At(c, "spin") /\ TryLock(c, emt[c].want)
  /\ UNCHANGED <<ff, armed, flags, status, Counters, Events, fIn, told>>

\* Mutant: the returned counter of the last rendezvous is kept.
SlateNoReturned == cEntered' = 0 /\ cDone' = 0 /\ UNCHANGED cReturned
SlateCounters == cEntered' = 0 /\ cDone' = 0 /\ cReturned' = 0

\* "Clear the slate."  Nobody else looks at any of it: the FF is down.
ClearSlate(c) ==
  /\ At(c, "slate")
  /\ fIn' = [fIn EXCEPT ![c] = TRUE]
  /\ enterOne' = FALSE /\ enterAll' = FALSE /\ enterOrd' = [d \in Cpus |-> FALSE]
  /\ evtDone' = FALSE /\ evtCaller' = FALSE
  /\ SlateCounters
  /\ status' = 0
  /\ armed' = TRUE /\ flags' = emt[c].fl
  /\ Goto(c, "raise")
  /\ UNCHANGED <<lock, ff, told, calls>>

\* VM_FF_SET; VMR3NotifyGlobalFFU makes every EMT look at the FF.
Raise(c) ==
  /\ At(c, "raise")
  /\ ff' = TRUE
  /\ emt' = [emt EXCEPT ![c].pc = "enter", ![c].caller = TRUE]
  /\ UNCHANGED <<Shared, status, Counters, Events, fIn, told, calls>>

\* VMMR3EmtRendezvousFF, from the inner loops of the EMT or from the spin loop.
VMMR3EmtRendezvousFF(c) ==
  /\ ff /\ emt[c].pc \in {"idle", "spin"}
  /\ fIn' = [fIn EXCEPT ![c] = TRUE]
  /\ emt' = [emt EXCEPT ![c].pc = "enter", ![c].caller = FALSE, ![c].fl = flags]
  /\ UNCHANGED <<Shared, ff, status, Counters, Events, told, calls>>

-----------------------------------------------------------------------------
(* vmmR3EmtRendezvousCommon. *)

\* What an EMT that is not the last to come waits for.
WaitFor(c) ==
  CASE emt[c].fl.type = "ONE_BY_ONE"  -> "waitOne"
    [] emt[c].fl.type = "ALL_AT_ONCE" -> "waitAll"
    [] emt[c].fl.type \in Ordered     -> "waitOrd"
    [] emt[c].fl.type = "ONCE"        -> IF emt[c].caller THEN "waitCaller" ELSE "waitDone"

Enter(c) ==
  /\ At(c, "enter")
  /\ cEntered' = cEntered + 1
  /\ Goto(c, IF cEntered + 1 # cCpus THEN WaitFor(c) ELSE "last")
  /\ UNCHANGED <<Shared, ff, status, cDone, cReturned, Events, fIn, told, calls>>

\* Mutant: both orders start at the wrong end.
FirstSwapped(type) == IF type = "ASCENDING" THEN cCpus - 1 ELSE 0
First(type) == IF type = "ASCENDING" THEN 0 ELSE cCpus - 1

\* The last EMT to come clears the FF and starts the callbacks.
Last(c) ==
  LET type == emt[c].fl.type
      other == type \in Ordered /\ c # First(type)
  IN  /\ At(c, "last")
      /\ ff' = FALSE
      /\ enterAll' = (enterAll \/ type = "ALL_AT_ONCE")
      /\ enterOrd' = IF other THEN [enterOrd EXCEPT ![First(type)] = TRUE] ELSE enterOrd
      /\ Goto(c, IF other THEN "waitOrd" ELSE "turn")
      /\ UNCHANGED <<Shared, status, Counters, enterOne, evtDone, evtCaller, fIn, told, calls>>

\* A wait for the turn ends; the events but the one of ALL_AT_ONCE reset themselves.
WaitTurn(c) ==
  /\ \/ /\ At(c, "waitOne") /\ enterOne /\ enterOne' = FALSE
        /\ UNCHANGED <<enterAll, enterOrd>>
     \/ At(c, "waitAll") /\ enterAll /\ UNCHANGED <<enterOne, enterAll, enterOrd>>
     \/ /\ At(c, "waitOrd") /\ enterOrd[c] /\ enterOrd' = [enterOrd EXCEPT ![c] = FALSE]
        /\ UNCHANGED <<enterOne, enterAll>>
  /\ Goto(c, "turn")
  /\ UNCHANGED <<Shared, ff, status, Counters, evtDone, evtCaller, fIn, told, calls>>

\* The callback is left out after an error if the flags say so.
Check(c) ==
  /\ At(c, "turn")
  /\ Goto(c, IF emt[c].fl.stop /\ Failed(status) THEN "done" ELSE "callback")
  /\ UNCHANGED <<Shared, ff, status, Counters, Events, fIn, told, calls>>

Callback(c) ==
  /\ At(c, "callback")
  /\ \E rc \in Results :
       emt' = [emt EXCEPT ![c].pc = IF rc # 0 THEN "merge" ELSE "done", ![c].rc = rc]
  /\ UNCHANGED <<Shared, ff, status, Counters, Events, fIn, told, calls>>

\* The result is left out: the status is the same, an error, or comes before it.
Keeps(rc) == rc = status \/ Failed(status) \/ (status # 0 /\ rc > status)

MergeRead(c) ==
  /\ At(c, "merge")
  /\ emt' = [emt EXCEPT ![c].pc = IF Keeps(emt[c].rc) THEN "done" ELSE "cas", ![c].old = status]
  /\ UNCHANGED <<Shared, ff, status, Counters, Events, fIn, told, calls>>

\* Mutant: the status is written without a compare.
MergeBlind(c) ==
  /\ At(c, "cas")
  /\ status' = emt[c].rc /\ Goto(c, "done")
  /\ UNCHANGED <<Shared, ff, Counters, Events, fIn, told, calls>>
MergeCas(c) ==
  /\ At(c, "cas")
  /\ IF status = emt[c].old
     THEN status' = emt[c].rc /\ Goto(c, "done")
     ELSE Goto(c, "merge") /\ UNCHANGED status
  /\ UNCHANGED <<Shared, ff, Counters, Events, fIn, told, calls>>

\* The next EMT of an ordered type.
NextOne(c) == IF emt[c].fl.type = "ASCENDING" THEN c + 1 ELSE cCpus - (cDone + 1) - 1

\* Mutant: the last EMT of ONE_BY_ONE signals the event as well.
SignalTooOften(c) == emt[c].fl.type = "ONE_BY_ONE"
SignalsOne(c) == emt[c].fl.type = "ONE_BY_ONE" /\ cDone + 1 # cCpus

Done(c) ==
  LET over == cDone + 1 = cCpus \/ emt[c].fl.type = "ONCE"
  IN  /\ At(c, "done")
      /\ cDone' = cDone + 1
      /\ enterOne' = (enterOne \/ SignalsOne(c))
      /\ enterOrd' = IF ~over /\ emt[c].fl.type \in Ordered
                     THEN [enterOrd EXCEPT ![NextOne(c)] = TRUE] ELSE enterOrd
      /\ evtDone' = (evtDone \/ over)
      /\ Goto(c, IF emt[c].caller THEN "waitCaller" ELSE IF over THEN "read" ELSE "waitDone")
      /\ UNCHANGED <<Shared, ff, status, cEntered, cReturned, enterAll, evtCaller, fIn, told, calls>>

WaitDone(c) ==
  /\ At(c, "waitDone") /\ evtDone
  /\ Goto(c, "read")
  /\ UNCHANGED <<Shared, ff, status, Counters, Events, fIn, told, calls>>

-----------------------------------------------------------------------------
(* Leaving. *)

\* vmmR3EmtRendezvousNonCallerReturn: the status is read before the counter is
\* incremented, since the caller may start again after that.
ReturnRead(c) ==
  /\ At(c, "read")
  /\ emt' = [emt EXCEPT ![c].pc = "return", ![c].rc = IF Failed(status) THEN 0 ELSE status]
  /\ UNCHANGED <<Shared, ff, status, Counters, Events, fIn, told, calls>>

\* Mutant: the caller is counted too.
Others == cCpus
AllOthers == cCpus - 1

Return(c) ==
  /\ At(c, "return")
  /\ cReturned' = cReturned + 1
  /\ evtCaller' = (evtCaller \/ cReturned + 1 = AllOthers)
  /\ told' = [told EXCEPT ![c] = emt[c].rc]
  /\ Goto(c, "leave")
  /\ UNCHANGED <<Shared, ff, status, cEntered, cDone, enterOne, enterAll, enterOrd, evtDone, fIn, calls>>

WaitCaller(c) ==
  /\ At(c, "waitCaller") /\ evtCaller
  /\ evtCaller' = FALSE
  /\ Goto(c, "cleanup")
  /\ UNCHANGED <<Shared, ff, status, Counters, enterOne, enterAll, enterOrd, evtDone, fIn, told, calls>>

Cleanup(c) ==
  /\ At(c, "cleanup")
  /\ told' = [told EXCEPT ![c] = status]
  /\ armed' = FALSE /\ lock' = NoCpu
  /\ Goto(c, "leave")
  /\ UNCHANGED <<ff, flags, status, Counters, Events, fIn, calls>>

\* The EMT is out, and goes back to the spin loop if it came from there.
Leave(c) ==
  /\ At(c, "leave")
  /\ fIn' = [fIn EXCEPT ![c] = FALSE]
  /\ emt' = [emt EXCEPT ![c] = [Home EXCEPT !.want = emt[c].want,
                                            !.pc = IF emt[c].want # NoFlags THEN "spin" ELSE "idle"]]
  /\ UNCHANGED <<Shared, ff, status, Counters, Events, told, calls>>

-----------------------------------------------------------------------------
Step(c) ==
  \/ SpinLock(c) \/ ClearSlate(c) \/ Raise(c) \/ VMMR3EmtRendezvousFF(c) \/ Enter(c)
  \/ Last(c) \/ WaitTurn(c) \/ Check(c) \/ Callback(c) \/ MergeRead(c) \/ MergeCas(c)
  \/ Done(c) \/ WaitDone(c) \/ ReturnRead(c) \/ Return(c) \/ WaitCaller(c) \/ Cleanup(c)
  \/ Leave(c)

Next == \E c \in Cpus : Step(c) \/ \E fl \in Requests : VMMR3EmtRendezvous(c, fl)

Spec == Init /\ [][Next]_vars

\* An EMT looks at the FFs again and again, and a callback returns; nobody has to
\* make a call.  The lock is a spin lock: an EMT may in theory never get it, but
\* each time it is free somebody does, and the calls are bounded.
LiveSpec == Spec /\ \A c \in Cpus : WF_vars(Step(c))

-----------------------------------------------------------------------------
(* Properties. *)

Turning == {"turn", "callback", "merge", "cas", "done"}
Entered == {"last", "waitOne", "waitAll", "waitOrd", "waitDone", "waitCaller", "read",
            "return", "cleanup"} \cup Turning
Pcs == {"idle", "spin", "slate", "raise", "enter", "leave"} \cup Entered
EmtType == [pc : Pcs, want : Requests \cup {NoFlags}, caller : BOOLEAN, fl : Requests \cup {NoFlags},
            rc : Results, old : Results]

\* The types: a counter never passes the number of CPUs, and every EMT is at a
\* place of the code with the locals it may have there.
TypeOK ==
  /\ lock \in Cpus \cup {NoCpu} /\ ff \in BOOLEAN /\ armed \in BOOLEAN
  /\ flags \in Requests \cup {NoFlags} /\ status \in Results
  /\ cEntered \in 0 .. cCpus /\ cDone \in 0 .. cCpus /\ cReturned \in 0 .. cCpus
  /\ enterOne \in BOOLEAN /\ enterAll \in BOOLEAN /\ enterOrd \in [Cpus -> BOOLEAN]
  /\ evtDone \in BOOLEAN /\ evtCaller \in BOOLEAN
  /\ fIn \in [Cpus -> BOOLEAN] /\ emt \in [Cpus -> EmtType]
  /\ told \in [Cpus -> Results] /\ calls \in 0 .. MaxCalls

Inside == {c \in Cpus : emt[c].pc \in Entered}
Count(l) == Cardinality({c \in Cpus : emt[c].pc \in l})

\* The counters tell who is inside, although every rendezvous shares them.
CountersMatch ==
  armed =>
    /\ cEntered = Cardinality(Inside) + cReturned
    /\ ~(\E c \in Cpus : At(c, "slate"))
    /\ \A c \in Inside \cup {d \in Cpus : At(d, "enter")} : fIn[c] /\ emt[c].fl = flags

\* The assertions of the code: a new rendezvous starts with the FF down, nobody is
\* in two at a time, and the ordered types run in order.
AssertionsHold ==
  \A c \in Cpus :
    /\ At(c, "slate") => ~ff /\ ~fIn[c]
    /\ emt[c].pc \in {"idle", "spin"} => ~fIn[c]
    /\ At(c, "done") /\ emt[c].fl.type = "ASCENDING" => cDone = c
    /\ At(c, "done") /\ emt[c].fl.type = "DESCENDING" => cDone = cCpus - 1 - c

\* "This makes away with wakeup / reset races": one rendezvous never meets what is
\* left of another, in its counters, its flag, its flags or its EMTs, whatever the
\* caller has cleared while others are still on their way out.
KeptApart == CountersMatch /\ AssertionsHold

\* In a rendezvous of one EMT at a time exactly one has the turn or was given it:
\* no wake-up is lost and none is left over for a later rendezvous.
OneTurn ==
  LET signalled == (IF enterOne THEN 1 ELSE 0) + Cardinality({c \in Cpus : enterOrd[c]})
  IN  IF armed /\ flags.type \notin {"ALL_AT_ONCE", "ONCE"} /\ cEntered = cCpus /\ cDone < cCpus
      THEN Count(Turning \cup {"last"}) + signalled = 1
      ELSE armed => signalled = 0

-----------------------------------------------------------------------------
(* The rendezvous implements a gathering. *)

Phase == CASE ~armed                          -> "none"
           [] armed /\ cEntered < cCpus       -> "gather"
           [] armed /\ cEntered = cCpus /\ ~evtDone -> "run"
           [] armed /\ evtDone                -> "leave"

Place(c) ==
  CASE emt[c].pc \notin Entered               -> "away"
    [] emt[c].pc \in Entered /\ (evtDone \/ At(c, "done")) -> "ran"
    [] emt[c].pc \in {"callback", "merge", "cas"} -> "running"
    [] emt[c].pc \in {"waitDone", "waitCaller"} /\ ~evtDone ->
         IF flags.type = "ONCE" THEN "here" ELSE "ran"
    [] OTHER                                  -> "here"

Promise == INSTANCE Gathering WITH
  phase <- Phase,
  flags <- flags,
  place <- [c \in Cpus |-> Place(c)],
  status <- status,
  told <- told

\* Whatever the order in which the EMTs come, spin and are woken, the rendezvous
\* is a gathering: no callback runs while an EMT is away, each runs it once and in
\* order, nobody leaves early, and all are told the status of their own rendezvous.
ImplementsGathering == Promise!Spec

\* Every call returns, and every EMT that was called to a rendezvous gets out.
CallsReturn == \A c \in Cpus : ~At(c, "idle") ~> At(c, "idle")
=============================================================================
