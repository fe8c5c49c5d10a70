----------------------------- MODULE PDMThread -----------------------------
(***************************************************************************)
(* PDM threads: the threads of devices and drivers that run while the VM   *)
(* runs (VBox/VMM/VMMR3/PDMThread.cpp, VBox/vmm/pdmthread.h).              *)
(*                                                                         *)
(* An EMT creates, suspends, resumes and destroys them, one operation at a *)
(* time; a state that both sides change by compare-and-swap says what is   *)
(* asked of a thread, and three events make the two wait for each other:   *)
(* the thread's user event on which the EMT waits, the block event of a    *)
(* suspended thread and the sleep event of a sleeping one.  The thread     *)
(* functions are "simple": they return when they see a request.            *)
(***************************************************************************)
EXTENDS Naturals, Sequences, SequencesExt

CONSTANTS
  Threads,     \* the PDM threads
  MaxCalls,    \* bound on the number of control operations
  MaxTimeouts, \* bound on the number of waits of an EMT that time out
  MaxFailures, \* bound on the number of thread functions that fail
  NoThread

ASSUME NoThreadAssumption == NoThread \notin Threads
ASSUME BoundAssumption == MaxCalls \in Nat /\ MaxTimeouts \in Nat /\ MaxFailures \in Nat

VARIABLES
  enmState,   \* PDMTHREADSTATE of each thread
  BlockEvent, \* the event a suspended thread waits for
  SleepEvent, \* the event of PDMR3ThreadSleep
  userEvent,  \* the user event of the IPRT thread
  thr,        \* where each thread is, and the state as it last read it
  pThreads,   \* the list, in the order of creation
  emt,        \* where the EMT is in its operation
  told,       \* what the last operation on each thread told its caller
  why,        \* history: what happened to a thread that explains a failure
  calls, timeouts, failures

events == <<BlockEvent, SleepEvent, userEvent>>
counts == <<calls, timeouts, failures>>
vars == <<enmState, events, thr, pThreads, emt, told, why, counts>>

States == {"INVALID", "INITIALIZING", "SUSPENDING", "SUSPENDED", "RESUMING", "RUNNING",
           "TERMINATING", "TERMINATED"}

Gone == [pc |-> "gone", old |-> "INVALID"]
EmtIdle == [pc |-> "idle", op |-> "none", t |-> NoThread, todo |-> <<>>, ok |-> TRUE]

Init ==
  /\ enmState = [t \in Threads |-> "INVALID"]
  /\ BlockEvent = [t \in Threads |-> FALSE]
  /\ SleepEvent = [t \in Threads |-> FALSE]
  /\ userEvent = [t \in Threads |-> FALSE]
  /\ thr = [t \in Threads |-> Gone]
  /\ pThreads = <<>>
  /\ emt = EmtIdle
  /\ told = [t \in Threads |-> "gone"]
  /\ why = [t \in Threads |-> {}]
  /\ calls = 0 /\ timeouts = 0 /\ failures = 0

EmtAt(op, l) == emt.op = op /\ emt.pc = l
EmtGoto(l) == emt' = [emt EXCEPT !.pc = l]
EmtFail == emt' = [emt EXCEPT !.pc = "bail", !.ok = FALSE]
CasState(t, old, new) == enmState[t] = old /\ enmState' = [enmState EXCEPT ![t] = new]
Set(event, t) == event' = [event EXCEPT ![t] = TRUE]
Reset(event, t) == event' = [event EXCEPT ![t] = FALSE]
DestroyEvents(t) == Reset(BlockEvent, t) /\ Reset(SleepEvent, t) /\ Reset(userEvent, t)

-----------------------------------------------------------------------------
(* The EMT calls an operation. *)

Alive == ToSet(pThreads)

Call(op, t, todo) ==
  /\ emt = EmtIdle /\ calls < MaxCalls /\ calls' = calls + 1
  /\ emt' = [pc |-> "start", op |-> op, t |-> t, todo |-> todo, ok |-> TRUE]

\* pdmR3ThreadNew and pdmR3ThreadInit up to the wait: the thread starts to run.
PDMR3ThreadCreate(t) ==
  /\ thr[t] = Gone
  /\ Call("init", t, <<>>)
  /\ enmState' = [enmState EXCEPT ![t] = "INITIALIZING"]
  /\ thr' = [thr EXCEPT ![t] = [pc |-> "function", old |-> "INVALID"]]
  /\ told' = [told EXCEPT ![t] = "changing"]
  /\ why' = [why EXCEPT ![t] = {}]
  /\ UNCHANGED <<events, pThreads, timeouts, failures>>

\* A device or driver suspends what runs, resumes what it has suspended, and
\* destroys what it likes.
CallOne(t) ==
  /\ t \in Alive
  /\ \/ told[t] \in {"running", "suspended"} /\ Call("suspend", t, <<>>)
     \/ told[t] = "suspended" /\ Call("resume", t, <<>>)
     \/ Call("destroy", t, <<>>)
  /\ told' = [told EXCEPT ![t] = "changing"]
  /\ UNCHANGED <<enmState, events, thr, pThreads, why, timeouts, failures>>

\* pdmR3ThreadSuspendAll, pdmR3ThreadResumeAll and pdmR3ThreadDestroyAll.
CallAll ==
  /\ pThreads # <<>>
  /\ \E op \in {"suspendAll", "resumeAll", "destroyAll"} : Call(op, NoThread, pThreads)
  /\ UNCHANGED <<enmState, events, thr, pThreads, told, why, timeouts, failures>>

\* The state for which SuspendAll and ResumeAll do something.
Asks(op, t) ==
  CASE op = "suspendAll" -> enmState[t] = "RUNNING"
    [] op = "resumeAll"  -> enmState[t] = "SUSPENDED"
    [] op = "destroyAll" -> TRUE

\* The next thread of the list.
NextThread ==
  LET t == Head(emt.todo)
  IN  /\ emt.op \in {"suspendAll", "resumeAll", "destroyAll"} /\ emt.pc = "start"
      /\ emt.t = NoThread /\ emt.todo # <<>>
      /\ IF Asks(emt.op, t)
         THEN emt' = [emt EXCEPT !.t = t, !.todo = Tail(@)] /\ told' = [told EXCEPT ![t] = "changing"]
         ELSE emt' = [emt EXCEPT !.todo = Tail(@)] /\ UNCHANGED told
      /\ UNCHANGED <<enmState, events, thr, pThreads, why, counts>>

AllDone ==
  /\ emt.op \in {"suspendAll", "resumeAll", "destroyAll"} /\ emt.pc = "start"
  /\ emt.t = NoThread /\ emt.todo = <<>>
  /\ emt' = EmtIdle
  /\ UNCHANGED <<enmState, events, thr, pThreads, told, why, counts>>

\* An operation on one thread is over; after a failure AssertRCReturn leaves the
\* loops of SuspendAll and ResumeAll.
Return(t, result) ==
  /\ emt' = IF emt.todo # <<>> /\ (emt.ok \/ emt.op = "destroyAll")
            THEN [emt EXCEPT !.pc = "start", !.t = NoThread, !.ok = TRUE] ELSE EmtIdle
  /\ told' = [told EXCEPT ![t] = result]

Suspends == emt.op \in {"suspend", "suspendAll"}
Resumes == emt.op \in {"resume", "resumeAll"}
Destroys == emt.op \in {"destroy", "destroyAll"}
At(t, l) == emt.t = t /\ emt.pc = l

-----------------------------------------------------------------------------
(* pdmR3ThreadInit, after RTThreadCreate. *)

\* RTThreadUserWait.
InitWait(t) ==
  /\ emt.op = "init" /\ At(t, "start") /\ userEvent[t]
  /\ EmtGoto(IF enmState[t] = "SUSPENDED" THEN "insert" ELSE "join")
  /\ UNCHANGED <<enmState, events, thr, pThreads, told, why, counts>>

InitInsert(t) ==
  /\ emt.op = "init" /\ At(t, "insert")
  /\ pThreads' = Append(pThreads, t)
  /\ Reset(userEvent, t)
  /\ Return(t, "suspended")
  /\ UNCHANGED <<enmState, BlockEvent, SleepEvent, thr, why, counts>>

\* The bailout: RTThreadWait and the end of the structure.
InitJoin(t) ==
  /\ emt.op = "init" /\ At(t, "join") /\ thr[t].pc = "exited"
  /\ enmState' = [enmState EXCEPT ![t] = "INVALID"]
  /\ thr' = [thr EXCEPT ![t] = Gone]
  /\ DestroyEvents(t)
  /\ Return(t, "gone")
  /\ UNCHANGED <<pThreads, why, counts>>

-----------------------------------------------------------------------------
(* PDMR3ThreadSuspend. *)

SuspendStart(t) ==
  /\ Suspends /\ At(t, "start")
  /\ IF enmState[t] = "SUSPENDED"
     THEN Return(t, "suspended") /\ UNCHANGED BlockEvent
     ELSE Reset(BlockEvent, t) /\ EmtGoto("resetUser") /\ UNCHANGED told
  /\ UNCHANGED <<enmState, SleepEvent, userEvent, thr, pThreads, why, counts>>

SuspendResetUser(t) ==
  /\ Suspends /\ At(t, "resetUser")
  /\ Reset(userEvent, t)
  /\ EmtGoto("ask")
  /\ UNCHANGED <<enmState, BlockEvent, SleepEvent, thr, pThreads, told, why, counts>>

SuspendAsk(t) ==
  /\ Suspends /\ At(t, "ask")
  /\ \/ CasState(t, "RUNNING", "SUSPENDING") /\ EmtGoto("wake")
     \/ enmState[t] # "RUNNING" /\ EmtFail /\ UNCHANGED enmState
  /\ UNCHANGED <<events, thr, pThreads, told, why, counts>>

\* Mutant: only the callback of the device is called.
NoSignal(t) == UNCHANGED SleepEvent
SignalSleep(t) == Set(SleepEvent, t)

\* pdmR3ThreadWakeUp: the sleep event and the callback of the device.
SuspendWake(t) ==
  /\ Suspends /\ At(t, "wake")
  /\ SignalSleep(t)
  /\ EmtGoto("look")
  /\ UNCHANGED <<enmState, BlockEvent, userEvent, thr, pThreads, told, why, counts>>

\* The wait is left out when the thread is already suspended; the signal it is
\* about to give is then "late".
SuspendLook(t) ==
  /\ Suspends /\ At(t, "look")
  /\ IF enmState[t] # "SUSPENDED"
     THEN EmtGoto("wait") /\ UNCHANGED why
     ELSE /\ EmtGoto("verify")
          /\ why' = [why EXCEPT ![t] = IF thr[t].pc = "signalSuspended" THEN @ \cup {"late"} ELSE @]
  /\ UNCHANGED <<enmState, events, thr, pThreads, told, counts>>

\* RTThreadUserWait of Suspend and Resume, which does not reset the event.
UserWait(t) ==
  /\ Suspends \/ Resumes
  /\ At(t, "wait") /\ userEvent[t]
  /\ EmtGoto("verify")
  /\ UNCHANGED <<enmState, events, thr, pThreads, told, why, counts>>

\* After 60 seconds.
UserWaitTimeout(t) ==
  /\ Suspends \/ Resumes
  /\ At(t, "wait") /\ ~userEvent[t]
  /\ timeouts < MaxTimeouts /\ timeouts' = timeouts + 1
  /\ EmtFail
  /\ why' = [why EXCEPT ![t] = @ \cup {"timeout"}]
  /\ UNCHANGED <<enmState, events, thr, pThreads, told, calls, failures>>

IsSuspended(t) == enmState[t] = "SUSPENDED"

SuspendVerify(t) ==
  /\ Suspends /\ At(t, "verify")
  /\ IF IsSuspended(t) THEN Return(t, "suspended") ELSE EmtFail /\ UNCHANGED told
  /\ UNCHANGED <<enmState, events, thr, pThreads, why, counts>>

-----------------------------------------------------------------------------
(* PDMR3ThreadResume. *)

\* Mutant: the user event is not reset.
KeepUser(t) == UNCHANGED userEvent
ResetUser(t) == Reset(userEvent, t)

ResumeStart(t) ==
  /\ Resumes /\ At(t, "start")
  /\ ResetUser(t)
  /\ EmtGoto("ask")
  /\ UNCHANGED <<enmState, BlockEvent, SleepEvent, thr, pThreads, told, why, counts>>

ResumeAsk(t) ==
  /\ Resumes /\ At(t, "ask")
  /\ \/ CasState(t, "SUSPENDED", "RESUMING") /\ EmtGoto("wake")
     \/ enmState[t] # "SUSPENDED" /\ EmtFail /\ UNCHANGED enmState
  /\ UNCHANGED <<events, thr, pThreads, told, why, counts>>

ResumeWake(t) ==
  /\ Resumes /\ At(t, "wake")
  /\ Set(BlockEvent, t)
  /\ EmtGoto("wait")
  /\ UNCHANGED <<enmState, SleepEvent, userEvent, thr, pThreads, told, why, counts>>

ResumeVerify(t) ==
  /\ Resumes /\ At(t, "verify")
  /\ IF enmState[t] = "RUNNING" THEN Return(t, "running") ELSE EmtFail /\ UNCHANGED told
  /\ UNCHANGED <<enmState, events, thr, pThreads, why, counts>>

\* pdmR3ThreadBailOut, at the end of a Suspend or Resume that failed.
BailOut(t) ==
  /\ At(t, "bail")
  /\ IF enmState[t] \in {"SUSPENDING", "SUSPENDED", "RESUMING", "RUNNING"}
     THEN /\ enmState' = [enmState EXCEPT ![t] = "TERMINATING"]
          /\ EmtGoto(CASE enmState[t] = "RUNNING"  -> "bailWake"
                       [] enmState[t] = "RESUMING" -> "bailed"
                       [] OTHER                    -> "bailUnblock")
     ELSE EmtGoto("bailed") /\ UNCHANGED enmState
  /\ UNCHANGED <<events, thr, pThreads, told, why, counts>>

BailKick(t) ==
  /\ \/ At(t, "bailWake") /\ Set(SleepEvent, t) /\ UNCHANGED BlockEvent
     \/ At(t, "bailUnblock") /\ Set(BlockEvent, t) /\ UNCHANGED SleepEvent
  /\ EmtGoto("bailed")
  /\ UNCHANGED <<enmState, userEvent, thr, pThreads, told, why, counts>>

Bailed(t) ==
  /\ At(t, "bailed")
  /\ Return(t, "failed")
  /\ UNCHANGED <<enmState, events, thr, pThreads, why, counts>>

-----------------------------------------------------------------------------
(* PDMR3ThreadDestroy. *)

DestroyStart(t) ==
  /\ Destroys /\ At(t, "start")
  /\ IF enmState[t] \in {"TERMINATING", "TERMINATED"}
     THEN EmtGoto("unblock") /\ UNCHANGED enmState
     ELSE /\ enmState' = [enmState EXCEPT ![t] = "TERMINATING"]
          /\ EmtGoto(IF enmState[t] = "RUNNING" THEN "wake" ELSE "unblock")
  /\ UNCHANGED <<events, thr, pThreads, told, why, counts>>

DestroyWake(t) ==
  /\ Destroys /\ At(t, "wake")
  /\ Set(SleepEvent, t)
  /\ EmtGoto("unblock")
  /\ UNCHANGED <<enmState, BlockEvent, userEvent, thr, pThreads, told, why, counts>>

DestroyUnblock(t) ==
  /\ Destroys /\ At(t, "unblock")
  /\ Set(BlockEvent, t)
  /\ EmtGoto("join")
  /\ UNCHANGED <<enmState, SleepEvent, userEvent, thr, pThreads, told, why, counts>>

\* Mutant: the structure is freed once the state says that the thread is over.
SaysOver(t) == enmState[t] = "TERMINATED"
HasExited(t) == thr[t].pc = "exited"

\* Mutant: the thread stays in the list.
StillLinked(t) == pThreads
Unlinked(t) ==
  LET i == CHOOSE j \in DOMAIN pThreads : pThreads[j] = t
  IN  SubSeq(pThreads, 1, i - 1) \o SubSeq(pThreads, i + 1, Len(pThreads))

\* RTThreadWait; the thread is unlinked and freed.
DestroyJoin(t) ==
  /\ Destroys /\ At(t, "join") /\ HasExited(t)
  /\ enmState' = [enmState EXCEPT ![t] = "INVALID"]
  /\ thr' = [thr EXCEPT ![t] = IF @.pc = "exited" THEN Gone ELSE @]
  /\ pThreads' = Unlinked(t)
  /\ DestroyEvents(t)
  /\ Return(t, "gone")
  /\ UNCHANGED <<why, counts>>

\* The thread does not end within 60 seconds: it stays in the list.
DestroyTimeout(t) ==
  /\ Destroys /\ At(t, "join") /\ ~HasExited(t)
  /\ timeouts < MaxTimeouts /\ timeouts' = timeouts + 1
  /\ why' = [why EXCEPT ![t] = @ \cup {"timeout"}]
  /\ Return(t, "failed")
  /\ UNCHANGED <<enmState, events, thr, pThreads, calls, failures>>

-----------------------------------------------------------------------------
(* The thread: pdmR3ThreadMain. *)

ThrAt(t, l) == thr[t].pc = l
Goto(t, l) == thr' = [thr EXCEPT ![t].pc = l]

\* The thread function looks at the state: it works or sleeps while that is
\* RUNNING, else it returns; it may fail.
Function(t) ==
  /\ ThrAt(t, "function")
  /\ Goto(t, IF enmState[t] = "RUNNING" THEN "work" ELSE "returned")
  /\ UNCHANGED <<enmState, events, pThreads, emt, told, why, counts>>

Work(t) ==
  /\ ThrAt(t, "work")
  /\ Goto(t, "function")
  /\ UNCHANGED <<enmState, events, pThreads, emt, told, why, counts>>

FunctionFails(t) ==
  /\ thr[t].pc \in {"function", "work"}
  /\ failures < MaxFailures /\ failures' = failures + 1
  /\ Goto(t, "exit")
  /\ why' = [why EXCEPT ![t] = @ \cup {"failed"}]
  /\ UNCHANGED <<enmState, events, pThreads, emt, told, calls, timeouts>>

\* PDMR3ThreadSleep: the event is reset before the state is looked at.
PDMR3ThreadSleep(t) ==
  /\ ThrAt(t, "work")
  /\ Reset(SleepEvent, t)
  /\ Goto(t, "sleepLook")
  /\ UNCHANGED <<enmState, BlockEvent, userEvent, pThreads, emt, told, why, counts>>

SleepLook(t) ==
  /\ ThrAt(t, "sleepLook")
  /\ Goto(t, IF enmState[t] # "RUNNING" THEN "function" ELSE "asleep")
  /\ UNCHANGED <<enmState, events, pThreads, emt, told, why, counts>>

SleepEnds(t) ==
  /\ ThrAt(t, "asleep") /\ SleepEvent[t]
  /\ Goto(t, "function")
  /\ UNCHANGED <<enmState, events, pThreads, emt, told, why, counts>>

SleepTimeout(t) ==
  /\ ThrAt(t, "asleep")
  /\ Goto(t, "function")
  /\ UNCHANGED <<enmState, events, pThreads, emt, told, why, counts>>

\* Mutant: whatever stopped the function is taken for a request to suspend.
AskedToStop(t) == enmState[t] # "RUNNING"
AskedToSuspend(t) == enmState[t] \in {"SUSPENDING", "INITIALIZING"}

\* "If this is a simple thread function, the state will be suspending or
\* initializing now."
Returned(t) ==
  /\ ThrAt(t, "returned")
  /\ Goto(t, IF AskedToSuspend(t) THEN "read" ELSE "exit")
  /\ UNCHANGED <<enmState, events, pThreads, emt, told, why, counts>>

\* PDMR3ThreadIAmSuspending reads the state once more, and does not look at it.
SuspendingRead(t) ==
  /\ ThrAt(t, "read")
  /\ thr' = [thr EXCEPT ![t] = [pc |-> "suspend", old |-> enmState[t]]]
  /\ UNCHANGED <<enmState, events, pThreads, emt, told, why, counts>>

SuspendingCas(t) ==
  /\ ThrAt(t, "suspend")
  /\ \/ CasState(t, thr[t].old, "SUSPENDED") /\ Goto(t, "signalSuspended")
     \/ enmState[t] # thr[t].old /\ Goto(t, "bailMeOut") /\ UNCHANGED enmState
  /\ UNCHANGED <<events, pThreads, emt, told, why, counts>>

\* RTThreadUserSignal of PDMR3ThreadIAmSuspending and PDMR3ThreadIAmRunning.
Signal(t) ==
  /\ \/ ThrAt(t, "signalSuspended") /\ Goto(t, "blocked")
     \/ ThrAt(t, "signalRunning") /\ Goto(t, "function")
  /\ Set(userEvent, t)
  /\ UNCHANGED <<enmState, BlockEvent, SleepEvent, pThreads, emt, told, why, counts>>

Blocked(t) ==
  /\ ThrAt(t, "blocked") /\ BlockEvent[t]
  /\ Goto(t, IF enmState[t] # "SUSPENDED" THEN "resumed" ELSE "bailMeOut")
  /\ UNCHANGED <<enmState, events, pThreads, emt, told, why, counts>>

\* Back in pdmR3ThreadMain, and on to PDMR3ThreadIAmRunning.
Resumed(t) ==
  /\ ThrAt(t, "resumed")
  /\ Goto(t, IF enmState[t] = "RESUMING" THEN "run" ELSE "exit")
  /\ UNCHANGED <<enmState, events, pThreads, emt, told, why, counts>>

PDMR3ThreadIAmRunning(t) ==
  /\ ThrAt(t, "run")
  /\ \/ CasState(t, "RESUMING", "RUNNING") /\ Goto(t, "signalRunning")
     \/ enmState[t] # "RESUMING" /\ Goto(t, "bailMeOut") /\ UNCHANGED enmState
  /\ UNCHANGED <<events, pThreads, emt, told, why, counts>>

\* pdmR3ThreadBailMeOut and the loop at the end of pdmR3ThreadMain.
Exit(t) ==
  /\ \/ ThrAt(t, "bailMeOut") /\ Goto(t, "exit")
     \/ ThrAt(t, "exit") /\ Goto(t, "terminated")
  /\ enmState' = [enmState EXCEPT ![t] = "TERMINATING"]
  /\ UNCHANGED <<events, pThreads, emt, told, why, counts>>

Terminated(t) ==
  /\ ThrAt(t, "terminated")
  /\ enmState' = [enmState EXCEPT ![t] = "TERMINATED"]
  /\ Goto(t, "signalTerminated")
  /\ UNCHANGED <<events, pThreads, emt, told, why, counts>>

SignalTerminated(t) ==
  /\ ThrAt(t, "signalTerminated")
  /\ Set(userEvent, t)
  /\ Goto(t, "exited")
  /\ UNCHANGED <<enmState, BlockEvent, SleepEvent, pThreads, emt, told, why, counts>>

-----------------------------------------------------------------------------
Control(t) ==
  \/ InitWait(t) \/ InitInsert(t) \/ InitJoin(t)
  \/ SuspendStart(t) \/ SuspendResetUser(t) \/ SuspendAsk(t) \/ SuspendWake(t)
  \/ SuspendLook(t) \/ UserWait(t) \/ SuspendVerify(t)
  \/ ResumeStart(t) \/ ResumeAsk(t) \/ ResumeWake(t) \/ ResumeVerify(t)
  \/ BailOut(t) \/ BailKick(t) \/ Bailed(t)
  \/ DestroyStart(t) \/ DestroyWake(t) \/ DestroyUnblock(t) \/ DestroyJoin(t)

Emt == NextThread \/ AllDone \/ \E t \in Threads : Control(t)

Main(t) ==
  \/ Function(t) \/ Work(t) \/ SleepLook(t) \/ SleepEnds(t) \/ Returned(t)
  \/ SuspendingRead(t) \/ SuspendingCas(t) \/ Signal(t) \/ Blocked(t) \/ Resumed(t)
  \/ PDMR3ThreadIAmRunning(t) \/ Exit(t) \/ Terminated(t) \/ SignalTerminated(t)

Next ==
  \/ CallAll \/ Emt
  \/ \E t \in Threads : \/ PDMR3ThreadCreate(t) \/ CallOne(t) \/ Main(t)
                        \/ UserWaitTimeout(t) \/ DestroyTimeout(t)
                        \/ FunctionFails(t) \/ PDMR3ThreadSleep(t) \/ SleepTimeout(t)

Spec == Init /\ [][Next]_vars

\* The EMT and the threads go on; a thread need not sleep, but when it sleeps it
\* sleeps for ever, and the EMT waits for ever: a lost wake-up costs no 60 seconds,
\* it hangs.
LiveSpec == Spec /\ WF_vars(Emt) /\ \A t \in Threads : WF_vars(Main(t))

-----------------------------------------------------------------------------
(* Properties. *)

EmtPcs == {"idle", "start", "insert", "join", "resetUser", "ask", "wake", "look", "wait",
           "verify", "bail", "bailWake", "bailUnblock", "bailed", "unblock"}
ThrPcs == {"gone", "function", "work", "sleepLook", "asleep", "returned", "read", "suspend",
           "signalSuspended", "blocked", "resumed", "run", "signalRunning", "bailMeOut",
           "exit", "terminated", "signalTerminated", "exited"}
Ops == {"none", "init", "suspend", "resume", "destroy", "suspendAll", "resumeAll", "destroyAll"}
Reasons == {"late", "timeout", "failed"}

\* The types; a thread is linked once.
TypeOK ==
  /\ enmState \in [Threads -> States]
  /\ BlockEvent \in [Threads -> BOOLEAN] /\ SleepEvent \in [Threads -> BOOLEAN]
  /\ userEvent \in [Threads -> BOOLEAN]
  /\ thr \in [Threads -> [pc : ThrPcs, old : States]]
  /\ pThreads \in Seq(Threads) /\ IsInjective(pThreads)
  /\ emt \in [pc : EmtPcs, op : Ops, t : Threads \cup {NoThread}, todo : Seq(Threads), ok : BOOLEAN]
  /\ told \in [Threads -> {"gone", "changing", "suspended", "running", "failed"}]
  /\ why \in [Threads -> SUBSET Reasons]
  /\ calls \in 0 .. MaxCalls /\ timeouts \in 0 .. MaxTimeouts /\ failures \in 0 .. MaxFailures

\* What an operation reports is so, and stays so until the next one: a suspended
\* thread is in none of its own code and will be in none, one that is destroyed
\* has made its last step, and one that runs waits for nobody's permission.
ToldIsTrue ==
  \A t \in Threads :
    /\ told[t] = "suspended" => enmState[t] = "SUSPENDED" /\ thr[t].pc \in {"signalSuspended", "blocked"}
    /\ told[t] = "gone" => thr[t] = Gone /\ t \notin Alive
    /\ told[t] = "running" =>
         thr[t].pc \notin {"gone", "returned", "read", "suspend", "signalSuspended", "blocked", "resumed", "run"}

\* Suspend and Resume fail only when the thread did, when a wait timed out, or
\* when an earlier Suspend left without the signal that was meant for it.
FailsForAReason == emt.pc = "bail" => why[emt.t] # {}

\* A thread that was told to terminate is never taken for a suspended one again,
\* and so never resumed, unless a Suspend ended before the thread did what it asked.
DoomedStays ==
  [][\A t \in Threads : enmState[t] = "TERMINATING" /\ why[t] \subseteq {"failed"}
       => enmState'[t] \in {"TERMINATING", "TERMINATED"}]_vars

\* Every operation returns although nothing is made up for by a timeout: neither
\* the wake-up of a sleeping thread nor the signal to the EMT is lost.
OpsReturn == emt # EmtIdle ~> emt = EmtIdle

\* "PDMR3ThreadResume -> rc=%Rrc enmState=%d": the failure is asserted not to
\* happen, so it should not happen to a thread that does what it is told.
HealthySurvives == emt.pc = "bail" => why[emt.t] \ {"late"} # {}
=============================================================================
