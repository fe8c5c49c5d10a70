-------------------------- MODULE PDMThreadProofs --------------------------
(***************************************************************************)
(* Theorems about PDMThread, for every set of threads and every bound.     *)
(*                                                                         *)
(* The state word of a thread goes with the place of the thread, whatever  *)
(* the EMT does.  A thread to which nothing has happened (no failure, no   *)
(* timeout, no late signal) is moreover where the operation in progress    *)
(* wants it, and its user event is set exactly when it has got there.      *)
(***************************************************************************)
EXTENDS PDMThread, SequenceTheorems, TLAPS

-----------------------------------------------------------------------------
(* The inductive invariant. *)

Busy == {"function", "work", "sleepLook", "asleep"}
Ending == {"exit", "terminated", "signalTerminated", "exited"}
Bails == {"bail", "bailWake", "bailUnblock", "bailed"}
AllOps == {"suspendAll", "resumeAll", "destroyAll"}

\* Where an operation on one thread may be.
PlacesOf(op) ==
  CASE op = "none" -> {"idle"}
    [] op = "init" -> {"start", "insert", "join"}
    [] op \in {"suspend", "suspendAll"} ->
         {"start", "resetUser", "ask", "wake", "look", "wait", "verify"} \cup Bails
    [] op \in {"resume", "resumeAll"} -> {"start", "ask", "wake", "wait", "verify"} \cup Bails
    [] OTHER -> {"start", "wake", "unblock", "join"}

EmtOK ==
  /\ emt.pc \in PlacesOf(emt.op)
  /\ emt.op = "none" => emt = EmtIdle
  /\ emt.t = NoThread => emt.op \in AllOps \cup {"none"} /\ emt.pc \in {"idle", "start"}
  /\ emt.op \notin AllOps => emt.todo = <<>>

\* The list has the threads that are there, but the one that is being created.
ListOK ==
  /\ \A t \in Threads : t \in Alive <=> thr[t].pc # "gone" /\ ~(emt.op = "init" /\ emt.t = t)
  /\ IsInjective(emt.todo) /\ ToSet(emt.todo) \subseteq Alive \ {emt.t}

\* The state goes with the place of the thread, whatever the EMT does.
StateOK(t) ==
  /\ thr[t].pc = "gone" => thr[t] = Gone
  /\ enmState[t] = "INVALID" <=> thr[t].pc = "gone"
  /\ enmState[t] = "SUSPENDED" => \/ thr[t].pc \in {"signalSuspended", "blocked"}
                                  \/ thr[t].pc = "bailMeOut" /\ BlockEvent[t]
  /\ enmState[t] = "RUNNING" => thr[t].pc \in Busy \cup {"signalRunning", "exit"}
  /\ thr[t].pc = "terminated" => enmState[t] = "TERMINATING"
  /\ enmState[t] = "TERMINATED" <=> thr[t].pc \in {"signalTerminated", "exited"}
  /\ "failed" \in why[t] => thr[t].pc \in Ending \cup {"gone"}

\* A thread that nobody has asked to stop since it ran.
Going(t) ==
  /\ thr[t].pc \in Busy \cup Ending \cup {"signalRunning"}
  /\ thr[t].pc \in Busy \cup {"signalRunning"} => enmState[t] = "RUNNING"

\* What the callers know, and what it rests on.
CallerOK(t) ==
  /\ told[t] = "gone" <=> thr[t].pc = "gone"
  /\ told[t] = "changing" <=> emt.t = t
  /\ told[t] = "gone" => ~userEvent[t] /\ ~BlockEvent[t]
  /\ told[t] = "failed" => why[t] # {}
  /\ told[t] = "suspended" => IsSuspended(t) /\ ~BlockEvent[t]
  /\ told[t] = "running" => Going(t)
  /\ emt.t = t =>
       /\ Suspends /\ emt.pc = "start" => (IsSuspended(t) /\ ~BlockEvent[t]) \/ Going(t)
       /\ Suspends /\ emt.pc \notin {"start"} \cup Bails => ~BlockEvent[t]
       /\ emt.op = "init" => ~BlockEvent[t] /\ (emt.pc = "insert" => IsSuspended(t))

\* The places of a thread to which nothing has happened.
Runs(t) == enmState[t] = "RUNNING" /\ thr[t].pc \in Busy
Sleeps(t) == IsSuspended(t) /\ thr[t].pc = "blocked" /\ ~BlockEvent[t]
Suspending(t, s) ==
  \/ /\ enmState[t] = s /\ thr[t].pc \in Busy \cup {"returned", "read", "suspend"}
     /\ thr[t].pc = "suspend" => thr[t].old = s
     /\ ~userEvent[t]
  \/ IsSuspended(t) /\ thr[t].pc = "signalSuspended" /\ ~userEvent[t]
  \/ IsSuspended(t) /\ thr[t].pc = "blocked" /\ userEvent[t]
Resuming(t) ==
  \/ enmState[t] = "RESUMING" /\ thr[t].pc \in {"blocked", "resumed", "run"} /\ ~userEvent[t]
  \/ enmState[t] = "RUNNING" /\ thr[t].pc = "signalRunning" /\ ~userEvent[t]
  \/ Runs(t) /\ userEvent[t]
Ends(t) == /\ enmState[t] \in {"TERMINATING", "TERMINATED"}
           /\ thr[t].pc \in Busy \cup Ending \cup {"returned", "blocked", "resumed"}

HealthyAt(t) ==
  /\ emt.op = "init" => /\ emt.pc = "start" => Suspending(t, "INITIALIZING")
                        /\ emt.pc = "insert" => Sleeps(t)
                        /\ emt.pc # "join"
  /\ Suspends => /\ emt.pc = "start" => Sleeps(t) \/ Runs(t)
                 /\ emt.pc \in {"resetUser", "ask"} => Runs(t)
                 /\ emt.pc = "ask" => ~userEvent[t]
                 /\ emt.pc \in {"wake", "look", "wait"} => Suspending(t, "SUSPENDING")
                 /\ emt.pc = "verify" => Sleeps(t)
  /\ Resumes => /\ emt.pc \in {"start", "ask"} => Sleeps(t)
                /\ emt.pc = "ask" => ~userEvent[t]
                /\ emt.pc \in {"wake", "wait"} => Resuming(t)
                /\ emt.pc = "verify" => Runs(t)
  /\ Destroys => /\ emt.pc = "start" => Sleeps(t) \/ Runs(t)
                 /\ emt.pc # "start" => Ends(t)
  /\ emt.pc \notin Bails

HealthyOK(t) == why[t] = {} =>
  /\ told[t] = "suspended" => Sleeps(t)
  /\ told[t] = "running" => Runs(t)
  /\ emt.t = t => HealthyAt(t)

ThreadOK(t) == StateOK(t) /\ CallerOK(t) /\ HealthyOK(t)

IInv == TypeOK /\ EmtOK /\ ListOK /\ \A t \in Threads : ThreadOK(t)

-----------------------------------------------------------------------------
(* Threads and the EMT. *)

ThrType == [pc : ThrPcs, old : States]
EmtType == [pc : EmtPcs, op : Ops, t : Threads \cup {NoThread}, todo : Seq(Threads), ok : BOOLEAN]

LEMMA Types ==
  ASSUME TypeOK
  PROVE  /\ thr \in [Threads -> ThrType] /\ emt \in EmtType
         /\ \A t \in Threads : /\ thr[t] \in ThrType /\ thr[t].pc \in ThrPcs /\ thr[t].old \in States
                               /\ enmState[t] \in States /\ t # NoThread
BY NoThreadAssumption DEF TypeOK, ThrType, EmtType

\* A thread is as it was when the step neither touches it nor the EMT's work on it.
LEMMA Untouched ==
  ASSUME NEW t \in Threads, ThreadOK(t),
         thr'[t] = thr[t], enmState'[t] = enmState[t],
         BlockEvent'[t] = BlockEvent[t], userEvent'[t] = userEvent[t],
         told'[t] = told[t], why'[t] = why[t],
         emt' = emt \/ (emt.t # t /\ emt'.t # t)
  PROVE  ThreadOK(t)'
<1>1. StateOK(t)'  BY DEF ThreadOK, StateOK
<1>2. CallerOK(t)'  BY DEF ThreadOK, CallerOK, IsSuspended, Going, Suspends
<1>3. HealthyOK(t)'
  BY DEF ThreadOK, HealthyOK, HealthyAt, Suspends, Resumes, Destroys, Runs, Sleeps, IsSuspended,
         Suspending, Resuming, Ends
<1> QED BY <1>1, <1>2, <1>3 DEF ThreadOK

\* The list stays when its threads do and the EMT goes on with it, or is through.
LEMMA ListStays ==
  ASSUME TypeOK, ListOK, pThreads' = pThreads,
         \A t \in Threads : thr'[t].pc = "gone" <=> thr[t].pc = "gone",
         emt'.todo = emt.todo \/ emt'.todo = <<>>,
         emt'.t = emt.t \/ emt'.t = NoThread,
         \A t \in Threads : emt'.op = "init" /\ emt'.t = t <=> emt.op = "init" /\ emt.t = t
  PROVE  ListOK'
<1>1. ToSet(emt'.todo) \subseteq ToSet(emt.todo) /\ IsInjective(emt'.todo)
  BY DEF ListOK, ToSet, IsInjective
<1>2. NoThread \notin Alive
  BY NoThreadAssumption DEF Alive, ToSet, TypeOK
<1>3. Alive' = Alive  BY DEF Alive
<1> QED BY <1>1, <1>2, <1>3 DEF ListOK

\* A step of thread u.
LEMMA MainStep ==
  ASSUME IInv, NEW u \in Threads,
         thr' \in [Threads -> ThrType], enmState' \in [Threads -> States],
         userEvent' \in [Threads -> BOOLEAN], SleepEvent' \in [Threads -> BOOLEAN],
         why' \in [Threads -> SUBSET Reasons], failures' \in 0 .. MaxFailures,
         \A t \in Threads \ {u} : /\ thr'[t] = thr[t] /\ enmState'[t] = enmState[t]
                                  /\ userEvent'[t] = userEvent[t] /\ why'[t] = why[t],
         thr'[u].pc # "gone", thr[u].pc # "gone",
         UNCHANGED <<BlockEvent, pThreads, emt, told, calls, timeouts>>,
         ThreadOK(u)'
  PROVE  IInv'
<1>1. TypeOK'  BY DEF IInv, TypeOK, ThrType
<1>2. EmtOK'  BY DEF IInv, EmtOK
<1>3. ListOK'  BY ListStays DEF IInv
<1>4. \A t \in Threads \ {u} : ThreadOK(t)'  BY Untouched DEF IInv
<1> QED BY <1>1, <1>2, <1>3, <1>4 DEF IInv

\* A step of the EMT in its operation on thread u, after which the operation goes
\* on or is over.
LEMMA ControlStep ==
  ASSUME IInv, NEW u \in Threads, emt.t = u, emt' \in EmtType, EmtOK',
         emt'.t \in {u, NoThread}, emt'.todo \in {emt.todo, <<>>},
         emt'.t = u => emt'.op = emt.op, emt'.t = NoThread => emt.op # "init",
         thr' = thr, pThreads' = pThreads,
         enmState' \in [Threads -> States],
         userEvent' \in [Threads -> BOOLEAN], SleepEvent' \in [Threads -> BOOLEAN],
         BlockEvent' \in [Threads -> BOOLEAN],
         told' \in [Threads -> {"gone", "changing", "suspended", "running", "failed"}],
         why' \in [Threads -> SUBSET Reasons], timeouts' \in 0 .. MaxTimeouts,
         \A t \in Threads \ {u} :
           /\ enmState'[t] = enmState[t] /\ BlockEvent'[t] = BlockEvent[t]
           /\ userEvent'[t] = userEvent[t] /\ why'[t] = why[t] /\ told'[t] = told[t],
         UNCHANGED <<calls, failures>>,
         ThreadOK(u)'
  PROVE  IInv'
<1>1. TypeOK'  BY DEF IInv, TypeOK, EmtType
<1>2. \A t \in Threads : emt'.op = "init" /\ emt'.t = t <=> emt.op = "init" /\ emt.t = t
  BY NoThreadAssumption
<1>3. ListOK'
  <2>1. emt'.todo = emt.todo \/ emt'.todo = <<>>  OBVIOUS
  <2>2. \A t \in Threads : thr'[t].pc = "gone" <=> thr[t].pc = "gone"  OBVIOUS
  <2>3. emt'.t = emt.t \/ emt'.t = NoThread  OBVIOUS
  <2>4. TypeOK /\ ListOK  BY DEF IInv
  <2> QED BY <1>2, <2>1, <2>2, <2>3, <2>4, ListStays
<1>4. \A t \in Threads \ {u} : ThreadOK(t)'
  <2> SUFFICES ASSUME NEW t \in Threads \ {u} PROVE ThreadOK(t)'  OBVIOUS
  <2>1. t # NoThread  BY NoThreadAssumption
  <2> QED BY <2>1, Untouched DEF IInv
<1> QED BY <1>1, <1>3, <1>4 DEF IInv

-----------------------------------------------------------------------------
(* The steps of a thread. *)

\* What a step of the thread may change.
LEMMA Moved ==
  ASSUME TypeOK, NEW u \in Threads, NEW l \in ThrPcs, Goto(u, l)
  PROVE  /\ thr' \in [Threads -> ThrType]
         /\ thr'[u].pc = l /\ thr'[u].old = thr[u].old
         /\ \A t \in Threads \ {u} : thr'[t] = thr[t]
<1>1. thr \in [Threads -> ThrType]  BY Types
<1> QED BY <1>1 DEF Goto, ThrType

\* A step that only moves the thread.
LEMMA MovedOnly ==
  ASSUME IInv, NEW u \in Threads, NEW l \in ThrPcs, Goto(u, l),
         l # "gone", thr[u].pc # "gone",
         UNCHANGED <<enmState, BlockEvent, userEvent, pThreads, emt, told, why, counts>>,
         SleepEvent' \in [Threads -> BOOLEAN],
         thr'[u].pc = l /\ thr'[u].old = thr[u].old => ThreadOK(u)'
  PROVE  IInv'
<1>1. /\ thr' \in [Threads -> ThrType]
      /\ thr'[u].pc = l /\ thr'[u].old = thr[u].old
      /\ \A t \in Threads \ {u} : thr'[t] = thr[t]
  BY Moved DEF IInv
<1> QED BY <1>1, MainStep DEF IInv, TypeOK, counts

\* In its function, nothing that matters changes.
LEMMA BusyInv ==
  ASSUME IInv, NEW u \in Threads,
         \/ Function(u) /\ enmState[u] = "RUNNING"
         \/ Work(u) \/ PDMR3ThreadSleep(u) \/ SleepLook(u) \/ SleepEnds(u) \/ SleepTimeout(u)
  PROVE  IInv'
<1>1. PICK l \in Busy :
        /\ thr[u].pc \in Busy /\ Goto(u, l)
        /\ UNCHANGED <<enmState, BlockEvent, userEvent, pThreads, emt, told, why, counts>>
  BY DEF Function, Work, PDMR3ThreadSleep, SleepLook, SleepEnds, SleepTimeout, ThrAt, Busy,
         Reset, events
<1>2. ThreadOK(u)  BY DEF IInv
<1>3. SleepEvent' \in [Threads -> BOOLEAN]
  BY DEF Function, Work, PDMR3ThreadSleep, SleepLook, SleepEnds, SleepTimeout, Reset, events,
         IInv, TypeOK
<1>4. ASSUME thr'[u].pc = l, thr'[u].old = thr[u].old PROVE ThreadOK(u)'
  <2>1. StateOK(u)'  BY <1>1, <1>2, <1>4 DEF ThreadOK, StateOK, Busy, Ending
  <2>2. CallerOK(u)'
    BY <1>1, <1>2, <1>4 DEF ThreadOK, CallerOK, Going, IsSuspended, Suspends, Busy, Ending
  <2>3. HealthyOK(u)'
    BY <1>1, <1>2, <1>4
    DEF ThreadOK, HealthyOK, HealthyAt, Suspends, Resumes, Destroys, Runs, Sleeps,
                      IsSuspended, Suspending, Resuming, Ends, Busy, Ending
  <2> QED BY <2>1, <2>2, <2>3 DEF ThreadOK
<1> QED BY <1>1, <1>3, <1>4, MovedOnly DEF Busy, ThrPcs

LEMMA FunctionInv ==
  ASSUME IInv, NEW u \in Threads, Function(u), enmState[u] # "RUNNING"
  PROVE  IInv'
<1>1. /\ thr[u].pc = "function" /\ Goto(u, "returned")
      /\ UNCHANGED <<enmState, BlockEvent, SleepEvent, userEvent, pThreads, emt, told, why, counts>>
  BY DEF Function, ThrAt, events
<1>2. ThreadOK(u) /\ SleepEvent \in [Threads -> BOOLEAN]  BY DEF IInv, TypeOK
<1>3. ASSUME thr'[u].pc = "returned", thr'[u].old = thr[u].old PROVE ThreadOK(u)'
  <2>1. StateOK(u)'  BY <1>1, <1>2, <1>3 DEF ThreadOK, StateOK, Busy, Ending
  <2>2. CallerOK(u)'
    BY <1>1, <1>2, <1>3 DEF ThreadOK, CallerOK, Going, IsSuspended, Suspends, Busy, Ending
  <2>3. HealthyOK(u)'
    BY <1>1, <1>2, <1>3
    DEF ThreadOK, HealthyOK, HealthyAt, Suspends, Resumes, Destroys, Runs, Sleeps,
                      IsSuspended, Suspending, Resuming, Ends, Busy, Ending
  <2> QED BY <2>1, <2>2, <2>3 DEF ThreadOK
<1> QED BY <1>1, <1>2, <1>3, MovedOnly DEF ThrPcs

LEMMA ReturnedInv ==
  ASSUME IInv, NEW u \in Threads, Returned(u)
  PROVE  IInv'
<1> DEFINE l == IF AskedToSuspend(u) THEN "read" ELSE "exit"
<1>1. /\ thr[u].pc = "returned" /\ Goto(u, l)
      /\ UNCHANGED <<enmState, BlockEvent, SleepEvent, userEvent, pThreads, emt, told, why, counts>>
  BY DEF Returned, ThrAt, events
<1>2. ThreadOK(u) /\ SleepEvent \in [Threads -> BOOLEAN]  BY DEF IInv, TypeOK
<1>3. ASSUME thr'[u].pc = l, thr'[u].old = thr[u].old PROVE ThreadOK(u)'
  <2>1. StateOK(u)'
    BY <1>1, <1>2, <1>3 DEF ThreadOK, StateOK, Busy, Ending
  <2>2. CallerOK(u)'
    BY <1>1, <1>2, <1>3 DEF ThreadOK, CallerOK, Going, IsSuspended, Suspends, Busy, Ending
  <2>3. HealthyOK(u)'
    BY <1>1, <1>2, <1>3
    DEF ThreadOK, HealthyOK, HealthyAt, Suspends, Resumes, Destroys, Runs, Sleeps,
                      IsSuspended, Suspending, Resuming, Ends, Busy, Ending, AskedToSuspend, StateOK
  <2> QED BY <2>1, <2>2, <2>3 DEF ThreadOK
<1>4. l \in ThrPcs /\ l # "gone"  BY DEF ThrPcs
<1> QED BY <1>1, <1>2, <1>3, <1>4, MovedOnly

LEMMA BlockedInv ==
  ASSUME IInv, NEW u \in Threads, Blocked(u)
  PROVE  IInv'
<1> DEFINE l == IF enmState[u] # "SUSPENDED" THEN "resumed" ELSE "bailMeOut"
<1>1. /\ thr[u].pc = "blocked" /\ BlockEvent[u] /\ Goto(u, l)
      /\ UNCHANGED <<enmState, BlockEvent, SleepEvent, userEvent, pThreads, emt, told, why, counts>>
  BY DEF Blocked, ThrAt, events
<1>2. ThreadOK(u) /\ SleepEvent \in [Threads -> BOOLEAN]  BY DEF IInv, TypeOK
<1>3. ASSUME thr'[u].pc = l, thr'[u].old = thr[u].old PROVE ThreadOK(u)'
  <2>1. StateOK(u)'
    BY <1>1, <1>2, <1>3 DEF ThreadOK, StateOK, Busy, Ending
  <2>2. CallerOK(u)'
    BY <1>1, <1>2, <1>3 DEF ThreadOK, CallerOK, Going, IsSuspended, Suspends, Busy, Ending
  <2>3. HealthyOK(u)'
    BY <1>1, <1>2, <1>3
    DEF ThreadOK, HealthyOK, HealthyAt, Suspends, Resumes, Destroys, Runs, Sleeps,
                      IsSuspended, Suspending, Resuming, Ends, Busy, Ending, CallerOK, PlacesOf, Bails
  <2> QED BY <2>1, <2>2, <2>3 DEF ThreadOK
<1>4. l \in ThrPcs /\ l # "gone"  BY DEF ThrPcs
<1> QED BY <1>1, <1>2, <1>3, <1>4, MovedOnly

LEMMA ResumedInv ==
  ASSUME IInv, NEW u \in Threads, Resumed(u)
  PROVE  IInv'
<1> DEFINE l == IF enmState[u] = "RESUMING" THEN "run" ELSE "exit"
<1>1. /\ thr[u].pc = "resumed" /\ Goto(u, l)
      /\ UNCHANGED <<enmState, BlockEvent, SleepEvent, userEvent, pThreads, emt, told, why, counts>>
  BY DEF Resumed, ThrAt, events
<1>2. ThreadOK(u) /\ SleepEvent \in [Threads -> BOOLEAN]  BY DEF IInv, TypeOK
<1>3. ASSUME thr'[u].pc = l, thr'[u].old = thr[u].old PROVE ThreadOK(u)'
  <2>1. StateOK(u)'
    BY <1>1, <1>2, <1>3 DEF ThreadOK, StateOK, Busy, Ending
  <2>2. CallerOK(u)'
    BY <1>1, <1>2, <1>3 DEF ThreadOK, CallerOK, Going, IsSuspended, Suspends, Busy, Ending
  <2>3. HealthyOK(u)'
    BY <1>1, <1>2, <1>3
    DEF ThreadOK, HealthyOK, HealthyAt, Suspends, Resumes, Destroys, Runs, Sleeps,
                      IsSuspended, Suspending, Resuming, Ends, Busy, Ending
  <2> QED BY <2>1, <2>2, <2>3 DEF ThreadOK
<1>4. l \in ThrPcs /\ l # "gone"  BY DEF ThrPcs
<1> QED BY <1>1, <1>2, <1>3, <1>4, MovedOnly

LEMMA FunctionFailsInv ==
  ASSUME IInv, NEW u \in Threads, FunctionFails(u)
  PROVE  IInv'
<1>1. /\ thr[u].pc \in {"function", "work"} /\ Goto(u, "exit")
      /\ why' = [why EXCEPT ![u] = @ \cup {"failed"}]
      /\ failures' = failures + 1 /\ failures < MaxFailures
      /\ UNCHANGED <<enmState, BlockEvent, SleepEvent, userEvent, pThreads, emt, told, calls, timeouts>>
  BY DEF FunctionFails, events
<1>2. ThreadOK(u) /\ TypeOK  BY DEF IInv
<1>3. /\ thr' \in [Threads -> ThrType] /\ thr'[u].pc = "exit"
      /\ \A t \in Threads \ {u} : thr'[t] = thr[t]
  BY <1>1, <1>2, Moved DEF ThrPcs
<1>4. /\ why' \in [Threads -> SUBSET Reasons] /\ why'[u] = why[u] \cup {"failed"}
      /\ \A t \in Threads \ {u} : why'[t] = why[t]
  BY <1>1, <1>2 DEF TypeOK, Reasons
<1>5. ThreadOK(u)'
  <2>1. StateOK(u)'  BY <1>1, <1>2, <1>3 DEF ThreadOK, StateOK, Busy, Ending
  <2>2. CallerOK(u)'
    BY <1>1, <1>2, <1>3, <1>4 DEF ThreadOK, CallerOK, Going, IsSuspended, Suspends, Busy, Ending
  <2>3. HealthyOK(u)'  BY <1>4 DEF HealthyOK
  <2> QED BY <2>1, <2>2, <2>3 DEF ThreadOK
<1>6. failures' \in 0 .. MaxFailures  BY <1>1, <1>2, BoundAssumption DEF TypeOK
<1> QED BY <1>1, <1>2, <1>3, <1>4, <1>5, <1>6, MainStep DEF TypeOK

LEMMA SuspendingReadInv ==
  ASSUME IInv, NEW u \in Threads, SuspendingRead(u)
  PROVE  IInv'
<1>1. /\ thr[u].pc = "read" /\ thr' = [thr EXCEPT ![u] = [pc |-> "suspend", old |-> enmState[u]]]
      /\ UNCHANGED <<enmState, BlockEvent, SleepEvent, userEvent, pThreads, emt, told, why, counts>>
  BY DEF SuspendingRead, ThrAt, events
<1>2. ThreadOK(u) /\ TypeOK  BY DEF IInv
<1>3. /\ thr' \in [Threads -> ThrType]
      /\ thr'[u].pc = "suspend" /\ thr'[u].old = enmState[u]
      /\ \A t \in Threads \ {u} : thr'[t] = thr[t]
  BY <1>1, <1>2, Types DEF ThrType, ThrPcs
<1>4. ThreadOK(u)'
  <2>1. StateOK(u)'  BY <1>1, <1>2, <1>3 DEF ThreadOK, StateOK, Busy, Ending
  <2>2. CallerOK(u)'
    BY <1>1, <1>2, <1>3 DEF ThreadOK, CallerOK, Going, IsSuspended, Suspends, Busy, Ending
  <2>3. HealthyOK(u)'
    BY <1>1, <1>2, <1>3
    DEF ThreadOK, HealthyOK, HealthyAt, Suspends, Resumes, Destroys, Runs, Sleeps,
                      IsSuspended, Suspending, Resuming, Ends, Busy, Ending
  <2> QED BY <2>1, <2>2, <2>3 DEF ThreadOK
<1> QED BY <1>1, <1>2, <1>3, <1>4, MainStep DEF TypeOK, counts

\* A step that changes the state of the thread as well.
LEMMA StateMoved ==
  ASSUME IInv, NEW u \in Threads, NEW l \in ThrPcs, NEW s \in States, Goto(u, l),
         enmState' = [enmState EXCEPT ![u] = s], l # "gone", thr[u].pc # "gone",
         UNCHANGED <<BlockEvent, SleepEvent, userEvent, pThreads, emt, told, why, counts>>,
         thr'[u].pc = l /\ thr'[u].old = thr[u].old /\ enmState'[u] = s => ThreadOK(u)'
  PROVE  IInv'
<1>1. /\ thr' \in [Threads -> ThrType]
      /\ thr'[u].pc = l /\ thr'[u].old = thr[u].old
      /\ \A t \in Threads \ {u} : thr'[t] = thr[t]
  BY Moved DEF IInv
<1>2. /\ enmState' \in [Threads -> States] /\ enmState'[u] = s
      /\ \A t \in Threads \ {u} : enmState'[t] = enmState[t]
  BY DEF IInv, TypeOK
<1> QED BY <1>1, <1>2, MainStep DEF IInv, TypeOK, counts

LEMMA SuspendingCasInv ==
  ASSUME IInv, NEW u \in Threads, SuspendingCas(u)
  PROVE  IInv'
<1>0. /\ thr[u].pc = "suspend" /\ ThreadOK(u) /\ SleepEvent \in [Threads -> BOOLEAN]
      /\ UNCHANGED <<BlockEvent, SleepEvent, userEvent, pThreads, emt, told, why, counts>>
  BY DEF SuspendingCas, ThrAt, events, IInv, TypeOK
<1>1. CASE enmState[u] = thr[u].old
  <2>1. enmState' = [enmState EXCEPT ![u] = "SUSPENDED"] /\ Goto(u, "signalSuspended")
    BY <1>1 DEF SuspendingCas, CasState
  <2>2. ASSUME thr'[u].pc = "signalSuspended", thr'[u].old = thr[u].old, enmState'[u] = "SUSPENDED"
        PROVE  ThreadOK(u)'
    <3>1. StateOK(u)'  BY <1>0, <2>2 DEF ThreadOK, StateOK, Busy, Ending
    <3>2. CallerOK(u)'
      BY <1>0, <2>2 DEF ThreadOK, CallerOK, Going, IsSuspended, Suspends, Busy, Ending, StateOK
    <3>3. HealthyOK(u)'
      BY <1>0, <2>2 DEF ThreadOK, HealthyOK, HealthyAt, Suspends, Resumes, Destroys, Runs, Sleeps,
                        IsSuspended, Suspending, Resuming, Ends, Busy, Ending
    <3> QED BY <3>1, <3>2, <3>3 DEF ThreadOK
  <2> QED BY <1>0, <2>1, <2>2, StateMoved DEF ThrPcs, States
<1>2. CASE enmState[u] # thr[u].old
  <2>1. enmState' = enmState /\ Goto(u, "bailMeOut")
    BY <1>2 DEF SuspendingCas, CasState
  <2>2. ASSUME thr'[u].pc = "bailMeOut", thr'[u].old = thr[u].old
        PROVE  ThreadOK(u)'
    <3>1. StateOK(u)'  BY <1>0, <2>1, <2>2 DEF ThreadOK, StateOK, Busy, Ending
    <3>2. CallerOK(u)'
      BY <1>0, <2>1, <2>2 DEF ThreadOK, CallerOK, Going, IsSuspended, Suspends, Busy, Ending
    <3>3. HealthyOK(u)'
      BY <1>0, <1>2, <2>1, <2>2
      DEF ThreadOK, HealthyOK, HealthyAt, Suspends, Resumes, Destroys, Runs, Sleeps,
          IsSuspended, Suspending, Resuming, Ends, Busy, Ending
    <3> QED BY <3>1, <3>2, <3>3 DEF ThreadOK
  <2> QED BY <1>0, <2>1, <2>2, MovedOnly DEF ThrPcs
<1> QED BY <1>1, <1>2

LEMMA IAmRunningInv ==
  ASSUME IInv, NEW u \in Threads, PDMR3ThreadIAmRunning(u)
  PROVE  IInv'
<1>0. /\ thr[u].pc = "run" /\ ThreadOK(u) /\ SleepEvent \in [Threads -> BOOLEAN]
      /\ UNCHANGED <<BlockEvent, SleepEvent, userEvent, pThreads, emt, told, why, counts>>
  BY DEF PDMR3ThreadIAmRunning, ThrAt, events, IInv, TypeOK
<1>1. CASE enmState[u] = "RESUMING"
  <2>1. enmState' = [enmState EXCEPT ![u] = "RUNNING"] /\ Goto(u, "signalRunning")
    BY <1>1 DEF PDMR3ThreadIAmRunning, CasState
  <2>2. ASSUME thr'[u].pc = "signalRunning", thr'[u].old = thr[u].old, enmState'[u] = "RUNNING"
        PROVE  ThreadOK(u)'
    <3>1. StateOK(u)'  BY <1>0, <2>2 DEF ThreadOK, StateOK, Busy, Ending
    <3>2. CallerOK(u)'
      BY <1>0, <1>1, <2>2 DEF ThreadOK, CallerOK, Going, IsSuspended, Suspends, Busy, Ending
    <3>3. HealthyOK(u)'
      BY <1>0, <1>1, <2>2
      DEF ThreadOK, HealthyOK, HealthyAt, Suspends, Resumes, Destroys, Runs, Sleeps,
                        IsSuspended, Suspending, Resuming, Ends, Busy, Ending
    <3> QED BY <3>1, <3>2, <3>3 DEF ThreadOK
  <2> QED BY <1>0, <2>1, <2>2, StateMoved DEF ThrPcs, States
<1>2. CASE enmState[u] # "RESUMING"
  <2>1. enmState' = enmState /\ Goto(u, "bailMeOut")
    BY <1>2 DEF PDMR3ThreadIAmRunning, CasState
  <2>2. ASSUME thr'[u].pc = "bailMeOut", thr'[u].old = thr[u].old
        PROVE  ThreadOK(u)'
    <3>1. StateOK(u)'  BY <1>0, <2>1, <2>2 DEF ThreadOK, StateOK, Busy, Ending
    <3>2. CallerOK(u)'
      BY <1>0, <2>1, <2>2 DEF ThreadOK, CallerOK, Going, IsSuspended, Suspends, Busy, Ending
    <3>3. HealthyOK(u)'
      BY <1>0, <1>2, <2>1, <2>2
      DEF ThreadOK, HealthyOK, HealthyAt, Suspends, Resumes, Destroys, Runs, Sleeps,
          IsSuspended, Suspending, Resuming, Ends, Busy, Ending
    <3> QED BY <3>1, <3>2, <3>3 DEF ThreadOK
  <2> QED BY <1>0, <2>1, <2>2, MovedOnly DEF ThrPcs
<1> QED BY <1>1, <1>2

LEMMA ExitInv ==
  ASSUME IInv, NEW u \in Threads, Exit(u)
  PROVE  IInv'
<1> DEFINE l == IF thr[u].pc = "exit" THEN "terminated" ELSE "exit"
<1>1. /\ thr[u].pc \in {"bailMeOut", "exit"} /\ Goto(u, l)
      /\ enmState' = [enmState EXCEPT ![u] = "TERMINATING"]
      /\ UNCHANGED <<BlockEvent, SleepEvent, userEvent, pThreads, emt, told, why, counts>>
  BY DEF Exit, ThrAt, events
<1>2. ThreadOK(u)  BY DEF IInv
<1>3. ASSUME thr'[u].pc = l, enmState'[u] = "TERMINATING" PROVE ThreadOK(u)'
  <2>1. StateOK(u)'  BY <1>1, <1>2, <1>3 DEF ThreadOK, StateOK, Busy, Ending
  <2>2. CallerOK(u)'
    BY <1>1, <1>2, <1>3 DEF ThreadOK, CallerOK, Going, IsSuspended, Suspends, Busy, Ending, StateOK
  <2>3. HealthyOK(u)'
    BY <1>1, <1>2, <1>3
    DEF ThreadOK, HealthyOK, HealthyAt, Suspends, Resumes, Destroys, Runs, Sleeps,
                      IsSuspended, Suspending, Resuming, Ends, Busy, Ending, StateOK
  <2> QED BY <2>1, <2>2, <2>3 DEF ThreadOK
<1>4. l \in ThrPcs /\ l # "gone" /\ "TERMINATING" \in States  BY DEF ThrPcs, States
<1> QED BY <1>1, <1>2, <1>3, <1>4, StateMoved

LEMMA TerminatedInv ==
  ASSUME IInv, NEW u \in Threads, Terminated(u)
  PROVE  IInv'
<1>1. /\ thr[u].pc = "terminated" /\ Goto(u, "signalTerminated")
      /\ enmState' = [enmState EXCEPT ![u] = "TERMINATED"]
      /\ UNCHANGED <<BlockEvent, SleepEvent, userEvent, pThreads, emt, told, why, counts>>
  BY DEF Terminated, ThrAt, events
<1>2. ThreadOK(u)  BY DEF IInv
<1>3. ASSUME thr'[u].pc = "signalTerminated", enmState'[u] = "TERMINATED" PROVE ThreadOK(u)'
  <2>1. StateOK(u)'  BY <1>1, <1>2, <1>3 DEF ThreadOK, StateOK, Busy, Ending
  <2>2. CallerOK(u)'
    BY <1>1, <1>2, <1>3 DEF ThreadOK, CallerOK, Going, IsSuspended, Suspends, Busy, Ending, StateOK
  <2>3. HealthyOK(u)'
    BY <1>1, <1>2, <1>3
    DEF ThreadOK, HealthyOK, HealthyAt, Suspends, Resumes, Destroys, Runs, Sleeps,
                      IsSuspended, Suspending, Resuming, Ends, Busy, Ending, StateOK
  <2> QED BY <2>1, <2>2, <2>3 DEF ThreadOK
<1> QED BY <1>1, <1>2, <1>3, StateMoved DEF ThrPcs, States

\* The thread signals its user event.
LEMMA SignalInv ==
  ASSUME IInv, NEW u \in Threads, Signal(u) \/ SignalTerminated(u)
  PROVE  IInv'
<1> DEFINE l == CASE thr[u].pc = "signalSuspended"  -> "blocked"
                  [] thr[u].pc = "signalRunning"    -> "function"
                  [] thr[u].pc = "signalTerminated" -> "exited"
<1>1. /\ thr[u].pc \in {"signalSuspended", "signalRunning", "signalTerminated"} /\ Goto(u, l)
      /\ userEvent' = [userEvent EXCEPT ![u] = TRUE]
      /\ UNCHANGED <<enmState, BlockEvent, SleepEvent, pThreads, emt, told, why, counts>>
  BY DEF Signal, SignalTerminated, ThrAt, Set
<1>2. ThreadOK(u) /\ TypeOK  BY DEF IInv
<1>3. l \in ThrPcs /\ l # "gone"  BY <1>1 DEF ThrPcs
<1>4. /\ thr' \in [Threads -> ThrType] /\ thr'[u].pc = l /\ thr'[u].old = thr[u].old
      /\ \A t \in Threads \ {u} : thr'[t] = thr[t]
  BY <1>1, <1>2, <1>3, Moved
<1>5. /\ userEvent' \in [Threads -> BOOLEAN] /\ userEvent'[u]
      /\ \A t \in Threads \ {u} : userEvent'[t] = userEvent[t]
  BY <1>1, <1>2 DEF TypeOK
<1>6. ThreadOK(u)'
  <2>1. StateOK(u)'  BY <1>1, <1>2, <1>4 DEF ThreadOK, StateOK, Busy, Ending
  <2>2. CallerOK(u)'
    BY <1>1, <1>2, <1>4, <1>5
    DEF ThreadOK, CallerOK, Going, IsSuspended, Suspends, Busy, Ending
  <2>3. HealthyOK(u)'
    BY <1>1, <1>2, <1>4, <1>5
    DEF ThreadOK, HealthyOK, HealthyAt, Suspends, Resumes, Destroys, Runs, Sleeps,
        IsSuspended, Suspending, Resuming, Ends, Busy, Ending, CallerOK
  <2> QED BY <2>1, <2>2, <2>3 DEF ThreadOK
<1> QED BY <1>1, <1>2, <1>3, <1>4, <1>5, <1>6, MainStep DEF TypeOK, counts

-----------------------------------------------------------------------------
(* The steps of the EMT in an operation on thread u. *)

\* The step leaves the other threads alone, and thread u where it is.
OnlyOf(u) ==
  /\ enmState' \in [Threads -> States] /\ BlockEvent' \in [Threads -> BOOLEAN]
  /\ userEvent' \in [Threads -> BOOLEAN] /\ SleepEvent' \in [Threads -> BOOLEAN]
  /\ why' \in [Threads -> SUBSET Reasons] /\ timeouts' \in 0 .. MaxTimeouts
  /\ \A t \in Threads \ {u} : /\ enmState'[t] = enmState[t] /\ BlockEvent'[t] = BlockEvent[t]
                              /\ userEvent'[t] = userEvent[t] /\ why'[t] = why[t]
  /\ UNCHANGED <<thr, pThreads, calls, failures>>

\* The operation goes on.
LEMMA GoesOn ==
  ASSUME IInv, NEW u \in Threads, emt.t = u, NEW l \in PlacesOf(emt.op), EmtGoto(l),
         OnlyOf(u), told' = told,
         emt'.pc = l /\ emt'.t = u /\ emt'.op = emt.op => ThreadOK(u)'
  PROVE  IInv'
<1>1. emt \in EmtType /\ u # NoThread /\ EmtOK
  BY Types DEF IInv
<1>2. l \in EmtPcs  BY DEF PlacesOf, EmtPcs, Bails
<1>3. /\ emt' \in EmtType
      /\ emt'.pc = l /\ emt'.t = u /\ emt'.op = emt.op /\ emt'.todo = emt.todo
  BY <1>1, <1>2 DEF EmtGoto, EmtType
<1>4. emt.op # "none"  BY <1>1 DEF EmtOK, EmtIdle
<1>5. EmtOK'  BY <1>1, <1>3, <1>4 DEF EmtOK
<1> QED BY <1>1, <1>3, <1>5, ControlStep DEF OnlyOf, IInv, TypeOK

\* The operation fails, and goes on to bail out.
LEMMA Fails ==
  ASSUME IInv, NEW u \in Threads, emt.t = u, "bail" \in PlacesOf(emt.op), EmtFail,
         OnlyOf(u), told' = told,
         emt'.pc = "bail" /\ emt'.t = u /\ emt'.op = emt.op => ThreadOK(u)'
  PROVE  IInv'
<1>1. emt \in EmtType /\ u # NoThread /\ EmtOK
  BY Types DEF IInv
<1>3. /\ emt' \in EmtType
      /\ emt'.pc = "bail" /\ emt'.t = u /\ emt'.op = emt.op /\ emt'.todo = emt.todo
  BY <1>1 DEF EmtFail, EmtType, EmtPcs
<1>4. emt.op # "none"  BY <1>1 DEF EmtOK, EmtIdle
<1>5. EmtOK'  BY <1>1, <1>3, <1>4 DEF EmtOK
<1> QED BY <1>1, <1>3, <1>5, ControlStep DEF OnlyOf, IInv, TypeOK

\* What the end of the operation on thread u does to the EMT.
LEMMA Returning ==
  ASSUME TypeOK, EmtOK, NEW u \in Threads,
         NEW result \in {"gone", "suspended", "running", "failed"}, Return(u, result)
  PROVE  /\ emt' \in EmtType /\ EmtOK' /\ emt'.t = NoThread /\ emt'.todo \in {emt.todo, <<>>}
         /\ emt'.op \in {emt.op, "none"}
         /\ emt'.todo # <<>> => emt'.op \in AllOps /\ emt.op \in AllOps
         /\ emt'.op # "none" => emt.op \in AllOps
         /\ told' \in [Threads -> {"gone", "changing", "suspended", "running", "failed"}]
         /\ told'[u] = result /\ \A t \in Threads \ {u} : told'[t] = told[t]
<1>1. emt \in EmtType  BY Types
<1>2. EmtIdle \in EmtType  BY DEF EmtIdle, EmtType, EmtPcs, Ops
<1>3. CASE emt' = EmtIdle
  <2>1. /\ emt'.t = NoThread /\ emt'.todo = <<>> /\ emt'.op = "none" /\ emt'.pc = "idle"
    BY <1>3 DEF EmtIdle
  <2>2. EmtOK'  BY <1>3, <2>1 DEF EmtOK, PlacesOf, AllOps, EmtIdle
  <2>3. /\ told' \in [Threads -> {"gone", "changing", "suspended", "running", "failed"}]
        /\ told'[u] = result /\ \A t \in Threads \ {u} : told'[t] = told[t]
    BY DEF Return, TypeOK
  <2> QED BY <1>2, <1>3, <2>1, <2>2, <2>3
<1>4. CASE emt' # EmtIdle
  <2>1. emt' = [emt EXCEPT !.pc = "start", !.t = NoThread, !.ok = TRUE] /\ emt.todo # <<>>
    BY <1>4 DEF Return
  <2>2. emt.op \in AllOps  BY <2>1 DEF EmtOK
  <2>3. /\ emt' \in EmtType /\ emt'.pc = "start" /\ emt'.t = NoThread /\ emt'.op = emt.op
        /\ emt'.todo = emt.todo
    BY <1>1, <2>1 DEF EmtType, EmtPcs
  <2>4. EmtOK'  BY <2>2, <2>3 DEF EmtOK, PlacesOf, AllOps
  <2>5. /\ told' \in [Threads -> {"gone", "changing", "suspended", "running", "failed"}]
        /\ told'[u] = result /\ \A t \in Threads \ {u} : told'[t] = told[t]
    BY DEF Return, TypeOK
  <2> QED BY <2>2, <2>3, <2>4, <2>5
<1> QED BY <1>3, <1>4

\* The operation is over.
LEMMA Over ==
  ASSUME IInv, NEW u \in Threads, emt.t = u, emt.op # "init",
         NEW result \in {"suspended", "running", "failed"}, Return(u, result),
         OnlyOf(u),
         emt'.t # u /\ told'[u] = result => ThreadOK(u)'
  PROVE  IInv'
<1>1. /\ emt' \in EmtType /\ EmtOK' /\ emt'.t = NoThread /\ emt'.todo \in {emt.todo, <<>>}
      /\ told' \in [Threads -> {"gone", "changing", "suspended", "running", "failed"}]
      /\ told'[u] = result /\ \A t \in Threads \ {u} : told'[t] = told[t]
  BY Returning DEF IInv
<1>2. u # NoThread  BY NoThreadAssumption
<1>3. ThreadOK(u)'  BY <1>1, <1>2
<1> QED BY <1>1, <1>2, <1>3, ControlStep DEF OnlyOf

LEMMA PlaceFacts ==
  /\ PlacesOf("init") = {"start", "insert", "join"}
  /\ \A op \in {"suspend", "suspendAll"} : PlacesOf(op) =
        {"start", "resetUser", "ask", "wake", "look", "wait", "verify"} \cup Bails
  /\ \A op \in {"resume", "resumeAll"} : PlacesOf(op) =
        {"start", "ask", "wake", "wait", "verify"} \cup Bails
  /\ \A op \in {"destroy", "destroyAll"} : PlacesOf(op) = {"start", "wake", "unblock", "join"}
BY DEF PlacesOf

LEMMA OnlyTheseBail ==
  ASSUME TypeOK, EmtOK, emt.pc \in Bails
  PROVE  Suspends \/ Resumes
BY Types DEF EmtOK, PlacesOf, Bails, EmtType, Ops, Suspends, Resumes

LEMMA InitWaitInv ==
  ASSUME IInv, NEW u \in Threads, InitWait(u)
  PROVE  IInv'
<1> DEFINE l == IF enmState[u] = "SUSPENDED" THEN "insert" ELSE "join"
<1>1. /\ emt.op = "init" /\ emt.pc = "start" /\ userEvent[u]
      /\ enmState'[u] = enmState[u] /\ BlockEvent'[u] = BlockEvent[u]
      /\ userEvent'[u] = userEvent[u] /\ why'[u] = why[u]
      /\ emt.t = u /\ l \in PlacesOf(emt.op) /\ EmtGoto(l) /\ OnlyOf(u) /\ told' = told
  BY PlaceFacts DEF InitWait, At, OnlyOf, events, counts, Bails, IInv, TypeOK
<1>2. ThreadOK(u) /\ thr' = thr  BY <1>1 DEF IInv, OnlyOf
<1>3. ASSUME emt'.pc = l, emt'.t = u, emt'.op = emt.op PROVE ThreadOK(u)'
  <2>1. StateOK(u)'  BY <1>1, <1>2, <1>3 DEF ThreadOK, StateOK, Busy, Ending
  <2>2. CallerOK(u)'
    BY <1>1, <1>2, <1>3
    DEF ThreadOK, CallerOK, Going, IsSuspended, Suspends, Resumes, Destroys, Busy, Ending, Bails
  <2>3. HealthyOK(u)'
    BY <1>1, <1>2, <1>3
    DEF ThreadOK, HealthyOK, HealthyAt, Suspends, Resumes, Destroys, Runs, Sleeps,
          IsSuspended, Suspending, Resuming, Ends, Busy, Ending, Bails, CallerOK
  <2> QED BY <2>1, <2>2, <2>3 DEF ThreadOK
<1> QED BY <1>1, <1>3, GoesOn

LEMMA SuspendResetUserInv ==
  ASSUME IInv, NEW u \in Threads, SuspendResetUser(u)
  PROVE  IInv'
<1>1. /\ Suspends /\ emt.pc = "resetUser" /\ ~userEvent'[u]
      /\ enmState'[u] = enmState[u] /\ BlockEvent'[u] = BlockEvent[u] /\ why'[u] = why[u]
      /\ emt.t = u /\ "ask" \in PlacesOf(emt.op) /\ EmtGoto("ask") /\ OnlyOf(u) /\ told' = told
  BY PlaceFacts
  DEF SuspendResetUser, Suspends, Reset, At, OnlyOf, events, counts, Bails, IInv, TypeOK
<1>2. ThreadOK(u) /\ thr' = thr  BY <1>1 DEF IInv, OnlyOf
<1>3. ASSUME emt'.pc = "ask", emt'.t = u, emt'.op = emt.op PROVE ThreadOK(u)'
  <2>1. StateOK(u)'  BY <1>1, <1>2, <1>3 DEF ThreadOK, StateOK, Busy, Ending
  <2>2. CallerOK(u)'
    BY <1>1, <1>2, <1>3
    DEF ThreadOK, CallerOK, Going, IsSuspended, Suspends, Resumes, Destroys, Busy, Ending, Bails
  <2>3. HealthyOK(u)'
    BY <1>1, <1>2, <1>3
    DEF ThreadOK, HealthyOK, HealthyAt, Suspends, Resumes, Destroys, Runs, Sleeps,
          IsSuspended, Suspending, Resuming, Ends, Busy, Ending, Bails
  <2> QED BY <2>1, <2>2, <2>3 DEF ThreadOK
<1> QED BY <1>1, <1>3, GoesOn

LEMMA SuspendWakeInv ==
  ASSUME IInv, NEW u \in Threads, SuspendWake(u)
  PROVE  IInv'
<1>1. /\ Suspends /\ emt.pc = "wake"
      /\ enmState'[u] = enmState[u] /\ BlockEvent'[u] = BlockEvent[u]
      /\ userEvent'[u] = userEvent[u] /\ why'[u] = why[u]
      /\ emt.t = u /\ "look" \in PlacesOf(emt.op) /\ EmtGoto("look") /\ OnlyOf(u) /\ told' = told
  BY PlaceFacts
  DEF SuspendWake, SignalSleep, Suspends, Set, At, OnlyOf, events, counts, Bails, IInv, TypeOK
<1>2. ThreadOK(u) /\ thr' = thr  BY <1>1 DEF IInv, OnlyOf
<1>3. ASSUME emt'.pc = "look", emt'.t = u, emt'.op = emt.op PROVE ThreadOK(u)'
  <2>1. StateOK(u)'  BY <1>1, <1>2, <1>3 DEF ThreadOK, StateOK, Busy, Ending
  <2>2. CallerOK(u)'
    BY <1>1, <1>2, <1>3
    DEF ThreadOK, CallerOK, Going, IsSuspended, Suspends, Resumes, Destroys, Busy, Ending, Bails
  <2>3. HealthyOK(u)'
    BY <1>1, <1>2, <1>3
    DEF ThreadOK, HealthyOK, HealthyAt, Suspends, Resumes, Destroys, Runs, Sleeps,
          IsSuspended, Suspending, Resuming, Ends, Busy, Ending, Bails
  <2> QED BY <2>1, <2>2, <2>3 DEF ThreadOK
<1> QED BY <1>1, <1>3, GoesOn

LEMMA SuspendLookInv ==
  ASSUME IInv, NEW u \in Threads, SuspendLook(u)
  PROVE  IInv'
<1> DEFINE l == IF enmState[u] # "SUSPENDED" THEN "wait" ELSE "verify"
<1>1. /\ Suspends /\ emt.pc = "look" /\ emt.t = u /\ l \in PlacesOf(emt.op) /\ EmtGoto(l)
      /\ UNCHANGED <<enmState, BlockEvent, SleepEvent, userEvent, thr, pThreads, told, counts>>
  BY PlaceFacts DEF SuspendLook, Suspends, At, events
<1>2. why' = IF enmState[u] = "SUSPENDED" /\ thr[u].pc = "signalSuspended"
             THEN [why EXCEPT ![u] = @ \cup {"late"}] ELSE why
  <2>1. why \in [Threads -> SUBSET Reasons]  BY DEF IInv, TypeOK
  <2>2. [why EXCEPT ![u] = @] = why  BY <2>1
  <2> QED BY <2>2 DEF SuspendLook
<1>3. OnlyOf(u)
  BY <1>1, <1>2 DEF OnlyOf, counts, IInv, TypeOK, Reasons
<1>4. why'[u] = IF enmState[u] = "SUSPENDED" /\ thr[u].pc = "signalSuspended"
                THEN why[u] \cup {"late"} ELSE why[u]
  BY <1>2 DEF IInv, TypeOK
<1>5. ThreadOK(u)  BY DEF IInv
<1>6. ASSUME emt'.pc = l, emt'.t = u, emt'.op = emt.op PROVE ThreadOK(u)'
  <2>1. StateOK(u)'  BY <1>1, <1>4, <1>5, <1>6 DEF ThreadOK, StateOK, Busy, Ending
  <2>2. CallerOK(u)'
    BY <1>1, <1>4, <1>5, <1>6
    DEF ThreadOK, CallerOK, Going, IsSuspended, Suspends, Resumes, Destroys, Busy, Ending, Bails
  <2>3. HealthyOK(u)'
    BY <1>1, <1>4, <1>5, <1>6
    DEF ThreadOK, HealthyOK, HealthyAt, Suspends, Resumes, Destroys, Runs, Sleeps,
          IsSuspended, Suspending, Resuming, Ends, Busy, Ending, Bails, CallerOK
  <2> QED BY <2>1, <2>2, <2>3 DEF ThreadOK
<1> QED BY <1>1, <1>3, <1>6, GoesOn

LEMMA UserWaitInv ==
  ASSUME IInv, NEW u \in Threads, UserWait(u)
  PROVE  IInv'
<1>1. /\ Suspends \/ Resumes
      /\ emt.pc = "wait" /\ userEvent[u]
      /\ enmState'[u] = enmState[u] /\ BlockEvent'[u] = BlockEvent[u]
      /\ userEvent'[u] = userEvent[u] /\ why'[u] = why[u]
      /\ emt.t = u /\ "verify" \in PlacesOf(emt.op) /\ EmtGoto("verify") /\ OnlyOf(u) /\ told' = told
  BY PlaceFacts DEF UserWait, Suspends, Resumes, At, OnlyOf, events, counts, Bails, IInv, TypeOK
<1>2. ThreadOK(u) /\ thr' = thr  BY <1>1 DEF IInv, OnlyOf
<1>3. ASSUME emt'.pc = "verify", emt'.t = u, emt'.op = emt.op PROVE ThreadOK(u)'
  <2>1. StateOK(u)'  BY <1>1, <1>2, <1>3 DEF ThreadOK, StateOK, Busy, Ending
  <2>2. CallerOK(u)'
    BY <1>1, <1>2, <1>3
    DEF ThreadOK, CallerOK, Going, IsSuspended, Suspends, Resumes, Destroys, Busy, Ending, Bails
  <2>3. HealthyOK(u)'
    BY <1>1, <1>2, <1>3
    DEF ThreadOK, HealthyOK, HealthyAt, Suspends, Resumes, Destroys, Runs, Sleeps,
          IsSuspended, Suspending, Resuming, Ends, Busy, Ending, Bails, CallerOK
  <2> QED BY <2>1, <2>2, <2>3 DEF ThreadOK
<1> QED BY <1>1, <1>3, GoesOn

LEMMA ResumeStartInv ==
  ASSUME IInv, NEW u \in Threads, ResumeStart(u)
  PROVE  IInv'
<1>1. /\ Resumes /\ emt.pc = "start" /\ ~userEvent'[u]
      /\ enmState'[u] = enmState[u] /\ BlockEvent'[u] = BlockEvent[u] /\ why'[u] = why[u]
      /\ emt.t = u /\ "ask" \in PlacesOf(emt.op) /\ EmtGoto("ask") /\ OnlyOf(u) /\ told' = told
  BY PlaceFacts
  DEF ResumeStart, ResetUser, Resumes, Reset, At, OnlyOf, events, counts, Bails, IInv, TypeOK
<1>2. ThreadOK(u) /\ thr' = thr  BY <1>1 DEF IInv, OnlyOf
<1>3. ASSUME emt'.pc = "ask", emt'.t = u, emt'.op = emt.op PROVE ThreadOK(u)'
  <2>1. StateOK(u)'  BY <1>1, <1>2, <1>3 DEF ThreadOK, StateOK, Busy, Ending
  <2>2. CallerOK(u)'
    BY <1>1, <1>2, <1>3
    DEF ThreadOK, CallerOK, Going, IsSuspended, Suspends, Resumes, Destroys, Busy, Ending, Bails
  <2>3. HealthyOK(u)'
    BY <1>1, <1>2, <1>3
    DEF ThreadOK, HealthyOK, HealthyAt, Suspends, Resumes, Destroys, Runs, Sleeps,
          IsSuspended, Suspending, Resuming, Ends, Busy, Ending, Bails
  <2> QED BY <2>1, <2>2, <2>3 DEF ThreadOK
<1> QED BY <1>1, <1>3, GoesOn

LEMMA ResumeWakeInv ==
  ASSUME IInv, NEW u \in Threads, ResumeWake(u)
  PROVE  IInv'
<1>1. /\ Resumes /\ emt.pc = "wake"
      /\ BlockEvent'[u] /\ enmState'[u] = enmState[u] /\ userEvent'[u] = userEvent[u] /\ why'[u] = why[u]
      /\ emt.t = u /\ "wait" \in PlacesOf(emt.op) /\ EmtGoto("wait") /\ OnlyOf(u) /\ told' = told
  BY PlaceFacts DEF ResumeWake, Resumes, Set, At, OnlyOf, events, counts, Bails, IInv, TypeOK
<1>2. ThreadOK(u) /\ thr' = thr  BY <1>1 DEF IInv, OnlyOf
<1>3. ASSUME emt'.pc = "wait", emt'.t = u, emt'.op = emt.op PROVE ThreadOK(u)'
  <2>1. StateOK(u)'  BY <1>1, <1>2, <1>3 DEF ThreadOK, StateOK, Busy, Ending, CallerOK
  <2>2. CallerOK(u)'
    BY <1>1, <1>2, <1>3
    DEF ThreadOK, CallerOK, Going, IsSuspended, Suspends, Resumes, Destroys, Busy, Ending,
         Bails, PlacesOf
  <2>3. HealthyOK(u)'
    BY <1>1, <1>2, <1>3
    DEF ThreadOK, HealthyOK, HealthyAt, Suspends, Resumes, Destroys, Runs, Sleeps,
          IsSuspended, Suspending, Resuming, Ends, Busy, Ending, Bails
  <2> QED BY <2>1, <2>2, <2>3 DEF ThreadOK
<1> QED BY <1>1, <1>3, GoesOn

LEMMA BailKickInv ==
  ASSUME IInv, NEW u \in Threads, BailKick(u)
  PROVE  IInv'
<1>1. /\ emt.pc \in {"bailWake", "bailUnblock"}
      /\ Suspends \/ Resumes
      /\ BlockEvent[u] => BlockEvent'[u]
      /\ enmState'[u] = enmState[u] /\ userEvent'[u] = userEvent[u] /\ why'[u] = why[u]
      /\ emt.t = u /\ "bailed" \in PlacesOf(emt.op) /\ EmtGoto("bailed") /\ OnlyOf(u) /\ told' = told
  <2>1. emt.pc \in {"bailWake", "bailUnblock"} /\ emt.t = u  BY DEF BailKick, At
  <2>2. /\ BlockEvent[u] => BlockEvent'[u]
        /\ enmState'[u] = enmState[u] /\ userEvent'[u] = userEvent[u] /\ why'[u] = why[u]
        /\ EmtGoto("bailed") /\ told' = told
    BY DEF BailKick, Set, events, counts, IInv, TypeOK
  <2>3. OnlyOf(u)  BY DEF BailKick, Set, OnlyOf, events, counts, IInv, TypeOK
  <2>4. Suspends \/ Resumes  BY <2>1, OnlyTheseBail DEF IInv, Bails
  <2>5. "bailed" \in PlacesOf(emt.op)  BY <2>4, PlaceFacts DEF Suspends, Resumes, Bails
  <2> QED BY <2>1, <2>2, <2>3, <2>4, <2>5
<1>2. ThreadOK(u) /\ thr' = thr  BY <1>1 DEF IInv, OnlyOf
<1>3. ASSUME emt'.pc = "bailed", emt'.t = u, emt'.op = emt.op PROVE ThreadOK(u)'
  <2>1. StateOK(u)'  BY <1>1, <1>2, <1>3 DEF ThreadOK, StateOK, Busy, Ending
  <2>2. CallerOK(u)'
    BY <1>1, <1>2, <1>3
    DEF ThreadOK, CallerOK, Going, IsSuspended, Suspends, Resumes, Destroys, Busy, Ending, Bails
  <2>3. HealthyOK(u)'
    BY <1>1, <1>2, <1>3
    DEF ThreadOK, HealthyOK, HealthyAt, Suspends, Resumes, Destroys, Runs, Sleeps,
          IsSuspended, Suspending, Resuming, Ends, Busy, Ending, Bails
  <2> QED BY <2>1, <2>2, <2>3 DEF ThreadOK
<1> QED BY <1>1, <1>3, GoesOn

LEMMA DestroyWakeInv ==
  ASSUME IInv, NEW u \in Threads, DestroyWake(u)
  PROVE  IInv'
<1>1. /\ Destroys /\ emt.pc = "wake"
      /\ enmState'[u] = enmState[u] /\ BlockEvent'[u] = BlockEvent[u]
      /\ userEvent'[u] = userEvent[u] /\ why'[u] = why[u]
      /\ emt.t = u /\ "unblock" \in PlacesOf(emt.op) /\ EmtGoto("unblock") /\ OnlyOf(u) /\ told' = told
  BY PlaceFacts DEF DestroyWake, Destroys, Set, At, OnlyOf, events, counts, Bails, IInv, TypeOK
<1>2. ThreadOK(u) /\ thr' = thr  BY <1>1 DEF IInv, OnlyOf
<1>3. ASSUME emt'.pc = "unblock", emt'.t = u, emt'.op = emt.op PROVE ThreadOK(u)'
  <2>1. StateOK(u)'  BY <1>1, <1>2, <1>3 DEF ThreadOK, StateOK, Busy, Ending
  <2>2. CallerOK(u)'
    BY <1>1, <1>2, <1>3
    DEF ThreadOK, CallerOK, Going, IsSuspended, Suspends, Resumes, Destroys, Busy, Ending, Bails
  <2>3. HealthyOK(u)'
    BY <1>1, <1>2, <1>3
    DEF ThreadOK, HealthyOK, HealthyAt, Suspends, Resumes, Destroys, Runs, Sleeps,
          IsSuspended, Suspending, Resuming, Ends, Busy, Ending, Bails
  <2> QED BY <2>1, <2>2, <2>3 DEF ThreadOK
<1> QED BY <1>1, <1>3, GoesOn

LEMMA DestroyUnblockInv ==
  ASSUME IInv, NEW u \in Threads, DestroyUnblock(u)
  PROVE  IInv'
<1>1. /\ Destroys /\ emt.pc = "unblock"
      /\ BlockEvent'[u] /\ enmState'[u] = enmState[u] /\ userEvent'[u] = userEvent[u] /\ why'[u] = why[u]
      /\ emt.t = u /\ "join" \in PlacesOf(emt.op) /\ EmtGoto("join") /\ OnlyOf(u) /\ told' = told
  BY PlaceFacts DEF DestroyUnblock, Destroys, Set, At, OnlyOf, events, counts, Bails, IInv, TypeOK
<1>2. ThreadOK(u) /\ thr' = thr  BY <1>1 DEF IInv, OnlyOf
<1>3. ASSUME emt'.pc = "join", emt'.t = u, emt'.op = emt.op PROVE ThreadOK(u)'
  <2>1. StateOK(u)'  BY <1>1, <1>2, <1>3 DEF ThreadOK, StateOK, Busy, Ending
  <2>2. CallerOK(u)'
    BY <1>1, <1>2, <1>3
    DEF ThreadOK, CallerOK, Going, IsSuspended, Suspends, Resumes, Destroys, Busy, Ending, Bails
  <2>3. HealthyOK(u)'
    BY <1>1, <1>2, <1>3
    DEF ThreadOK, HealthyOK, HealthyAt, Suspends, Resumes, Destroys, Runs, Sleeps,
          IsSuspended, Suspending, Resuming, Ends, Busy, Ending, Bails
  <2> QED BY <2>1, <2>2, <2>3 DEF ThreadOK
<1> QED BY <1>1, <1>3, GoesOn

LEMMA SuspendStartInv ==
  ASSUME IInv, NEW u \in Threads, SuspendStart(u)
  PROVE  IInv'
<1>1. /\ Suspends /\ emt.pc = "start" /\ emt.t = u /\ ThreadOK(u)
      /\ emt.op # "init" /\ "resetUser" \in PlacesOf(emt.op)
      /\ UNCHANGED <<enmState, SleepEvent, userEvent, thr, pThreads, why, counts>>
  BY PlaceFacts DEF SuspendStart, Suspends, At, IInv
<1>2. CASE enmState[u] = "SUSPENDED"
  <2>1. Return(u, "suspended") /\ BlockEvent' = BlockEvent  BY <1>2 DEF SuspendStart
  <2>2. OnlyOf(u)  BY <1>1, <2>1 DEF OnlyOf, counts, IInv, TypeOK
  <2>3. ASSUME emt'.t # u, told'[u] = "suspended" PROVE ThreadOK(u)'
    <3>1. StateOK(u)'  BY <1>1, <1>2, <2>1, <2>3 DEF ThreadOK, StateOK, Busy, Ending
    <3>2. CallerOK(u)'
      BY <1>1, <1>2, <2>1, <2>3
      DEF ThreadOK, CallerOK, Going, IsSuspended, Suspends, Resumes, Destroys, Busy, Ending,
           Bails, StateOK, IsSuspended
    <3>3. HealthyOK(u)'
      BY <1>1, <1>2, <2>1, <2>3
      DEF ThreadOK, HealthyOK, HealthyAt, Suspends, Resumes, Destroys, Runs, Sleeps,
          IsSuspended, Suspending, Resuming, Ends, Busy, Ending, Bails, CallerOK, StateOK
    <3> QED BY <3>1, <3>2, <3>3 DEF ThreadOK
  <2> QED BY <1>1, <2>1, <2>2, <2>3, Over
<1>3. CASE enmState[u] # "SUSPENDED"
  <2>1. EmtGoto("resetUser") /\ told' = told /\ BlockEvent' = [BlockEvent EXCEPT ![u] = FALSE]
    BY <1>3 DEF SuspendStart, Reset
  <2>2. OnlyOf(u) /\ ~BlockEvent'[u]  BY <1>1, <2>1 DEF OnlyOf, counts, IInv, TypeOK
  <2>3. ASSUME emt'.pc = "resetUser", emt'.t = u, emt'.op = emt.op PROVE ThreadOK(u)'
    <3>1. StateOK(u)'  BY <1>1, <1>3, <2>1, <2>2, <2>3 DEF ThreadOK, StateOK, Busy, Ending
    <3>2. CallerOK(u)'
      BY <1>1, <1>3, <2>1, <2>2, <2>3
      DEF ThreadOK, CallerOK, Going, IsSuspended, Suspends, Resumes, Destroys, Busy, Ending, Bails
    <3>3. HealthyOK(u)'
      BY <1>1, <1>3, <2>1, <2>2, <2>3
      DEF ThreadOK, HealthyOK, HealthyAt, Suspends, Resumes, Destroys, Runs, Sleeps,
          IsSuspended, Suspending, Resuming, Ends, Busy, Ending, Bails
    <3> QED BY <3>1, <3>2, <3>3 DEF ThreadOK
  <2> QED BY <1>1, <2>1, <2>2, <2>3, GoesOn
<1> QED BY <1>2, <1>3

\* The request to suspend or to resume: only a thread to which something has
\* happened is not in the state that the EMT expects.
LEMMA AskInv ==
  ASSUME IInv, NEW u \in Threads, SuspendAsk(u) \/ ResumeAsk(u)
  PROVE  IInv'
<1> DEFINE from == IF Suspends THEN "RUNNING" ELSE "SUSPENDED"
           to == IF Suspends THEN "SUSPENDING" ELSE "RESUMING"
<1>1. /\ Suspends \/ Resumes
      /\ emt.pc = "ask" /\ emt.t = u /\ ThreadOK(u)
      /\ "bail" \in PlacesOf(emt.op) /\ "wake" \in PlacesOf(emt.op)
      /\ UNCHANGED <<BlockEvent, SleepEvent, userEvent, thr, pThreads, told, why, counts>>
      /\ \/ enmState[u] = from /\ enmState' = [enmState EXCEPT ![u] = to] /\ EmtGoto("wake")
         \/ enmState[u] # from /\ EmtFail /\ enmState' = enmState
  BY PlaceFacts DEF SuspendAsk, ResumeAsk, CasState, Suspends, Resumes, At, IInv, events, Bails
<1>2. CASE enmState[u] = from
  <2>1. enmState'[u] = to /\ OnlyOf(u)
    BY <1>1, <1>2 DEF OnlyOf, counts, IInv, TypeOK, States
  <2>2. ASSUME emt'.pc = "wake", emt'.t = u, emt'.op = emt.op PROVE ThreadOK(u)'
    <3>1. StateOK(u)'  BY <1>1, <1>2, <2>1, <2>2 DEF ThreadOK, StateOK, Busy, Ending
    <3>2. CallerOK(u)'
      BY <1>1, <1>2, <2>1, <2>2
      DEF ThreadOK, CallerOK, Going, IsSuspended, Suspends, Resumes, Destroys, Busy, Ending, Bails
    <3>3. HealthyOK(u)'
      BY <1>1, <1>2, <2>1, <2>2
      DEF ThreadOK, HealthyOK, HealthyAt, Suspends, Resumes, Destroys, Runs, Sleeps,
          IsSuspended, Suspending, Resuming, Ends, Busy, Ending, Bails, CallerOK
    <3> QED BY <3>1, <3>2, <3>3 DEF ThreadOK
  <2> QED BY <1>1, <1>2, <2>1, <2>2, GoesOn
<1>3. CASE enmState[u] # from
  <2>1. enmState' = enmState /\ EmtFail  BY <1>1, <1>3
  <2>2. OnlyOf(u)  BY <1>1, <2>1 DEF OnlyOf, counts, IInv, TypeOK
  <2>3. ASSUME emt'.pc = "bail", emt'.t = u, emt'.op = emt.op PROVE ThreadOK(u)'
    <3>1. StateOK(u)'  BY <1>1, <1>3, <2>1, <2>3 DEF ThreadOK, StateOK, Busy, Ending
    <3>2. CallerOK(u)'
      BY <1>1, <1>3, <2>1, <2>3
      DEF ThreadOK, CallerOK, Going, IsSuspended, Suspends, Resumes, Destroys, Busy, Ending, Bails
    <3>3. HealthyOK(u)'
      BY <1>1, <1>3, <2>1, <2>3
      DEF ThreadOK, HealthyOK, HealthyAt, Suspends, Resumes, Destroys, Runs, Sleeps,
          IsSuspended, Suspending, Resuming, Ends, Busy, Ending, Bails
    <3> QED BY <3>1, <3>2, <3>3 DEF ThreadOK
  <2> QED BY <1>1, <2>1, <2>2, <2>3, Fails
<1> QED BY <1>2, <1>3

LEMMA UserWaitTimeoutInv ==
  ASSUME IInv, NEW u \in Threads, UserWaitTimeout(u)
  PROVE  IInv'
<1>1. /\ Suspends \/ Resumes
      /\ emt.pc = "wait" /\ emt.t = u /\ ThreadOK(u) /\ "bail" \in PlacesOf(emt.op)
      /\ why' = [why EXCEPT ![u] = @ \cup {"timeout"}] /\ EmtFail
      /\ timeouts < MaxTimeouts /\ timeouts' = timeouts + 1
      /\ UNCHANGED <<enmState, BlockEvent, SleepEvent, userEvent, thr, pThreads, told, calls, failures>>
  BY PlaceFacts DEF UserWaitTimeout, Suspends, Resumes, At, IInv, events, Bails
<1>2. why'[u] = why[u] \cup {"timeout"} /\ OnlyOf(u)
  BY <1>1, BoundAssumption DEF OnlyOf, IInv, TypeOK, Reasons
<1>3. ASSUME emt'.pc = "bail", emt'.t = u, emt'.op = emt.op PROVE ThreadOK(u)'
  <2>1. StateOK(u)'  BY <1>1, <1>2, <1>3 DEF ThreadOK, StateOK, Busy, Ending
  <2>2. CallerOK(u)'
    BY <1>1, <1>2, <1>3
    DEF ThreadOK, CallerOK, Going, IsSuspended, Suspends, Resumes, Destroys, Busy, Ending, Bails
  <2>3. HealthyOK(u)'
    BY <1>1, <1>2, <1>3
    DEF ThreadOK, HealthyOK, HealthyAt, Suspends, Resumes, Destroys, Runs, Sleeps,
          IsSuspended, Suspending, Resuming, Ends, Busy, Ending, Bails
  <2> QED BY <2>1, <2>2, <2>3 DEF ThreadOK
<1> QED BY <1>1, <1>2, <1>3, Fails

\* At the end of Suspend and Resume.
LEMMA VerifyInv ==
  ASSUME IInv, NEW u \in Threads, SuspendVerify(u) \/ ResumeVerify(u)
  PROVE  IInv'
<1> DEFINE result == IF Suspends THEN "suspended" ELSE "running"
           wanted == IF Suspends THEN "SUSPENDED" ELSE "RUNNING"
<1>1. /\ Suspends \/ Resumes
      /\ emt.pc = "verify" /\ emt.t = u /\ ThreadOK(u)
      /\ "bail" \in PlacesOf(emt.op) /\ emt.op # "init"
      /\ UNCHANGED <<enmState, BlockEvent, SleepEvent, userEvent, thr, pThreads, why, counts>>
      /\ IF enmState[u] = wanted THEN Return(u, result) ELSE EmtFail /\ told' = told
  BY PlaceFacts
  DEF SuspendVerify, ResumeVerify, IsSuspended, Suspends, Resumes, At, IInv, events, Bails
<1>2. OnlyOf(u)  BY <1>1 DEF OnlyOf, counts, IInv, TypeOK
<1>3. CASE enmState[u] = wanted
  <2>1. ASSUME emt'.t # u, told'[u] = result PROVE ThreadOK(u)'
    <3>1. StateOK(u)'  BY <1>1, <1>3, <2>1 DEF ThreadOK, StateOK, Busy, Ending
    <3>2. CallerOK(u)'
      BY <1>1, <1>3, <2>1
      DEF ThreadOK, CallerOK, Going, IsSuspended, Suspends, Resumes, Destroys, Busy, Ending,
           Bails, StateOK
    <3>3. HealthyOK(u)'
      BY <1>1, <1>3, <2>1
      DEF ThreadOK, HealthyOK, HealthyAt, Suspends, Resumes, Destroys, Runs, Sleeps,
          IsSuspended, Suspending, Resuming, Ends, Busy, Ending, Bails, CallerOK, StateOK
    <3> QED BY <3>1, <3>2, <3>3 DEF ThreadOK
  <2>2. Return(u, result)  BY <1>1, <1>3
  <2>3. result \in {"suspended", "running", "failed"}  OBVIOUS
  <2> HIDE DEF result
  <2> QED BY <1>1, <1>2, <2>1, <2>2, <2>3, Over
<1>4. CASE enmState[u] # wanted
  <2>1. ASSUME emt'.pc = "bail", emt'.t = u, emt'.op = emt.op PROVE ThreadOK(u)'
    <3>1. StateOK(u)'  BY <1>1, <1>4, <2>1 DEF ThreadOK, StateOK, Busy, Ending
    <3>2. CallerOK(u)'
      BY <1>1, <1>4, <2>1
      DEF ThreadOK, CallerOK, Going, IsSuspended, Suspends, Resumes, Destroys, Busy, Ending, Bails
    <3>3. HealthyOK(u)'
      BY <1>1, <1>4, <2>1
      DEF ThreadOK, HealthyOK, HealthyAt, Suspends, Resumes, Destroys, Runs, Sleeps,
          IsSuspended, Suspending, Resuming, Ends, Busy, Ending, Bails
    <3> QED BY <3>1, <3>2, <3>3 DEF ThreadOK
  <2> QED BY <1>1, <1>2, <1>4, <2>1, Fails
<1> QED BY <1>3, <1>4

LEMMA BailOutInv ==
  ASSUME IInv, NEW u \in Threads, BailOut(u)
  PROVE  IInv'
<1> DEFINE l == IF enmState[u] = "RUNNING" THEN "bailWake"
                ELSE IF enmState[u] \in {"SUSPENDING", "SUSPENDED"} THEN "bailUnblock" ELSE "bailed"
           s == IF enmState[u] \in {"SUSPENDING", "SUSPENDED", "RESUMING", "RUNNING"}
                THEN "TERMINATING" ELSE enmState[u]
<1>1. /\ Suspends \/ Resumes
      /\ emt.pc = "bail" /\ emt.t = u /\ ThreadOK(u) /\ l \in PlacesOf(emt.op) /\ EmtGoto(l)
      /\ UNCHANGED <<BlockEvent, SleepEvent, userEvent, thr, pThreads, told, why, counts>>
      /\ enmState' = [enmState EXCEPT ![u] = s]
  <2>1. /\ emt.pc = "bail" /\ emt.t = u /\ ThreadOK(u)
        /\ UNCHANGED <<BlockEvent, SleepEvent, userEvent, thr, pThreads, told, why, counts>>
    BY DEF BailOut, At, IInv, events
  <2>2. Suspends \/ Resumes  BY <2>1, OnlyTheseBail DEF IInv, Bails
  <2>3. l \in PlacesOf(emt.op)  BY <2>2, PlaceFacts DEF Suspends, Resumes, Bails
  <2>4. EmtGoto(l)  BY DEF BailOut
  <2>5. enmState' = [enmState EXCEPT ![u] = s]  BY DEF BailOut, IInv, TypeOK
  <2> QED BY <2>1, <2>2, <2>3, <2>4, <2>5
<1>2. enmState'[u] = s /\ OnlyOf(u)
  <2>1. s \in States  BY DEF IInv, TypeOK, States
  <2> QED BY <1>1, <2>1 DEF OnlyOf, counts, IInv, TypeOK
<1>3. ASSUME emt'.pc = l, emt'.t = u, emt'.op = emt.op PROVE ThreadOK(u)'
  <2>1. StateOK(u)'  BY <1>1, <1>2, <1>3 DEF ThreadOK, StateOK, Busy, Ending
  <2>2. CallerOK(u)'
    BY <1>1, <1>2, <1>3
    DEF ThreadOK, CallerOK, Going, IsSuspended, Suspends, Resumes, Destroys, Busy, Ending, Bails
  <2>3. HealthyOK(u)'
    BY <1>1, <1>2, <1>3
    DEF ThreadOK, HealthyOK, HealthyAt, Suspends, Resumes, Destroys, Runs, Sleeps,
          IsSuspended, Suspending, Resuming, Ends, Busy, Ending, Bails
  <2> QED BY <2>1, <2>2, <2>3 DEF ThreadOK
<1> QED BY <1>1, <1>2, <1>3, GoesOn

LEMMA BailedInv ==
  ASSUME IInv, NEW u \in Threads, Bailed(u)
  PROVE  IInv'
<1>1. /\ emt.pc = "bailed" /\ emt.t = u /\ ThreadOK(u) /\ Return(u, "failed")
      /\ UNCHANGED <<enmState, BlockEvent, SleepEvent, userEvent, thr, pThreads, why, counts>>
  BY DEF Bailed, At, IInv, events
<1>2. Suspends \/ Resumes  BY <1>1, OnlyTheseBail DEF IInv, Bails
<1>3. OnlyOf(u)  BY <1>1 DEF OnlyOf, counts, IInv, TypeOK
<1>4. ASSUME emt'.t # u, told'[u] = "failed" PROVE ThreadOK(u)'
  <2>1. StateOK(u)'  BY <1>1, <1>2, <1>4 DEF ThreadOK, StateOK, Busy, Ending
  <2>2. CallerOK(u)'
    BY <1>1, <1>2, <1>4
    DEF ThreadOK, CallerOK, Going, IsSuspended, Suspends, Resumes, Destroys, Busy, Ending,
         Bails, HealthyOK, HealthyAt
  <2>3. HealthyOK(u)'
    BY <1>1, <1>2, <1>4
    DEF ThreadOK, HealthyOK, HealthyAt, Suspends, Resumes, Destroys, Runs, Sleeps,
          IsSuspended, Suspending, Resuming, Ends, Busy, Ending, Bails, CallerOK
  <2> QED BY <2>1, <2>2, <2>3 DEF ThreadOK
<1> QED BY <1>1, <1>2, <1>3, <1>4, Over DEF Suspends, Resumes

LEMMA DestroyStartInv ==
  ASSUME IInv, NEW u \in Threads, DestroyStart(u)
  PROVE  IInv'
<1> DEFINE over == enmState[u] \in {"TERMINATING", "TERMINATED"}
           s == IF over THEN enmState[u] ELSE "TERMINATING"
           l == IF enmState[u] = "RUNNING" THEN "wake" ELSE "unblock"
<1>1. /\ Destroys /\ emt.pc = "start" /\ emt.t = u /\ ThreadOK(u)
      /\ l \in PlacesOf(emt.op) /\ EmtGoto(l)
      /\ UNCHANGED <<BlockEvent, SleepEvent, userEvent, thr, pThreads, told, why, counts>>
  BY PlaceFacts DEF DestroyStart, Destroys, At, IInv, events
<1>2. enmState' = [enmState EXCEPT ![u] = s] /\ s \in States
  BY DEF DestroyStart, IInv, TypeOK, States
<1>3. enmState'[u] = s /\ OnlyOf(u)
  BY <1>1, <1>2 DEF OnlyOf, counts, IInv, TypeOK
<1>4. ASSUME emt'.pc = l, emt'.t = u, emt'.op = emt.op PROVE ThreadOK(u)'
  <2>1. StateOK(u)'  BY <1>1, <1>3, <1>4 DEF ThreadOK, StateOK, Busy, Ending, CallerOK
  <2>2. CallerOK(u)'
    BY <1>1, <1>3, <1>4
    DEF ThreadOK, CallerOK, Going, IsSuspended, Suspends, Resumes, Destroys, Busy, Ending,
         Bails, StateOK
  <2>3. HealthyOK(u)'
    BY <1>1, <1>3, <1>4
    DEF ThreadOK, HealthyOK, HealthyAt, Suspends, Resumes, Destroys, Runs, Sleeps,
          IsSuspended, Suspending, Resuming, Ends, Busy, Ending, Bails, CallerOK
  <2> QED BY <2>1, <2>2, <2>3 DEF ThreadOK
<1> QED BY <1>1, <1>3, <1>4, GoesOn

LEMMA DestroyTimeoutInv ==
  ASSUME IInv, NEW u \in Threads, DestroyTimeout(u)
  PROVE  IInv'
<1>1. /\ Destroys /\ emt.pc = "join" /\ emt.t = u /\ ThreadOK(u) /\ Return(u, "failed")
      /\ why' = [why EXCEPT ![u] = @ \cup {"timeout"}] /\ emt.op # "init"
      /\ timeouts < MaxTimeouts /\ timeouts' = timeouts + 1
      /\ UNCHANGED <<enmState, BlockEvent, SleepEvent, userEvent, thr, pThreads, calls, failures>>
  BY DEF DestroyTimeout, Destroys, At, IInv, events
<1>2. why'[u] = why[u] \cup {"timeout"} /\ OnlyOf(u)
  BY <1>1, BoundAssumption DEF OnlyOf, IInv, TypeOK, Reasons
<1>3. ASSUME emt'.t # u, told'[u] = "failed" PROVE ThreadOK(u)'
  <2>1. StateOK(u)'  BY <1>1, <1>2, <1>3 DEF ThreadOK, StateOK, Busy, Ending
  <2>2. CallerOK(u)'
    BY <1>1, <1>2, <1>3
    DEF ThreadOK, CallerOK, Going, IsSuspended, Suspends, Resumes, Destroys, Busy, Ending, Bails
  <2>3. HealthyOK(u)'
    BY <1>1, <1>2, <1>3
    DEF ThreadOK, HealthyOK, HealthyAt, Suspends, Resumes, Destroys, Runs, Sleeps,
          IsSuspended, Suspending, Resuming, Ends, Busy, Ending, Bails
  <2> QED BY <2>1, <2>2, <2>3 DEF ThreadOK
<1> QED BY <1>1, <1>2, <1>3, Over

-----------------------------------------------------------------------------
(* The list. *)

LEMMA NothingInIt ==
  ASSUME NEW s, s = <<>>
  PROVE  ToSet(s) = {} /\ IsInjective(s)
<1>1. s \in Seq(Threads) /\ Len(s) = 0  BY EmptySeq
<1>2. DOMAIN s = {}  BY <1>1, LenProperties
<1>3. ToSet(s) = {}  BY <1>2 DEF ToSet
<1>4. IsInjective(s)  BY <1>2 DEF IsInjective
<1> QED BY <1>3, <1>4

LEMMA AppendFacts ==
  ASSUME NEW s \in Seq(Threads), NEW e \in Threads, IsInjective(s), e \notin ToSet(s)
  PROVE  /\ Append(s, e) \in Seq(Threads) /\ IsInjective(Append(s, e))
         /\ ToSet(Append(s, e)) = ToSet(s) \cup {e}
<1>1. /\ Append(s, e) \in Seq(Threads) /\ DOMAIN Append(s, e) = 1 .. Len(s) + 1
      /\ \A i \in 1 .. Len(s) : Append(s, e)[i] = s[i]
      /\ Append(s, e)[Len(s) + 1] = e /\ DOMAIN s = 1 .. Len(s) /\ Len(s) \in Nat
  OBVIOUS
<1>2. \A i \in DOMAIN s : s[i] # e  BY DEF ToSet
<1>3. IsInjective(Append(s, e))  BY <1>1, <1>2 DEF IsInjective
<1>4. ToSet(Append(s, e)) = ToSet(s) \cup {e}  BY <1>1 DEF ToSet
<1> QED BY <1>1, <1>3, <1>4

LEMMA TailFacts ==
  ASSUME NEW s \in Seq(Threads), s # <<>>, IsInjective(s)
  PROVE  /\ Tail(s) \in Seq(Threads) /\ IsInjective(Tail(s)) /\ Head(s) \in ToSet(s)
         /\ ToSet(Tail(s)) = ToSet(s) \ {Head(s)} /\ Head(s) \in Threads
<1>1. /\ Tail(s) \in Seq(Threads) /\ DOMAIN Tail(s) = 1 .. Len(s) - 1
      /\ \A i \in 1 .. Len(s) - 1 : Tail(s)[i] = s[i + 1]
      /\ Head(s) = s[1] /\ DOMAIN s = 1 .. Len(s) /\ Len(s) \in Nat /\ Len(s) > 0
  OBVIOUS
<1>2. IsInjective(Tail(s))  BY <1>1 DEF IsInjective
<1>3. ToSet(Tail(s)) \subseteq ToSet(s) \ {Head(s)}  BY <1>1 DEF ToSet, IsInjective
<1>4. ASSUME NEW x \in ToSet(s) \ {Head(s)} PROVE x \in ToSet(Tail(s))
  <2>1. PICK i \in 1 .. Len(s) : s[i] = x  BY <1>1 DEF ToSet
  <2>2. i - 1 \in 1 .. Len(s) - 1 /\ Tail(s)[i - 1] = x  BY <1>1, <1>4, <2>1
  <2> QED BY <1>1, <2>2 DEF ToSet
<1>5. Head(s) \in ToSet(s) /\ Head(s) \in Threads  BY <1>1 DEF ToSet
<1> QED BY <1>1, <1>2, <1>3, <1>4, <1>5

LEMMA UnlinkedFacts ==
  ASSUME TypeOK, NEW u \in Alive
  PROVE  /\ Unlinked(u) \in Seq(Threads) /\ IsInjective(Unlinked(u))
         /\ ToSet(Unlinked(u)) = Alive \ {u}
<1> DEFINE i == CHOOSE j \in DOMAIN pThreads : pThreads[j] = u
           n == Len(pThreads)
           a == SubSeq(pThreads, 1, i - 1)
           b == SubSeq(pThreads, i + 1, n)
           s == a \o b
<1>0. pThreads \in Seq(Threads) /\ IsInjective(pThreads)  BY DEF TypeOK
<1>1. i \in 1 .. n /\ pThreads[i] = u /\ n \in Nat
  BY <1>0 DEF Alive, ToSet
<1> HIDE DEF i
<1>2. /\ s \in Seq(Threads) /\ DOMAIN s = 1 .. n - 1
      /\ \A j \in 1 .. n - 1 : s[j] = IF j < i THEN pThreads[j] ELSE pThreads[j + 1]
  <2>1. \A j \in 1 .. n : pThreads[j] \in Threads  BY <1>0, ElementOfSeq
  <2>2. /\ a \in Seq(Threads) /\ Len(a) = i - 1
        /\ \A j \in 1 .. i - 1 : a[j] = pThreads[j]
    <3>1. \A j \in 1 .. i - 1 : pThreads[j] \in Threads  BY <1>1, <2>1
    <3>2. 1 \in Int /\ i - 1 \in Int  BY <1>1
    <3>3. /\ a \in Seq(Threads) /\ Len(a) = IF 1 <= i - 1 THEN i - 1 - 1 + 1 ELSE 0
          /\ \A j \in 1 .. i - 1 - 1 + 1 : a[j] = pThreads[1 + j - 1]
      BY <3>1, <3>2, SubSeqProperties
    <3> QED BY <1>1, <3>3
  <2>3. /\ b \in Seq(Threads) /\ Len(b) = n - i
        /\ \A j \in 1 .. n - i : b[j] = pThreads[i + j]
    <3>1. \A j \in i + 1 .. n : pThreads[j] \in Threads  BY <1>1, <2>1
    <3>2. i + 1 \in Int /\ n \in Int  BY <1>1
    <3>3. /\ b \in Seq(Threads) /\ Len(b) = IF i + 1 <= n THEN n - (i + 1) + 1 ELSE 0
          /\ \A j \in 1 .. n - (i + 1) + 1 : b[j] = pThreads[i + 1 + j - 1]
      BY <3>1, <3>2, SubSeqProperties
    <3> QED BY <1>1, <3>3
  <2> HIDE DEF a, b
  <2>4. /\ s \in Seq(Threads) /\ Len(s) = n - 1
        /\ \A j \in 1 .. n - 1 : s[j] = IF j <= i - 1 THEN a[j] ELSE b[j - (i - 1)]
    <3>1. /\ s \in Seq(Threads) /\ Len(s) = Len(a) + Len(b)
          /\ \A j \in 1 .. Len(a) + Len(b) : s[j] = IF j <= Len(a) THEN a[j] ELSE b[j - Len(a)]
      BY <2>2, <2>3, ConcatProperties
    <3>2. Len(a) + Len(b) = n - 1 /\ Len(a) = i - 1  BY <1>1, <2>2, <2>3
    <3> QED BY <3>1, <3>2
  <2>5. DOMAIN s = 1 .. n - 1  BY <2>4, LenProperties
  <2> HIDE DEF s
  <2>6. ASSUME NEW j \in 1 .. n - 1
        PROVE  s[j] = IF j < i THEN pThreads[j] ELSE pThreads[j + 1]
    BY <1>1, <2>2, <2>3, <2>4
  <2> QED BY <2>4, <2>5, <2>6
<1> HIDE DEF a, b, s
<1>3. DOMAIN pThreads = 1 .. n  BY <1>0, LenProperties
<1>4. ToSet(s) \subseteq Alive \ {u} /\ IsInjective(s)
  <2>1. \A j, k \in 1 .. n : pThreads[j] = pThreads[k] => j = k  BY <1>0, <1>3 DEF IsInjective
  <2> HIDE DEF n
  <2>2. ASSUME NEW j \in 1 .. n - 1, NEW k \in 1 .. n - 1, s[j] = s[k] PROVE j = k
    <3>1. j \in 1 .. n /\ j + 1 \in 1 .. n /\ k \in 1 .. n /\ k + 1 \in 1 .. n  BY <1>1
    <3> QED BY <1>1, <1>2, <2>1, <2>2, <3>1
  <2>3. ASSUME NEW j \in 1 .. n - 1 PROVE s[j] \in Alive \ {u}
    <3>1. j \in 1 .. n /\ j + 1 \in 1 .. n  BY <1>1
    <3>2. s[j] # u  BY <1>1, <1>2, <2>1, <3>1
    <3>3. s[j] \in Alive  BY <1>2, <1>3, <3>1 DEF Alive, ToSet
    <3> QED BY <3>2, <3>3
  <2>4. IsInjective(s)  BY <1>2, <2>2 DEF IsInjective
  <2>5. ToSet(s) \subseteq Alive \ {u}  BY <1>2, <2>3 DEF ToSet
  <2> QED BY <2>4, <2>5
<1>5. ASSUME NEW x \in Alive \ {u} PROVE x \in ToSet(s)
  <2>1. PICK j \in 1 .. n : pThreads[j] = x  BY <1>3 DEF Alive, ToSet
  <2>2. j # i  BY <1>1, <1>5, <2>1
  <2>3. CASE j < i
    <3>1. j \in 1 .. n - 1 /\ s[j] = x  BY <1>1, <1>2, <2>1, <2>3
    <3> QED BY <1>1, <1>2, <3>1 DEF ToSet
  <2>4. CASE j > i
    <3>1. j - 1 \in 1 .. n - 1 /\ s[j - 1] = x  BY <1>1, <1>2, <2>1, <2>4
    <3> QED BY <1>1, <1>2, <3>1 DEF ToSet
  <2> QED BY <1>1, <2>1, <2>2, <2>3, <2>4
<1>6. Unlinked(u) = s  BY DEF Unlinked, s, a, b, i
<1> QED BY <1>2, <1>4, <1>5, <1>6

LEMMA InitInsertInv ==
  ASSUME IInv, NEW u \in Threads, InitInsert(u)
  PROVE  IInv'
<1>1. /\ emt.op = "init" /\ emt.pc = "insert" /\ emt.t = u /\ ThreadOK(u) /\ u # NoThread
      /\ pThreads' = Append(pThreads, u) /\ userEvent' = [userEvent EXCEPT ![u] = FALSE]
      /\ Return(u, "suspended")
      /\ UNCHANGED <<enmState, BlockEvent, SleepEvent, thr, why, counts>>
  BY NoThreadAssumption DEF InitInsert, At, Reset, IInv
<1>2. /\ emt' \in EmtType /\ EmtOK' /\ emt'.t = NoThread
      /\ emt'.op \in {emt.op, "none"} /\ (emt'.op # "none" => emt.op \in AllOps)
      /\ emt'.todo \in {emt.todo, <<>>}
      /\ told' \in [Threads -> {"gone", "changing", "suspended", "running", "failed"}]
      /\ told'[u] = "suspended" /\ \A t \in Threads \ {u} : told'[t] = told[t]
  BY <1>1, Returning DEF IInv
<1>3. emt'.op = "none" /\ emt'.todo = <<>>  BY <1>1, <1>2 DEF AllOps, IInv, EmtOK
<1>4. u \notin Alive /\ thr[u].pc # "gone"
  BY <1>1 DEF IInv, ListOK, ThreadOK, CallerOK, IsSuspended, StateOK
<1>5. pThreads' \in Seq(Threads) /\ IsInjective(pThreads') /\ Alive' = Alive \cup {u}
  BY <1>1, <1>4, AppendFacts DEF IInv, TypeOK, Alive
<1>6. TypeOK'  BY <1>1, <1>2, <1>5 DEF IInv, TypeOK, EmtType, counts
<1>7. ListOK'
  <2>1. \A t \in Threads : t \in Alive' <=> thr'[t].pc # "gone"
    BY <1>1, <1>4, <1>5 DEF IInv, ListOK
  <2>2. ToSet(emt'.todo) = {} /\ IsInjective(emt'.todo)  BY <1>3, NothingInIt
  <2> QED BY <1>3, <2>1, <2>2 DEF ListOK
<1>8. /\ userEvent' \in [Threads -> BOOLEAN]
      /\ \A t \in Threads \ {u} : userEvent'[t] = userEvent[t]
  BY <1>1 DEF IInv, TypeOK
<1>9. \A t \in Threads \ {u} : ThreadOK(t)'
  <2> SUFFICES ASSUME NEW t \in Threads \ {u} PROVE ThreadOK(t)'  OBVIOUS
  <2>1. t # NoThread  BY NoThreadAssumption
  <2> QED BY <1>1, <1>2, <1>8, <2>1, Untouched DEF IInv
<1>10. ThreadOK(u)'
  <2>1. StateOK(u)'  BY <1>1, <1>2 DEF ThreadOK, StateOK, Busy, Ending
  <2>2. CallerOK(u)'
    BY <1>1, <1>2
    DEF ThreadOK, CallerOK, Going, IsSuspended, Suspends, Resumes, Destroys, Busy, Ending, Bails
  <2>3. HealthyOK(u)'
    BY <1>1, <1>2
    DEF ThreadOK, HealthyOK, HealthyAt, Suspends, Resumes, Destroys, Runs, Sleeps,
          IsSuspended, Suspending, Resuming, Ends, Busy, Ending, Bails
  <2> QED BY <2>1, <2>2, <2>3 DEF ThreadOK
<1> QED BY <1>2, <1>6, <1>7, <1>9, <1>10 DEF IInv

\* The thread has ended: its structure and its events go away.
LEMMA JoinInv ==
  ASSUME IInv, NEW u \in Threads, InitJoin(u) \/ DestroyJoin(u)
  PROVE  IInv'
<1>1. /\ emt.t = u /\ ThreadOK(u) /\ u # NoThread /\ thr[u].pc = "exited"
      /\ enmState' = [enmState EXCEPT ![u] = "INVALID"]
      /\ userEvent' = [userEvent EXCEPT ![u] = FALSE]
      /\ BlockEvent' = [BlockEvent EXCEPT ![u] = FALSE]
      /\ SleepEvent' = [SleepEvent EXCEPT ![u] = FALSE]
      /\ Return(u, "gone") /\ UNCHANGED <<why, counts>>
  BY NoThreadAssumption DEF InitJoin, DestroyJoin, HasExited, DestroyEvents, At, Reset, IInv
<1>2. thr' = [thr EXCEPT ![u] = Gone]
  BY <1>1 DEF InitJoin, DestroyJoin
<1>3. /\ emt' \in EmtType /\ EmtOK' /\ emt'.t = NoThread
      /\ emt'.op \in {emt.op, "none"} /\ (emt'.op # "none" => emt.op \in AllOps)
      /\ emt'.todo \in {emt.todo, <<>>}
      /\ told' \in [Threads -> {"gone", "changing", "suspended", "running", "failed"}]
      /\ told'[u] = "gone" /\ \A t \in Threads \ {u} : told'[t] = told[t]
  BY <1>1, Returning DEF IInv
<1>4. /\ thr' \in [Threads -> ThrType] /\ thr'[u] = Gone
      /\ \A t \in Threads \ {u} : thr'[t] = thr[t]
  BY <1>2, Types DEF IInv, Gone, ThrType, ThrPcs, States
<1>5. pThreads' \in Seq(Threads) /\ IsInjective(pThreads') /\ Alive' = Alive \ {u}
  <2>1. CASE InitJoin(u)
    <3>1. pThreads' = pThreads /\ u \notin Alive
      BY <1>1, <2>1 DEF InitJoin, IInv, ListOK
    <3> QED BY <3>1 DEF IInv, TypeOK, Alive
  <2>2. CASE DestroyJoin(u)
    <3>1. pThreads' = Unlinked(u) /\ u \in Alive
      BY <1>1, <2>2 DEF DestroyJoin, Destroys, IInv, ListOK
    <3> QED BY <3>1, UnlinkedFacts DEF IInv, Alive
  <2> QED BY <2>1, <2>2
<1>6. /\ enmState' \in [Threads -> States] /\ enmState'[u] = "INVALID"
      /\ userEvent' \in [Threads -> BOOLEAN] /\ BlockEvent' \in [Threads -> BOOLEAN]
      /\ SleepEvent' \in [Threads -> BOOLEAN] /\ ~userEvent'[u] /\ ~BlockEvent'[u]
      /\ \A t \in Threads \ {u} : /\ enmState'[t] = enmState[t] /\ userEvent'[t] = userEvent[t]
                                  /\ BlockEvent'[t] = BlockEvent[t]
  BY <1>1 DEF IInv, TypeOK, States
<1>7. TypeOK'  BY <1>1, <1>3, <1>4, <1>5, <1>6 DEF IInv, TypeOK, ThrType, EmtType, counts
<1>8. ListOK'
  <2>1. ToSet(emt'.todo) \subseteq ToSet(emt.todo) /\ IsInjective(emt'.todo)
    <3>1. emt'.todo = <<>> => ToSet(emt'.todo) = {} /\ IsInjective(emt'.todo)
      BY NothingInIt
    <3>2. emt'.todo = emt.todo => ToSet(emt'.todo) \subseteq ToSet(emt.todo) /\ IsInjective(emt'.todo)
      BY DEF IInv, ListOK
    <3> QED BY <1>3, <3>1, <3>2
  <2>2. ToSet(emt.todo) \subseteq Alive \ {u}  BY <1>1 DEF IInv, ListOK
  <2>3. NoThread \notin Alive'  BY <1>5, NoThreadAssumption DEF Alive, ToSet
  <2>4. \A t \in Threads : t \in Alive' <=> thr'[t].pc # "gone"
    <3> SUFFICES ASSUME NEW t \in Threads PROVE t \in Alive' <=> thr'[t].pc # "gone"  OBVIOUS
    <3>1. CASE t = u  BY <1>4, <1>5, <3>1 DEF Gone
    <3>2. CASE t # u  BY <1>1, <1>4, <1>5, <3>2 DEF IInv, ListOK
    <3> QED BY <3>1, <3>2
  <2>5. \A t \in Threads : emt'.t # t  BY <1>3, NoThreadAssumption
  <2> QED BY <1>3, <1>5, <2>1, <2>2, <2>3, <2>4, <2>5 DEF ListOK
<1>9. \A t \in Threads \ {u} : ThreadOK(t)'
  <2> SUFFICES ASSUME NEW t \in Threads \ {u} PROVE ThreadOK(t)'  OBVIOUS
  <2>1. t # NoThread  BY NoThreadAssumption
  <2> QED BY <1>1, <1>3, <1>4, <1>6, <2>1, Untouched DEF IInv
<1>10. ThreadOK(u)'
  <2>1. StateOK(u)'  BY <1>4, <1>6 DEF StateOK, Gone, Ending
  <2>2. CallerOK(u)'  BY <1>1, <1>3, <1>4, <1>6 DEF CallerOK, Gone
  <2>3. HealthyOK(u)'  BY <1>1, <1>3 DEF HealthyOK
  <2> QED BY <2>1, <2>2, <2>3 DEF ThreadOK
<1> QED BY <1>3, <1>7, <1>8, <1>9, <1>10 DEF IInv

-----------------------------------------------------------------------------
(* Calls. *)

LEMMA CreateInv ==
  ASSUME IInv, NEW u \in Threads, PDMR3ThreadCreate(u)
  PROVE  IInv'
<1>1. /\ emt.t = NoThread /\ thr[u] = Gone /\ ThreadOK(u) /\ u # NoThread
      /\ emt' = [pc |-> "start", op |-> "init", t |-> u, todo |-> <<>>, ok |-> TRUE]
      /\ calls < MaxCalls /\ calls' = calls + 1
      /\ enmState' = [enmState EXCEPT ![u] = "INITIALIZING"]
      /\ thr' = [thr EXCEPT ![u] = [pc |-> "function", old |-> "INVALID"]]
      /\ told' = [told EXCEPT ![u] = "changing"] /\ why' = [why EXCEPT ![u] = {}]
      /\ UNCHANGED <<BlockEvent, SleepEvent, userEvent, pThreads, timeouts, failures>>
  BY NoThreadAssumption DEF PDMR3ThreadCreate, Call, EmtIdle, events, IInv
<1>2. /\ emt' \in EmtType /\ emt'.pc = "start" /\ emt'.op = "init" /\ emt'.t = u /\ emt'.todo = <<>>
  BY <1>1 DEF EmtType, EmtPcs, Ops
<1>3. EmtOK'  BY <1>1, <1>2 DEF EmtOK, PlacesOf, AllOps
<1>4. /\ enmState' \in [Threads -> States] /\ enmState'[u] = "INITIALIZING"
      /\ thr' \in [Threads -> ThrType] /\ thr'[u].pc = "function"
      /\ told' \in [Threads -> {"gone", "changing", "suspended", "running", "failed"}] /\ told'[u] = "changing"
      /\ why' \in [Threads -> SUBSET Reasons] /\ why'[u] = {}
      /\ \A t \in Threads \ {u} : /\ enmState'[t] = enmState[t] /\ thr'[t] = thr[t]
                                  /\ told'[t] = told[t] /\ why'[t] = why[t]
  BY <1>1, Types DEF IInv, TypeOK, States, ThrType, ThrPcs
<1>5. calls' \in 0 .. MaxCalls  BY <1>1, BoundAssumption DEF IInv, TypeOK
<1>6. TypeOK'  BY <1>1, <1>2, <1>4, <1>5 DEF IInv, TypeOK, ThrType, EmtType
<1>7. ListOK'
  <2>1. Alive' = Alive  BY <1>1 DEF Alive
  <2>2. u \notin Alive  BY <1>1 DEF IInv, ListOK, Gone
  <2>3. \A t \in Threads : t \in Alive' <=> thr'[t].pc # "gone" /\ t # u
    <3> SUFFICES ASSUME NEW t \in Threads PROVE t \in Alive' <=> thr'[t].pc # "gone" /\ t # u
      OBVIOUS
    <3>1. t # NoThread  BY NoThreadAssumption
    <3> QED BY <1>1, <1>4, <2>1, <2>2, <3>1 DEF IInv, ListOK
  <2>4. ToSet(emt'.todo) = {} /\ IsInjective(emt'.todo)  BY <1>2, NothingInIt
  <2> QED BY <1>2, <2>3, <2>4 DEF ListOK
<1>8. \A t \in Threads \ {u} : ThreadOK(t)'
  <2> SUFFICES ASSUME NEW t \in Threads \ {u} PROVE ThreadOK(t)'  OBVIOUS
  <2>1. t # NoThread  BY NoThreadAssumption
  <2> QED BY <1>1, <1>2, <1>4, <2>1, Untouched DEF IInv
<1>9. ThreadOK(u)'
  <2>1. StateOK(u)'  BY <1>4 DEF StateOK, Busy
  <2>2. ~userEvent'[u] /\ ~BlockEvent'[u]  BY <1>1 DEF ThreadOK, CallerOK, Gone
  <2>3. CallerOK(u)'  BY <1>2, <1>4, <2>2 DEF CallerOK, Suspends
  <2>4. HealthyOK(u)'
    BY <1>2, <1>4, <2>2
    DEF HealthyOK, HealthyAt, Suspends, Resumes, Destroys, Suspending, Busy, Bails
  <2> QED BY <2>1, <2>3, <2>4 DEF ThreadOK
<1> QED BY <1>3, <1>6, <1>7, <1>8, <1>9 DEF IInv

\* The EMT begins an operation on a thread of the list.
LEMMA Begins ==
  ASSUME IInv, NEW u \in Threads, u \in Alive, emt.t = NoThread,
         emt' \in EmtType, emt'.pc = "start", emt'.t = u,
         emt'.op \in {"suspend", "resume", "destroy"} \cup AllOps,
         emt'.op \notin AllOps => emt'.todo = <<>>,
         IsInjective(emt'.todo), ToSet(emt'.todo) \subseteq Alive \ {u},
         emt'.op = "suspend" => told[u] \in {"running", "suspended"},
         emt'.op = "suspendAll" => enmState[u] = "RUNNING",
         emt'.op = "resume" => told[u] = "suspended",
         emt'.op = "resumeAll" => enmState[u] = "SUSPENDED",
         told' = [told EXCEPT ![u] = "changing"], calls' \in 0 .. MaxCalls,
         UNCHANGED <<enmState, events, thr, pThreads, why, timeouts, failures>>
  PROVE  IInv'
<1>1. /\ told' \in [Threads -> {"gone", "changing", "suspended", "running", "failed"}]
      /\ told'[u] = "changing" /\ \A t \in Threads \ {u} : told'[t] = told[t]
  BY DEF IInv, TypeOK
<1>2. /\ enmState' = enmState /\ thr' = thr /\ why' = why /\ pThreads' = pThreads
      /\ BlockEvent' = BlockEvent /\ SleepEvent' = SleepEvent /\ userEvent' = userEvent
  BY DEF events
<1>3. ThreadOK(u) /\ u # NoThread /\ thr[u].pc # "gone"
  BY NoThreadAssumption DEF IInv, ListOK
<1>4. TypeOK'  BY <1>1, <1>2 DEF IInv, TypeOK, EmtType
<1>5. EmtOK'  BY <1>3 DEF EmtOK, PlacesOf, AllOps
<1>6. ListOK'
  <2>1. Alive' = Alive  BY <1>2 DEF Alive
  <2>2. \A t \in Threads : t \in Alive <=> thr[t].pc # "gone"
    BY NoThreadAssumption DEF IInv, ListOK
  <2> QED BY <1>2, <2>1, <2>2 DEF ListOK, AllOps
<1>7. \A t \in Threads \ {u} : ThreadOK(t)'
  <2> SUFFICES ASSUME NEW t \in Threads \ {u} PROVE ThreadOK(t)'  OBVIOUS
  <2>1. t # NoThread  BY NoThreadAssumption
  <2> QED BY <1>1, <1>2, <2>1, Untouched DEF IInv
<1>8. ThreadOK(u)'
  <2>1. StateOK(u)'  BY <1>2, <1>3 DEF ThreadOK, StateOK, Busy, Ending
  <2>2. told[u] \in {"suspended", "running", "failed"}
    BY <1>3 DEF ThreadOK, CallerOK, IInv, TypeOK
  <2>3. CallerOK(u)'
    BY <1>1, <1>2, <1>3, <2>2
    DEF ThreadOK, CallerOK, Going, IsSuspended, Suspends, Resumes, Destroys, AllOps, StateOK,
         Busy, Ending
  <2>4. why[u] = {} => /\ told[u] \in {"suspended", "running"}
                       /\ told[u] = "suspended" => Sleeps(u)
                       /\ told[u] = "running" => Runs(u)
    BY <1>3, <2>2 DEF ThreadOK, CallerOK, HealthyOK
  <2>5. why[u] = {} => HealthyAt(u)'
    BY <1>2, <2>4
    DEF HealthyAt, Suspends, Resumes, Destroys, AllOps, Runs, Sleeps, IsSuspended, Bails
  <2>6. HealthyOK(u)'  BY <1>1, <1>2, <2>5 DEF HealthyOK
  <2> QED BY <2>1, <2>3, <2>6 DEF ThreadOK
<1> QED BY <1>4, <1>5, <1>6, <1>7, <1>8 DEF IInv

LEMMA CallOneInv ==
  ASSUME IInv, NEW u \in Threads, CallOne(u)
  PROVE  IInv'
<1>1. /\ emt.t = NoThread /\ u \in Alive /\ calls < MaxCalls /\ calls' = calls + 1
      /\ told' = [told EXCEPT ![u] = "changing"]
      /\ UNCHANGED <<enmState, events, thr, pThreads, why, timeouts, failures>>
  BY DEF CallOne, Call, EmtIdle
<1>2. PICK op \in {"suspend", "resume", "destroy"} :
        /\ emt' = [pc |-> "start", op |-> op, t |-> u, todo |-> <<>>, ok |-> TRUE]
        /\ op = "suspend" => told[u] \in {"running", "suspended"}
        /\ op = "resume" => told[u] = "suspended"
  BY DEF CallOne, Call
<1>3. /\ emt' \in EmtType /\ emt'.pc = "start" /\ emt'.t = u /\ emt'.op = op /\ emt'.todo = <<>>
  BY <1>2 DEF EmtType, EmtPcs, Ops
<1>4. calls' \in 0 .. MaxCalls  BY <1>1, BoundAssumption DEF IInv, TypeOK
<1>5. ToSet(emt'.todo) = {} /\ IsInjective(emt'.todo)  BY <1>3, NothingInIt
<1> QED BY <1>1, <1>2, <1>3, <1>4, <1>5, Begins DEF AllOps

\* The EMT is between two threads of the list, before the first or after the last.
LEMMA Between ==
  ASSUME IInv, emt.t = NoThread, emt' \in EmtType, EmtOK', emt'.t = NoThread,
         IsInjective(emt'.todo), ToSet(emt'.todo) \subseteq Alive, calls' \in 0 .. MaxCalls,
         UNCHANGED <<enmState, events, thr, pThreads, told, why, timeouts, failures>>
  PROVE  IInv'
<1>1. /\ enmState' = enmState /\ thr' = thr /\ why' = why /\ pThreads' = pThreads /\ told' = told
      /\ BlockEvent' = BlockEvent /\ SleepEvent' = SleepEvent /\ userEvent' = userEvent
  BY DEF events
<1>2. TypeOK'  BY <1>1 DEF IInv, TypeOK, EmtType
<1>3. ListOK'
  <2>1. Alive' = Alive  BY <1>1 DEF Alive
  <2>2. NoThread \notin Alive  BY NoThreadAssumption DEF Alive, ToSet, IInv, TypeOK
  <2> QED BY <1>1, <2>1, <2>2, NoThreadAssumption DEF IInv, ListOK
<1>4. \A t \in Threads : ThreadOK(t)'  BY <1>1, NoThreadAssumption, Untouched DEF IInv
<1> QED BY <1>2, <1>3, <1>4 DEF IInv

LEMMA CallAllInv ==
  ASSUME IInv, CallAll
  PROVE  IInv'
<1>1. PICK op \in AllOps : Call(op, NoThread, pThreads)  BY DEF CallAll, AllOps
<1>2. /\ emt.t = NoThread /\ calls < MaxCalls /\ calls' = calls + 1
      /\ emt' = [pc |-> "start", op |-> op, t |-> NoThread, todo |-> pThreads, ok |-> TRUE]
      /\ UNCHANGED <<enmState, events, thr, pThreads, told, why, timeouts, failures>>
  BY <1>1 DEF CallAll, Call, EmtIdle
<1>3. /\ emt' \in EmtType /\ emt'.pc = "start" /\ emt'.t = NoThread /\ emt'.op = op
      /\ emt'.todo = pThreads
  BY <1>2 DEF EmtType, EmtPcs, Ops, AllOps, IInv, TypeOK
<1>4. EmtOK'  BY <1>3 DEF EmtOK, PlacesOf, AllOps
<1>5. IsInjective(pThreads) /\ ToSet(pThreads) = Alive /\ calls' \in 0 .. MaxCalls
  BY <1>2, BoundAssumption DEF IInv, TypeOK, Alive
<1> QED BY <1>2, <1>3, <1>4, <1>5, Between

LEMMA AllDoneInv ==
  ASSUME IInv, AllDone
  PROVE  IInv'
<1>1. /\ emt.t = NoThread /\ emt' = EmtIdle
      /\ UNCHANGED <<enmState, events, thr, pThreads, told, why, counts>>
  BY DEF AllDone
<1>2. /\ emt' \in EmtType /\ emt'.t = NoThread /\ emt'.todo = <<>>
      /\ emt'.op = "none" /\ emt'.pc = "idle"
  BY <1>1 DEF EmtIdle, EmtType, EmtPcs, Ops
<1>3. EmtOK'  BY <1>1, <1>2 DEF EmtOK, PlacesOf, EmtIdle
<1>4. calls' \in 0 .. MaxCalls /\ UNCHANGED <<timeouts, failures>>
  BY <1>1 DEF counts, IInv, TypeOK
<1>5. ToSet(emt'.todo) = {} /\ IsInjective(emt'.todo)  BY <1>2, NothingInIt
<1> QED BY <1>1, <1>2, <1>3, <1>4, <1>5, Between

LEMMA NextThreadInv ==
  ASSUME IInv, NextThread
  PROVE  IInv'
<1> DEFINE t == Head(emt.todo)
<1>1. /\ emt.t = NoThread /\ emt.todo # <<>> /\ emt.op \in AllOps /\ emt.pc = "start"
      /\ UNCHANGED <<enmState, events, thr, pThreads, why, timeouts, failures>>
      /\ calls' \in 0 .. MaxCalls
  BY DEF NextThread, AllOps, counts, IInv, TypeOK
<1>2. /\ emt \in EmtType /\ emt.todo \in Seq(Threads) /\ IsInjective(emt.todo)
      /\ ToSet(emt.todo) \subseteq Alive
  BY Types DEF IInv, EmtType, ListOK
<1>3. /\ t \in Threads /\ t \in Alive /\ Tail(emt.todo) \in Seq(Threads)
      /\ IsInjective(Tail(emt.todo)) /\ ToSet(Tail(emt.todo)) \subseteq Alive \ {t}
  BY <1>1, <1>2, TailFacts
<1>4. CASE Asks(emt.op, t)
  <2>1. emt' = [emt EXCEPT !.t = t, !.todo = Tail(@)] /\ told' = [told EXCEPT ![t] = "changing"]
    BY <1>4 DEF NextThread
  <2>2. /\ emt' \in EmtType /\ emt'.pc = "start" /\ emt'.t = t /\ emt'.op = emt.op
        /\ emt'.todo = Tail(emt.todo)
    BY <1>1, <1>2, <1>3, <2>1 DEF EmtType
  <2>3. /\ emt.op = "suspendAll" => enmState[t] = "RUNNING"
        /\ emt.op = "resumeAll" => enmState[t] = "SUSPENDED"
    BY <1>4 DEF Asks
  <2> HIDE DEF t
  <2> QED BY <1>1, <1>3, <2>1, <2>2, <2>3, Begins DEF AllOps
<1>5. CASE ~Asks(emt.op, t)
  <2>1. emt' = [emt EXCEPT !.todo = Tail(@)] /\ told' = told
    BY <1>5 DEF NextThread
  <2>2. /\ emt' \in EmtType /\ emt'.pc = "start" /\ emt'.t = NoThread /\ emt'.op = emt.op
        /\ emt'.todo = Tail(emt.todo)
    BY <1>1, <1>2, <1>3, <2>1 DEF EmtType
  <2>3. EmtOK'  BY <1>1, <2>2 DEF EmtOK, PlacesOf, AllOps
  <2> HIDE DEF t
  <2> QED BY <1>1, <1>3, <2>1, <2>2, <2>3, Between
<1> QED BY <1>4, <1>5

-----------------------------------------------------------------------------
(* The invariant. *)

LEMMA InitInv == Init => IInv
<1> SUFFICES ASSUME Init PROVE IInv  OBVIOUS
<1>1. ToSet(<<>>) = {} /\ IsInjective(<<>>) /\ <<>> \in Seq(Threads)  BY NothingInIt
<1>2. EmtIdle \in EmtType  BY <1>1 DEF EmtIdle, EmtType, EmtPcs, Ops
<1>3. TypeOK
  BY <1>1, <1>2, BoundAssumption DEF Init, TypeOK, EmtType, States, Gone, ThrPcs
<1>4. EmtOK  BY DEF Init, EmtOK, EmtIdle, PlacesOf
<1>5. ListOK
  <2>1. Alive = {} /\ emt.todo = <<>>  BY <1>1 DEF Init, Alive, EmtIdle
  <2>2. \A t \in Threads : thr[t].pc = "gone"  BY DEF Init, Gone
  <2> QED BY <1>1, <2>1, <2>2 DEF ListOK
<1>6. ASSUME NEW t \in Threads PROVE ThreadOK(t)
  <2>1. /\ thr[t] = Gone /\ enmState[t] = "INVALID" /\ told[t] = "gone" /\ why[t] = {}
        /\ ~BlockEvent[t] /\ ~userEvent[t] /\ emt.t # t
    BY NoThreadAssumption DEF Init, EmtIdle
  <2>2. StateOK(t)  BY <2>1 DEF StateOK, Gone
  <2>3. CallerOK(t)  BY <2>1 DEF CallerOK, Gone
  <2>4. HealthyOK(t)  BY <2>1 DEF HealthyOK
  <2> QED BY <2>2, <2>3, <2>4 DEF ThreadOK
<1> QED BY <1>3, <1>4, <1>5, <1>6 DEF IInv

LEMMA ControlInv ==
  ASSUME IInv, NEW t \in Threads, Control(t)
  PROVE  IInv'
<1>1. CASE InitWait(t) \/ InitInsert(t) \/ InitJoin(t)
  BY <1>1, InitWaitInv, InitInsertInv, JoinInv
<1>2. CASE \/ SuspendStart(t) \/ SuspendResetUser(t) \/ SuspendAsk(t) \/ SuspendWake(t)
           \/ SuspendLook(t) \/ UserWait(t) \/ SuspendVerify(t)
  BY <1>2, SuspendStartInv, SuspendResetUserInv, AskInv, SuspendWakeInv, SuspendLookInv,
     UserWaitInv, VerifyInv
<1>3. CASE ResumeStart(t) \/ ResumeAsk(t) \/ ResumeWake(t) \/ ResumeVerify(t)
  BY <1>3, ResumeStartInv, AskInv, ResumeWakeInv, VerifyInv
<1>4. CASE BailOut(t) \/ BailKick(t) \/ Bailed(t)
  BY <1>4, BailOutInv, BailKickInv, BailedInv
<1>5. CASE DestroyStart(t) \/ DestroyWake(t) \/ DestroyUnblock(t) \/ DestroyJoin(t)
  BY <1>5, DestroyStartInv, DestroyWakeInv, DestroyUnblockInv, JoinInv
<1> QED BY <1>1, <1>2, <1>3, <1>4, <1>5 DEF Control

LEMMA MainInv ==
  ASSUME IInv, NEW t \in Threads, Main(t)
  PROVE  IInv'
<1>1. CASE Function(t) \/ Work(t) \/ SleepLook(t) \/ SleepEnds(t)
  BY <1>1, BusyInv, FunctionInv
<1>2. CASE Returned(t) \/ SuspendingRead(t) \/ SuspendingCas(t) \/ Signal(t)
  BY <1>2, ReturnedInv, SuspendingReadInv, SuspendingCasInv, SignalInv
<1>3. CASE Blocked(t) \/ Resumed(t) \/ PDMR3ThreadIAmRunning(t)
  BY <1>3, BlockedInv, ResumedInv, IAmRunningInv
<1>4. CASE Exit(t) \/ Terminated(t) \/ SignalTerminated(t)
  BY <1>4, ExitInv, TerminatedInv, SignalInv
<1> QED BY <1>1, <1>2, <1>3, <1>4 DEF Main

LEMMA StepInv == IInv /\ [Next]_vars => IInv'
<1> SUFFICES ASSUME IInv, [Next]_vars PROVE IInv'  OBVIOUS
<1>1. CASE CallAll  BY <1>1, CallAllInv
<1>2. CASE NextThread  BY <1>2, NextThreadInv
<1>3. CASE AllDone  BY <1>3, AllDoneInv
<1>4. CASE \E t \in Threads : Control(t)  BY <1>4, ControlInv
<1>5. CASE \E t \in Threads : Main(t)  BY <1>5, MainInv
<1>6. CASE \E t \in Threads : PDMR3ThreadCreate(t) \/ CallOne(t)
  BY <1>6, CreateInv, CallOneInv
<1>7. CASE \E t \in Threads : UserWaitTimeout(t) \/ DestroyTimeout(t)
  BY <1>7, UserWaitTimeoutInv, DestroyTimeoutInv
<1>8. CASE \E t \in Threads : FunctionFails(t) \/ PDMR3ThreadSleep(t) \/ SleepTimeout(t)
  BY <1>8, FunctionFailsInv, BusyInv
<1>9. CASE UNCHANGED vars
  <2>1. /\ enmState' = enmState /\ BlockEvent' = BlockEvent /\ SleepEvent' = SleepEvent
        /\ userEvent' = userEvent /\ thr' = thr /\ pThreads' = pThreads /\ emt' = emt
        /\ told' = told /\ why' = why /\ calls' = calls /\ timeouts' = timeouts
        /\ failures' = failures
    BY <1>9 DEF vars, events, counts
  <2>2. TypeOK'  BY <2>1 DEF IInv, TypeOK
  <2>3. EmtOK'  BY <2>1 DEF IInv, EmtOK
  <2>4. ListOK'  BY <2>1 DEF IInv, ListOK, Alive
  <2>5. \A t \in Threads : ThreadOK(t)'  BY <2>1, Untouched DEF IInv
  <2> QED BY <2>2, <2>3, <2>4, <2>5 DEF IInv
<1> QED BY <1>1, <1>2, <1>3, <1>4, <1>5, <1>6, <1>7, <1>8, <1>9 DEF Next, Emt

\* The invariant holds in every state of every behaviour.
THEOREM Inductive == Spec => []IInv
BY InitInv, StepInv, PTL DEF Spec

-----------------------------------------------------------------------------
(* What it means. *)

\* The types, and that no thread is linked twice in the list of the VM.
THEOREM TypeCorrect == Spec => []TypeOK
<1>1. IInv => TypeOK  BY DEF IInv
<1> QED BY <1>1, Inductive, PTL

LEMMA ReportIsTrue == IInv => ToldIsTrue
<1> SUFFICES ASSUME IInv, NEW t \in Threads
             PROVE  /\ told[t] = "suspended" =>
                         enmState[t] = "SUSPENDED" /\ thr[t].pc \in {"signalSuspended", "blocked"}
                    /\ told[t] = "gone" => thr[t] = Gone /\ t \notin Alive
                    /\ told[t] = "running" =>
                         thr[t].pc \notin {"gone", "returned", "read", "suspend", "signalSuspended",
                                          "blocked", "resumed", "run"}
  BY DEF ToldIsTrue
<1>1. StateOK(t) /\ CallerOK(t) /\ ListOK  BY DEF IInv, ThreadOK
<1>2. ASSUME told[t] = "suspended"
      PROVE  enmState[t] = "SUSPENDED" /\ thr[t].pc \in {"signalSuspended", "blocked"}
  BY <1>1, <1>2 DEF StateOK, CallerOK, IsSuspended
<1>3. ASSUME told[t] = "gone" PROVE thr[t] = Gone /\ t \notin Alive
  BY <1>1, <1>3 DEF StateOK, CallerOK, ListOK
<1>4. ASSUME told[t] = "running" PROVE thr[t].pc \in Busy \cup Ending \cup {"signalRunning"}
  BY <1>1, <1>4 DEF CallerOK, Going
<1> QED BY <1>2, <1>3, <1>4 DEF Busy, Ending

\* A thread of which a suspend was reported is suspended until the next call, one
\* of which a destroy was reported has made its last step, and one of which a
\* resume was reported is not held up.
THEOREM ReportsAreTrue == Spec => []ToldIsTrue
BY ReportIsTrue, Inductive, PTL

\* A suspend or a resume ends in pdmR3ThreadBailOut only when the thread failed, a
\* wait timed out, or an earlier suspend left without the signal meant for it.
THEOREM FailuresHaveReasons == Spec => []FailsForAReason
<1>1. ASSUME IInv PROVE FailsForAReason
  <2> SUFFICES ASSUME emt.pc = "bail" PROVE why[emt.t] # {}  BY DEF FailsForAReason
  <2>1. emt.t \in Threads  BY <1>1 DEF IInv, EmtOK, TypeOK
  <2>2. HealthyOK(emt.t)  BY <1>1, <2>1 DEF IInv, ThreadOK
  <2> QED BY <2>2 DEF HealthyOK, HealthyAt, Bails
<1> QED BY <1>1, Inductive, PTL

\* A thread that was told to terminate does not stand before its compare-and-swap
\* with TERMINATING as the state it expects.
LEMMA DoomedElsewhere ==
  ASSUME IInv, NEW t \in Threads, enmState[t] = "TERMINATING", why[t] \subseteq {"failed"}
  PROVE  thr[t].pc \notin {"suspend", "gone", "exited"}
<1>1. ThreadOK(t) /\ EmtOK /\ TypeOK  BY DEF IInv
<1>2. thr[t].pc \notin {"gone", "exited"}  BY <1>1 DEF ThreadOK, StateOK
<1>3. ASSUME thr[t].pc = "suspend" PROVE FALSE
  <2>1. "failed" \notin why[t]  BY <1>1, <1>3 DEF ThreadOK, StateOK, Ending
  <2>2. why[t] = {}  BY <2>1
  <2>3. told[t] = "changing"
    BY <1>1, <1>3, <2>2
    DEF TypeOK, ThreadOK, CallerOK, HealthyOK, Sleeps, Runs, Busy
  <2>4. emt.t = t /\ HealthyAt(t)  BY <1>1, <2>2, <2>3 DEF ThreadOK, CallerOK, HealthyOK
  <2>5. emt.op # "none"  BY <1>1, <2>4, NoThreadAssumption DEF EmtOK, EmtIdle
  <2>6. emt.op \in Ops /\ emt.pc \in PlacesOf(emt.op)  BY <1>1 DEF TypeOK, EmtOK
  <2>7. CASE emt.op = "init"
    BY <1>3, <2>4, <2>6, <2>7
    DEF HealthyAt, PlacesOf, Suspending, Sleeps, IsSuspended, Busy
  <2>8. CASE Suspends
    BY <1>3, <2>4, <2>6, <2>8
    DEF HealthyAt, Suspends, PlacesOf, Suspending, Sleeps, Runs, IsSuspended, Busy, Bails
  <2>9. CASE Resumes
    BY <1>3, <2>4, <2>6, <2>9
    DEF HealthyAt, Resumes, PlacesOf, Resuming, Sleeps, Runs, IsSuspended, Busy, Bails
  <2>10. CASE Destroys
    BY <1>3, <2>4, <2>10 DEF HealthyAt, Destroys, Ends, Sleeps, Runs, Busy, Ending
  <2> QED BY <2>5, <2>6, <2>7, <2>8, <2>9, <2>10 DEF Ops, Suspends, Resumes, Destroys
<1> QED BY <1>2, <1>3

LEMMA DoomedStep ==
  ASSUME IInv, [Next]_vars, NEW t \in Threads,
         enmState[t] = "TERMINATING", why[t] \subseteq {"failed"}
  PROVE  enmState'[t] \in {"TERMINATING", "TERMINATED"}
<1>1. thr[t].pc \notin {"suspend", "gone", "exited"} /\ enmState \in [Threads -> States]
  BY DoomedElsewhere DEF IInv, TypeOK
<1>2. ASSUME NEW u \in Threads, Control(u)
      PROVE  \/ enmState' = enmState
             \/ enmState' = [enmState EXCEPT ![u] = "TERMINATING"]
             \/ enmState' = [enmState EXCEPT ![u] = "INVALID"] /\ thr[u].pc = "exited"
             \/ enmState[u] \in {"RUNNING", "SUSPENDED"}
                /\ \E s \in States : enmState' = [enmState EXCEPT ![u] = s]
  <2>1. CASE InitInsert(u) \/ SuspendStart(u) \/ SuspendResetUser(u) \/ SuspendWake(u)
             \/ UserWait(u) \/ InitWait(u) \/ SuspendLook(u) \/ SuspendVerify(u) \/ ResumeStart(u)
             \/ ResumeWake(u) \/ ResumeVerify(u) \/ BailKick(u) \/ Bailed(u) \/ DestroyWake(u)
             \/ DestroyUnblock(u)
    BY <2>1 DEF InitInsert, SuspendStart, SuspendResetUser, SuspendWake, UserWait, InitWait,
         SuspendLook, SuspendVerify, ResumeStart, ResumeWake, ResumeVerify, BailKick, Bailed,
         DestroyWake, DestroyUnblock
  <2>2. CASE SuspendAsk(u) \/ ResumeAsk(u)
    BY <2>2 DEF SuspendAsk, ResumeAsk, CasState, States
  <2>3. CASE BailOut(u) \/ DestroyStart(u)
    BY <2>3 DEF BailOut, DestroyStart
  <2>4. CASE InitJoin(u) \/ DestroyJoin(u)
    BY <2>4 DEF InitJoin, DestroyJoin, HasExited
  <2> QED BY <1>2, <2>1, <2>2, <2>3, <2>4 DEF Control
<1>3. ASSUME NEW u \in Threads, Main(u)
      PROVE  \/ enmState' = enmState
             \/ enmState' = [enmState EXCEPT ![u] = "TERMINATING"]
             \/ enmState' = [enmState EXCEPT ![u] = "TERMINATED"]
             \/ enmState' = [enmState EXCEPT ![u] = "SUSPENDED"] /\ thr[u].pc = "suspend"
             \/ enmState' = [enmState EXCEPT ![u] = "RUNNING"] /\ enmState[u] = "RESUMING"
  BY <1>3 DEF Main, Function, Work, SleepLook, SleepEnds, Returned, SuspendingRead, SuspendingCas,
       Signal, Blocked, Resumed, PDMR3ThreadIAmRunning, Exit, Terminated, SignalTerminated,
       ThrAt, CasState
<1>4. CASE \E u \in Threads : Control(u)
  BY <1>1, <1>2, <1>4
<1>5. CASE \E u \in Threads : Main(u)
  BY <1>1, <1>3, <1>5
<1>6. CASE \E u \in Threads : PDMR3ThreadCreate(u)
  BY <1>1, <1>6 DEF PDMR3ThreadCreate, Gone
<1>7. CASE \/ CallAll \/ NextThread \/ AllDone \/ UNCHANGED vars
           \/ \E u \in Threads : \/ CallOne(u) \/ UserWaitTimeout(u) \/ DestroyTimeout(u)
                                 \/ FunctionFails(u) \/ PDMR3ThreadSleep(u) \/ SleepTimeout(u)
  <2>1. enmState' = enmState
    BY <1>7 DEF CallAll, NextThread, AllDone, CallOne, UserWaitTimeout, DestroyTimeout,
         FunctionFails, PDMR3ThreadSleep, SleepTimeout, vars
  <2> QED BY <2>1
<1> QED BY <1>4, <1>5, <1>6, <1>7 DEF Next, Emt

\* A thread that was told to terminate stays so until it has ended, unless the
\* state it expects was read too late: after a timeout or a late signal.
THEOREM DoomedStay == Spec => DoomedStays
<1>1. IInv /\ [Next]_vars =>
        [\A t \in Threads : enmState[t] = "TERMINATING" /\ why[t] \subseteq {"failed"}
           => enmState'[t] \in {"TERMINATING", "TERMINATED"}]_vars
  BY DoomedStep
<1> QED BY <1>1, Inductive, PTL DEF Spec, DoomedStays

-----------------------------------------------------------------------------
(* No wake-up is lost. *)

\* The EMT is about to signal the sleep event, the block event.
WakesSleeper(t) == emt.t = t /\ (emt.pc = "bailWake" \/ (emt.pc = "wake" /\ ~ Resumes))
Unblocks(t) ==
  emt.t = t /\ (emt.pc \in {"bailUnblock", "unblock"} \/ (emt.pc = "wake" /\ Resumes))

\* A thread that is asleep although it was asked for something has its signal, or
\* is about to get it; the same of a thread that is blocked, or about to be.
SleeperOK(t) ==
  thr[t].pc = "asleep" /\ enmState[t] # "RUNNING" => SleepEvent[t] \/ WakesSleeper(t)
BlockedOK(t) ==
  thr[t].pc \in {"signalSuspended", "blocked"} /\ enmState[t] # "SUSPENDED" =>
    BlockEvent[t] \/ Unblocks(t)

\* Nothing makes the thread run again.
Stopping(t) == enmState[t] \notin {"RUNNING", "RESUMING"}

\* What the step of the EMT before its wait, or before its join, rests on.
WaitOK(t) == emt.t = t =>
  /\ emt.op = "init" => Stopping(t)
  /\ emt.op = "init" /\ emt.pc = "start" =>
       /\ userEvent[t] <=> thr[t].pc \in {"blocked", "exited"}
       /\ thr[t].pc \notin {"resumed", "run", "signalRunning"}
  /\ emt.op = "init" /\ emt.pc = "join" => thr[t].pc = "exited"
  /\ Suspends /\ emt.pc \in {"wake", "look", "wait"} =>
       Stopping(t) /\ (thr[t].pc \in {"blocked", "exited"} => userEvent[t])
  /\ Resumes /\ emt.pc \in {"wake", "wait"} =>
       (thr[t].pc \in Busy \cup {"exited"} => userEvent[t])
  /\ Resumes /\ emt.pc = "wait" => BlockEvent[t]
  /\ Destroys /\ emt.pc # "start" => Stopping(t)
  /\ Destroys /\ emt.pc = "join" => BlockEvent[t]

WakeOK(t) == SleeperOK(t) /\ BlockedOK(t) /\ WaitOK(t)
WakesKept == \A t \in Threads : WakeOK(t)

\* The step is about thread u alone.
About(u) ==
  \A t \in Threads \ {u} :
    /\ thr'[t] = thr[t] /\ enmState'[t] = enmState[t] /\ BlockEvent'[t] = BlockEvent[t]
    /\ SleepEvent'[t] = SleepEvent[t] /\ userEvent'[t] = userEvent[t]
    /\ emt' = emt \/ (emt.t # t /\ emt'.t # t)

LEMMA WakesElsewhere ==
  ASSUME WakesKept, NEW u \in Threads, About(u), WakeOK(u)'
  PROVE  WakesKept'
<1>1. ASSUME NEW t \in Threads \ {u} PROVE WakeOK(t)'
  <2>1. WakeOK(t)  BY DEF WakesKept
  <2>2. /\ thr'[t] = thr[t] /\ enmState'[t] = enmState[t] /\ BlockEvent'[t] = BlockEvent[t]
        /\ SleepEvent'[t] = SleepEvent[t] /\ userEvent'[t] = userEvent[t]
        /\ emt' = emt \/ (emt.t # t /\ emt'.t # t)
    BY <1>1 DEF About
  <2>3. SleeperOK(t)'  BY <2>1, <2>2 DEF WakeOK, SleeperOK, WakesSleeper, Resumes
  <2>4. BlockedOK(t)'  BY <2>1, <2>2 DEF WakeOK, BlockedOK, Unblocks, Resumes
  <2>5. WaitOK(t)'
    BY <2>1, <2>2 DEF WakeOK, WaitOK, Stopping, Suspends, Resumes, Destroys
  <2> QED BY <2>3, <2>4, <2>5 DEF WakeOK
<1> QED BY <1>1 DEF WakesKept

(* The steps of a thread: one lemma for all of them. *)
LEMMA WakesMain ==
  ASSUME IInv, WakesKept, NEW u \in Threads, About(u), emt' = emt, BlockEvent' = BlockEvent,
         thr[u].pc # "exited", thr[u].pc = "blocked" => BlockEvent[u],
         thr'[u].pc = "asleep" => enmState'[u] = "RUNNING",
         thr'[u].pc \in {"signalSuspended", "blocked"} =>
           enmState'[u] \in {enmState[u], "SUSPENDED"},
         thr'[u].pc \in {"signalSuspended", "blocked"} =>
           enmState'[u] = "SUSPENDED" \/ thr[u].pc = "signalSuspended",
         Stopping(u) => Stopping(u)',
         userEvent[u] => userEvent'[u],
         thr'[u].pc \in {"blocked", "exited"} => userEvent'[u],
         userEvent'[u] =>
           userEvent[u] \/ thr'[u].pc \in {"blocked", "exited"} \/ thr[u].pc = "signalRunning",
         thr'[u].pc \in Busy => thr[u].pc \in Busy \/ userEvent'[u],
         thr'[u].pc \in {"resumed", "run", "signalRunning"} =>
           thr[u].pc \in {"blocked", "resumed", "run"}
  PROVE  WakesKept'
<1>1. WakeOK(u) /\ CallerOK(u)  BY DEF WakesKept, IInv, ThreadOK
<1>2. SleeperOK(u)'  BY DEF SleeperOK
<1>3. BlockedOK(u)'  BY <1>1 DEF WakeOK, BlockedOK, Unblocks, Resumes
<1>4. ASSUME emt.t = u PROVE WaitOK(u)'
  <2>1. WaitOK(u)  BY <1>1 DEF WakeOK
  <2>2. CASE emt.op = "init"
    <3>1. ~ BlockEvent[u] /\ thr[u].pc # "blocked"  BY <1>1, <1>4, <2>2 DEF CallerOK
    <3>2. emt.pc # "join" /\ Stopping(u)'  BY <1>4, <2>1, <2>2 DEF WaitOK
    <3>3. ASSUME emt.pc = "start"
          PROVE  /\ userEvent'[u] <=> thr'[u].pc \in {"blocked", "exited"}
                 /\ thr'[u].pc \notin {"resumed", "run", "signalRunning"}
      BY <1>4, <2>1, <2>2, <3>1, <3>3 DEF WaitOK
    <3> QED BY <2>2, <3>2, <3>3 DEF WaitOK, Suspends, Resumes, Destroys
  <2>3. CASE Suspends
    BY <1>4, <2>1, <2>3 DEF WaitOK, Suspends, Resumes, Destroys
  <2>4. CASE Resumes
    BY <1>4, <2>1, <2>4 DEF WaitOK, Suspends, Resumes, Destroys, Busy
  <2>5. CASE Destroys
    BY <1>4, <2>1, <2>5 DEF WaitOK, Suspends, Resumes, Destroys
  <2>6. CASE emt.op \notin {"init"} /\ ~ Suspends /\ ~ Resumes /\ ~ Destroys
    BY <2>6 DEF WaitOK, Suspends, Resumes, Destroys
  <2> QED BY <2>2, <2>3, <2>4, <2>5, <2>6
<1>5. WaitOK(u)'  BY <1>4 DEF WaitOK
<1> QED BY <1>2, <1>3, <1>5, WakesElsewhere DEF WakeOK

\* The place that a thread has come to, and the frame of such a step.
LEMMA MainMoves ==
  ASSUME IInv, NEW u \in Threads, NEW l, NEW s, Goto(u, l),
         enmState' = enmState \/ enmState' = [enmState EXCEPT ![u] = s],
         userEvent' = userEvent \/ Set(userEvent, u),
         SleepEvent' = SleepEvent \/ Reset(SleepEvent, u),
         UNCHANGED <<BlockEvent, emt>>
  PROVE  /\ thr'[u].pc = l /\ About(u)
         /\ enmState' # enmState => enmState'[u] = s
         /\ userEvent' # userEvent => userEvent'[u]
<1>1. thr \in [Threads -> ThrType] /\ TypeOK  BY Types DEF IInv
<1>2. thr'[u].pc = l /\ \A t \in Threads \ {u} : thr'[t] = thr[t]
  BY <1>1 DEF Goto, ThrType
<1>3. /\ enmState' # enmState => enmState'[u] = s
      /\ \A t \in Threads \ {u} : enmState'[t] = enmState[t]
  BY <1>1 DEF TypeOK
<1>4. /\ userEvent' # userEvent => userEvent'[u]
      /\ \A t \in Threads \ {u} : userEvent'[t] = userEvent[t]
  BY <1>1 DEF TypeOK, Set
<1>5. \A t \in Threads \ {u} : SleepEvent'[t] = SleepEvent[t]
  BY <1>1 DEF TypeOK, Reset
<1> QED BY <1>2, <1>3, <1>4, <1>5 DEF About

LEMMA ThreadWakes ==
  ASSUME IInv, WakesKept, NEW u \in Threads,
         Main(u) \/ FunctionFails(u) \/ PDMR3ThreadSleep(u) \/ SleepTimeout(u)
  PROVE  WakesKept'
<1>0. TypeOK /\ StateOK(u)  BY DEF IInv, ThreadOK
<1>1. CASE Function(u)
  <2> DEFINE l == IF enmState[u] = "RUNNING" THEN "work" ELSE "returned"
  <2>1. /\ thr[u].pc = "function" /\ Goto(u, l)
        /\ UNCHANGED <<enmState, BlockEvent, userEvent, emt>>
        /\ SleepEvent' = SleepEvent \/ Reset(SleepEvent, u)
    BY <1>1 DEF Function, ThrAt, events
  <2>2. thr'[u].pc = l /\ About(u)
    <3> HIDE DEF l
    <3> QED BY <2>1, MainMoves
  <2> QED BY <2>1, <2>2, WakesMain DEF Stopping, Busy
<1>2. CASE Work(u) \/ SleepEnds(u) \/ SleepTimeout(u)
  <2> DEFINE l == "function"
  <2>1. /\ thr[u].pc \in {"work", "asleep"} /\ Goto(u, l)
        /\ UNCHANGED <<enmState, BlockEvent, userEvent, emt>>
        /\ SleepEvent' = SleepEvent \/ Reset(SleepEvent, u)
    BY <1>2 DEF Work, SleepEnds, SleepTimeout, ThrAt, events
  <2>2. thr'[u].pc = l /\ About(u)
    <3> HIDE DEF l
    <3> QED BY <2>1, MainMoves
  <2> QED BY <2>1, <2>2, WakesMain DEF Stopping, Busy
<1>3. CASE SleepLook(u)
  <2> DEFINE l == IF enmState[u] # "RUNNING" THEN "function" ELSE "asleep"
  <2>1. /\ thr[u].pc = "sleepLook" /\ Goto(u, l)
        /\ UNCHANGED <<enmState, BlockEvent, userEvent, emt>>
        /\ SleepEvent' = SleepEvent \/ Reset(SleepEvent, u)
    BY <1>3 DEF SleepLook, ThrAt, events
  <2>2. thr'[u].pc = l /\ About(u)
    <3> HIDE DEF l
    <3> QED BY <2>1, MainMoves
  <2> QED BY <2>1, <2>2, WakesMain DEF Stopping, Busy
<1>4. CASE PDMR3ThreadSleep(u)
  <2> DEFINE l == "sleepLook"
  <2>1. /\ thr[u].pc = "work" /\ Goto(u, l)
        /\ UNCHANGED <<enmState, BlockEvent, userEvent, emt>>
        /\ SleepEvent' = SleepEvent \/ Reset(SleepEvent, u)
    BY <1>4 DEF PDMR3ThreadSleep, ThrAt, events
  <2>2. thr'[u].pc = l /\ About(u)
    <3> HIDE DEF l
    <3> QED BY <2>1, MainMoves
  <2> QED BY <2>1, <2>2, WakesMain DEF Stopping, Busy
<1>5. CASE FunctionFails(u)
  <2> DEFINE l == "exit"
  <2>1. /\ thr[u].pc \in {"function", "work"} /\ Goto(u, l)
        /\ UNCHANGED <<enmState, BlockEvent, userEvent, emt>>
        /\ SleepEvent' = SleepEvent \/ Reset(SleepEvent, u)
    BY <1>5 DEF FunctionFails, ThrAt, events
  <2>2. thr'[u].pc = l /\ About(u)
    <3> HIDE DEF l
    <3> QED BY <2>1, MainMoves
  <2> QED BY <2>1, <2>2, WakesMain DEF Stopping, Busy
<1>6. CASE Returned(u)
  <2> DEFINE l == IF AskedToSuspend(u) THEN "read" ELSE "exit"
  <2>1. /\ thr[u].pc = "returned" /\ Goto(u, l)
        /\ UNCHANGED <<enmState, BlockEvent, userEvent, emt>>
        /\ SleepEvent' = SleepEvent \/ Reset(SleepEvent, u)
    BY <1>6 DEF Returned, ThrAt, events
  <2>2. thr'[u].pc = l /\ About(u)
    <3> HIDE DEF l
    <3> QED BY <2>1, MainMoves
  <2> QED BY <2>1, <2>2, WakesMain DEF Stopping, Busy
<1>7. CASE Blocked(u)
  <2> DEFINE l == IF enmState[u] # "SUSPENDED" THEN "resumed" ELSE "bailMeOut"
  <2>1. /\ thr[u].pc = "blocked" /\ BlockEvent[u] /\ Goto(u, l)
        /\ UNCHANGED <<enmState, BlockEvent, userEvent, emt>>
        /\ SleepEvent' = SleepEvent \/ Reset(SleepEvent, u)
    BY <1>7 DEF Blocked, ThrAt, events
  <2>2. thr'[u].pc = l /\ About(u)
    <3> HIDE DEF l
    <3> QED BY <2>1, MainMoves
  <2> QED BY <2>1, <2>2, WakesMain DEF Stopping, Busy
<1>8. CASE Resumed(u)
  <2> DEFINE l == IF enmState[u] = "RESUMING" THEN "run" ELSE "exit"
  <2>1. /\ thr[u].pc = "resumed" /\ Goto(u, l)
        /\ UNCHANGED <<enmState, BlockEvent, userEvent, emt>>
        /\ SleepEvent' = SleepEvent \/ Reset(SleepEvent, u)
    BY <1>8 DEF Resumed, ThrAt, events
  <2>2. thr'[u].pc = l /\ About(u)
    <3> HIDE DEF l
    <3> QED BY <2>1, MainMoves
  <2> QED BY <2>1, <2>2, WakesMain DEF Stopping, Busy
<1>9. CASE SuspendingRead(u)
  <2>1. /\ thr[u].pc = "read" /\ thr' = [thr EXCEPT ![u] = [pc |-> "suspend", old |-> enmState[u]]]
        /\ UNCHANGED <<enmState, BlockEvent, SleepEvent, userEvent, emt>>
    BY <1>9 DEF SuspendingRead, ThrAt, events
  <2>2. thr'[u].pc = "suspend" /\ About(u)  BY <1>0, <2>1 DEF TypeOK, About
  <2> QED BY <2>1, <2>2, WakesMain DEF Stopping, Busy
<1>10. CASE SuspendingCas(u)
  <2>1. CASE enmState[u] = thr[u].old
    <3>1. /\ thr[u].pc = "suspend" /\ Goto(u, "signalSuspended")
          /\ enmState[u] = thr[u].old /\ enmState' = [enmState EXCEPT ![u] = "SUSPENDED"]
          /\ UNCHANGED <<BlockEvent, SleepEvent, userEvent, emt>>
      BY <1>10, <2>1 DEF SuspendingCas, ThrAt, CasState, events
    <3>2. thr'[u].pc = "signalSuspended" /\ About(u) /\ enmState'[u] = "SUSPENDED"  BY <1>0, <3>1, MainMoves DEF TypeOK
    <3> QED BY <3>1, <3>2, WakesMain DEF Stopping, Busy
  <2>2. CASE enmState[u] # thr[u].old
    <3>1. /\ thr[u].pc = "suspend" /\ Goto(u, "bailMeOut") /\ enmState' = enmState
          /\ UNCHANGED <<BlockEvent, SleepEvent, userEvent, emt>>
      BY <1>10, <2>2 DEF SuspendingCas, ThrAt, CasState, events
    <3>2. thr'[u].pc = "bailMeOut" /\ About(u) /\ enmState'[u] = enmState[u]  BY <1>0, <3>1, MainMoves DEF TypeOK
    <3> QED BY <3>1, <3>2, WakesMain DEF Stopping, Busy
  <2> QED BY <2>1, <2>2
<1>11. CASE PDMR3ThreadIAmRunning(u)
  <2>1. CASE enmState[u] = "RESUMING"
    <3>1. /\ thr[u].pc = "run" /\ Goto(u, "signalRunning")
          /\ enmState[u] = "RESUMING" /\ enmState' = [enmState EXCEPT ![u] = "RUNNING"]
          /\ UNCHANGED <<BlockEvent, SleepEvent, userEvent, emt>>
      BY <1>11, <2>1 DEF PDMR3ThreadIAmRunning, ThrAt, CasState, events
    <3>2. thr'[u].pc = "signalRunning" /\ About(u) /\ enmState'[u] = "RUNNING"  BY <1>0, <3>1, MainMoves DEF TypeOK
    <3> QED BY <3>1, <3>2, WakesMain DEF Stopping, Busy
  <2>2. CASE enmState[u] # "RESUMING"
    <3>1. /\ thr[u].pc = "run" /\ Goto(u, "bailMeOut") /\ enmState' = enmState
          /\ UNCHANGED <<BlockEvent, SleepEvent, userEvent, emt>>
      BY <1>11, <2>2 DEF PDMR3ThreadIAmRunning, ThrAt, CasState, events
    <3>2. thr'[u].pc = "bailMeOut" /\ About(u) /\ enmState'[u] = enmState[u]  BY <1>0, <3>1, MainMoves DEF TypeOK
    <3> QED BY <3>1, <3>2, WakesMain DEF Stopping, Busy
  <2> QED BY <2>1, <2>2
<1>12. CASE Signal(u) \/ SignalTerminated(u)
  <2>1. PICK l \in {"blocked", "function", "exited"} :
          /\ Goto(u, l) /\ Set(userEvent, u) /\ UNCHANGED <<enmState, BlockEvent, SleepEvent, emt>>
          /\ l = "blocked" => thr[u].pc = "signalSuspended"
          /\ l = "function" => thr[u].pc = "signalRunning"
          /\ l = "exited" => thr[u].pc = "signalTerminated"
    BY <1>12 DEF Signal, SignalTerminated, ThrAt
  <2>2. thr'[u].pc = l /\ About(u)  BY <2>1, MainMoves
  <2>3. userEvent'[u]  BY <1>0, <2>1 DEF TypeOK, Set
  <2>4. thr[u].pc \in {"signalSuspended", "signalRunning", "signalTerminated"}  BY <2>1
  <2> QED BY <2>1, <2>2, <2>3, <2>4, WakesMain DEF Stopping, Busy
<1>13. CASE Exit(u) \/ Terminated(u)
  <2>1. PICK l \in {"exit", "terminated", "signalTerminated"} :
          /\ Goto(u, l) /\ UNCHANGED <<BlockEvent, SleepEvent, userEvent, emt>>
          /\ thr[u].pc \in {"bailMeOut", "exit", "terminated"}
          /\ \E s \in {"TERMINATING", "TERMINATED"} : enmState' = [enmState EXCEPT ![u] = s]
    BY <1>13 DEF Exit, Terminated, ThrAt, events
  <2>2. PICK s \in {"TERMINATING", "TERMINATED"} : enmState' = [enmState EXCEPT ![u] = s]
    BY <2>1
  <2>3. thr'[u].pc = l /\ About(u)  BY <2>1, <2>2, MainMoves
  <2>4. enmState'[u] = s  BY <1>0, <2>2 DEF TypeOK
  <2>5. thr[u].pc \in {"bailMeOut", "exit", "terminated"}  BY <2>1
  <2> QED BY <2>1, <2>2, <2>3, <2>4, <2>5, WakesMain DEF Stopping, Busy
<1> QED BY <1>1, <1>2, <1>3, <1>4, <1>5, <1>6, <1>7, <1>8, <1>9, <1>10, <1>11, <1>12, <1>13 DEF Main

(* The steps of the EMT. *)

\* The frame of a step that leaves the threads where they are.
LEMMA EmtFrame ==
  ASSUME IInv, NEW u \in Threads, emt.t \in {u, NoThread}, emt'.t \in {u, NoThread}, thr' = thr,
         NEW s, enmState' = enmState \/ enmState' = [enmState EXCEPT ![u] = s],
         userEvent' = userEvent \/ Reset(userEvent, u),
         SleepEvent' = SleepEvent \/ Set(SleepEvent, u),
         BlockEvent' = BlockEvent \/ Set(BlockEvent, u) \/ Reset(BlockEvent, u)
  PROVE  About(u)
<1>1. TypeOK  BY DEF IInv
<1>2. ASSUME NEW t \in Threads \ {u}
      PROVE  /\ enmState'[t] = enmState[t] /\ BlockEvent'[t] = BlockEvent[t]
             /\ SleepEvent'[t] = SleepEvent[t] /\ userEvent'[t] = userEvent[t]
  BY <1>1, <1>2 DEF TypeOK, Set, Reset
<1>3. \A t \in Threads \ {u} : emt.t # t /\ emt'.t # t  BY NoThreadAssumption
<1> QED BY <1>2, <1>3 DEF About

\* The EMT goes on, or fails, or returns.
LEMMA EmtMoves ==
  ASSUME IInv
  PROVE  /\ \A l \in EmtPcs : EmtGoto(l) => emt'.pc = l /\ emt'.t = emt.t /\ emt'.op = emt.op
         /\ EmtFail => emt'.pc = "bail" /\ emt'.t = emt.t /\ emt'.op = emt.op
         /\ \A u \in Threads, r \in {"gone", "suspended", "running", "failed"} :
               Return(u, r) => emt'.t = NoThread
<1>1. emt \in EmtType /\ TypeOK /\ EmtOK  BY Types DEF IInv
<1>2. ASSUME NEW l \in EmtPcs, EmtGoto(l)
      PROVE  emt'.pc = l /\ emt'.t = emt.t /\ emt'.op = emt.op
  BY <1>1, <1>2 DEF EmtGoto, EmtType
<1>3. EmtFail => emt'.pc = "bail" /\ emt'.t = emt.t /\ emt'.op = emt.op
  BY <1>1 DEF EmtFail, EmtType
<1> QED BY <1>1, <1>2, <1>3, Returning

\* The EMT has no thread any more, or the thread is only begun with.
LEMMA WakesBetween ==
  ASSUME IInv, WakesKept, NEW u \in Threads, emt.t \in {u, NoThread}, emt'.t \in {u, NoThread},
         UNCHANGED <<thr, enmState, BlockEvent, SleepEvent>>,
         userEvent' = userEvent \/ Reset(userEvent, u),
         emt.t = u => emt.pc \notin {"wake", "bailWake", "bailUnblock", "unblock"},
         emt'.t = u => emt'.pc = "start" /\ emt'.op # "init"
  PROVE  WakesKept'
<1>1. WakeOK(u)  BY DEF WakesKept
<1>2. About(u)
  <2>1. enmState' = enmState  OBVIOUS
  <2> QED BY <2>1, EmtFrame
<1>3. SleeperOK(u)'  BY <1>1 DEF WakeOK, SleeperOK, WakesSleeper
<1>4. BlockedOK(u)'  BY <1>1 DEF WakeOK, BlockedOK, Unblocks
<1>5. WaitOK(u)'
  BY DEF WaitOK, Suspends, Resumes, Destroys
<1> QED BY <1>2, <1>3, <1>4, <1>5, WakesElsewhere DEF WakeOK

LEMMA CallsWake ==
  ASSUME IInv, WakesKept, NEW u \in Threads,
         \/ CallOne(u) \/ DestroyTimeout(u) \/ InitInsert(u) \/ Bailed(u)
         \/ SuspendVerify(u) /\ IsSuspended(u)
         \/ ResumeVerify(u) /\ enmState[u] = "RUNNING"
         \/ SuspendStart(u) /\ enmState[u] = "SUSPENDED"
  PROVE  WakesKept'
<1>1. CASE CallOne(u)
  <2>1. /\ emt.t = NoThread /\ emt'.t = u /\ emt'.pc = "start" /\ emt'.op # "init"
        /\ UNCHANGED <<thr, enmState, BlockEvent, SleepEvent, userEvent>>
    BY <1>1 DEF CallOne, Call, EmtIdle, events
  <2> QED BY <2>1, NoThreadAssumption, WakesBetween
<1>2. CASE ~ CallOne(u)
  <2>1. /\ emt.t = u /\ emt.pc \in {"join", "insert", "verify", "bailed", "start"}
        /\ \E r \in {"suspended", "running", "failed"} : Return(u, r)
        /\ UNCHANGED <<thr, enmState, BlockEvent, SleepEvent>>
        /\ userEvent' = userEvent \/ Reset(userEvent, u)
    BY <1>2 DEF DestroyTimeout, InitInsert, SuspendVerify, ResumeVerify, Bailed, SuspendStart,
         IsSuspended, At, events
  <2>2. emt'.t = NoThread  BY <2>1, EmtMoves
  <2> QED BY <2>1, <2>2, NoThreadAssumption, WakesBetween
<1> QED BY <1>1, <1>2

LEMMA InitsWake ==
  ASSUME IInv, WakesKept, NEW u \in Threads,
         PDMR3ThreadCreate(u) \/ InitWait(u) \/ InitJoin(u) \/ DestroyJoin(u)
  PROVE  WakesKept'
<1>0. TypeOK /\ ThreadOK(u) /\ WakeOK(u) /\ u # NoThread
  BY NoThreadAssumption DEF IInv, WakesKept
<1>1. CASE PDMR3ThreadCreate(u)
  <2>1. /\ emt.t = NoThread /\ thr[u] = Gone
        /\ emt'.t = u /\ emt'.op = "init" /\ emt'.pc = "start"
        /\ enmState' = [enmState EXCEPT ![u] = "INITIALIZING"]
        /\ thr' = [thr EXCEPT ![u] = [pc |-> "function", old |-> "INVALID"]]
        /\ UNCHANGED <<BlockEvent, SleepEvent, userEvent>>
    BY <1>1 DEF PDMR3ThreadCreate, Call, EmtIdle, events
  <2>2. /\ enmState'[u] = "INITIALIZING" /\ thr'[u].pc = "function"
        /\ \A t \in Threads \ {u} : thr'[t] = thr[t] /\ enmState'[t] = enmState[t]
    BY <1>0, <2>1 DEF TypeOK
  <2>3. About(u)  BY <2>1, <2>2, NoThreadAssumption DEF About
  <2>4. ~ userEvent'[u]  BY <1>0, <2>1 DEF ThreadOK, CallerOK, Gone
  <2>5. WakeOK(u)'
    BY <2>1, <2>2, <2>4
    DEF WakeOK, SleeperOK, BlockedOK, WaitOK, Stopping, Suspends, Resumes, Destroys
  <2> QED BY <2>3, <2>5, WakesElsewhere
<1>2. CASE InitWait(u)
  <2> DEFINE l == IF enmState[u] = "SUSPENDED" THEN "insert" ELSE "join"
  <2>1. /\ emt.op = "init" /\ emt.t = u /\ emt.pc = "start" /\ userEvent[u] /\ EmtGoto(l)
        /\ UNCHANGED <<thr, enmState, BlockEvent, SleepEvent, userEvent>>
    BY <1>2 DEF InitWait, At, events
  <2>2. emt'.t = u /\ emt'.op = "init" /\ emt'.pc = l
    BY <2>1, EmtMoves DEF EmtPcs
  <2>3. thr[u].pc \in {"blocked", "exited"} /\ Stopping(u)  BY <1>0, <2>1 DEF WakeOK, WaitOK
  <2>4. ~ BlockEvent[u]  BY <1>0, <2>1 DEF ThreadOK, CallerOK
  <2>5. enmState[u] # "SUSPENDED" => thr[u].pc = "exited"
    BY <1>0, <2>1, <2>3, <2>4 DEF WakeOK, BlockedOK, Unblocks, Resumes
  <2>6. WakeOK(u)'
    BY <2>1, <2>2, <2>3, <2>4, <2>5
    DEF WakeOK, SleeperOK, BlockedOK, WaitOK, Stopping, Suspends, Resumes, Destroys
  <2>7. About(u)
    <3>1. enmState' = enmState  BY <2>1
    <3> QED BY <2>1, <2>2, <3>1, EmtFrame
  <2> QED BY <2>6, <2>7, WakesElsewhere
<1>3. CASE InitJoin(u) \/ DestroyJoin(u)
  <2>1. /\ emt.t = u /\ thr[u].pc = "exited" /\ Return(u, "gone")
        /\ enmState' = [enmState EXCEPT ![u] = "INVALID"]
        /\ userEvent' = [userEvent EXCEPT ![u] = FALSE]
        /\ BlockEvent' = [BlockEvent EXCEPT ![u] = FALSE]
        /\ SleepEvent' = [SleepEvent EXCEPT ![u] = FALSE]
    BY <1>3 DEF InitJoin, DestroyJoin, HasExited, DestroyEvents, At, Reset
  <2>2. thr' = [thr EXCEPT ![u] = Gone]  BY <1>3, <2>1 DEF InitJoin, DestroyJoin
  <2>3. emt'.t = NoThread  BY <2>1, EmtMoves
  <2>4. /\ thr'[u] = Gone
        /\ \A t \in Threads \ {u} :
              /\ thr'[t] = thr[t] /\ enmState'[t] = enmState[t] /\ BlockEvent'[t] = BlockEvent[t]
              /\ SleepEvent'[t] = SleepEvent[t] /\ userEvent'[t] = userEvent[t]
    BY <1>0, <2>1, <2>2 DEF TypeOK
  <2>5. About(u)  BY <2>1, <2>3, <2>4, NoThreadAssumption DEF About
  <2>6. WakeOK(u)'
    BY <1>0, <2>3, <2>4 DEF WakeOK, SleeperOK, BlockedOK, WaitOK, Gone
  <2> QED BY <2>5, <2>6, WakesElsewhere
<1> QED BY <1>1, <1>2, <1>3

\* The EMT goes on, or fails, in an operation on the thread.
LEMMA WakesGoOn ==
  ASSUME IInv, WakesKept, NEW u \in Threads, emt.t = u, emt'.t = u, thr' = thr,
         NEW s, enmState' = enmState \/ enmState' = [enmState EXCEPT ![u] = s],
         userEvent' = userEvent \/ Reset(userEvent, u),
         SleepEvent' = SleepEvent \/ Set(SleepEvent, u),
         BlockEvent' = BlockEvent \/ Set(BlockEvent, u) \/ Reset(BlockEvent, u),
         SleeperOK(u)', BlockedOK(u)', WaitOK(u)'
  PROVE  WakesKept'
<1>1. About(u)  BY EmtFrame
<1> QED BY <1>1, WakesElsewhere DEF WakeOK

LEMMA SuspendsWake ==
  ASSUME IInv, WakesKept, NEW u \in Threads,
         \/ SuspendStart(u) \/ SuspendResetUser(u) \/ SuspendAsk(u) \/ SuspendWake(u)
         \/ SuspendLook(u) \/ UserWait(u) \/ UserWaitTimeout(u) \/ SuspendVerify(u)
         \/ ResumeVerify(u)
  PROVE  WakesKept'
<1>0. TypeOK /\ ThreadOK(u) /\ WakeOK(u)  BY DEF IInv, WakesKept
<1>1. CASE SuspendStart(u)
  <2>1. CASE enmState[u] = "SUSPENDED"  BY <1>1, <2>1, CallsWake
  <2>2. CASE enmState[u] # "SUSPENDED"
    <3>1. /\ Suspends /\ emt.t = u /\ emt.pc = "start" /\ EmtGoto("resetUser")
          /\ Reset(BlockEvent, u) /\ UNCHANGED <<thr, enmState, SleepEvent, userEvent>>
      BY <1>1, <2>2 DEF SuspendStart, At
    <3>2. emt'.t = u /\ emt'.pc = "resetUser" /\ emt'.op = emt.op
      BY <3>1, EmtMoves DEF EmtPcs
    <3>3. thr[u].pc \notin {"signalSuspended", "blocked"}
      BY <1>0, <2>2, <3>1 DEF ThreadOK, CallerOK, IsSuspended, Going, Busy, Ending
    <3>4. SleeperOK(u)'  BY <1>0, <3>1 DEF WakeOK, SleeperOK, WakesSleeper
    <3>5. BlockedOK(u)'  BY <3>1, <3>3 DEF BlockedOK
    <3>6. WaitOK(u)'  BY <3>1, <3>2 DEF WaitOK, Suspends, Resumes, Destroys
    <3>7. enmState' = enmState  BY <3>1
    <3> QED BY <3>1, <3>2, <3>4, <3>5, <3>6, <3>7, WakesGoOn
  <2> QED BY <2>1, <2>2
<1>2. ASSUME emt.t = u, Suspends \/ Resumes, UNCHANGED <<thr, enmState, BlockEvent, SleepEvent>>,
             emt.pc \in {"resetUser", "verify", "wait", "look", "ask"},
             userEvent' = userEvent \/ Reset(userEvent, u),
             emt'.t = u, emt'.op = emt.op,
             emt'.pc \in {"ask", "bail", "verify", "wait"},
             emt'.pc = "wait" => emt.pc = "look" /\ Suspends /\ userEvent' = userEvent
      PROVE  WakesKept'
  <2>1. SleeperOK(u)'  BY <1>0, <1>2 DEF WakeOK, SleeperOK, WakesSleeper
  <2>2. BlockedOK(u)'  BY <1>0, <1>2 DEF WakeOK, BlockedOK, Unblocks
  <2>3. WaitOK(u)'
    BY <1>0, <1>2 DEF WakeOK, WaitOK, Suspends, Resumes, Destroys, Stopping
  <2>4. enmState' = enmState  BY <1>2
  <2> QED BY <1>2, <2>1, <2>2, <2>3, <2>4, WakesGoOn
<1>3. CASE SuspendResetUser(u)
  <2>1. /\ Suspends /\ emt.t = u /\ emt.pc = "resetUser" /\ EmtGoto("ask")
        /\ Reset(userEvent, u) /\ UNCHANGED <<thr, enmState, BlockEvent, SleepEvent>>
    BY <1>3 DEF SuspendResetUser, At
  <2>2. emt'.t = u /\ emt'.pc = "ask" /\ emt'.op = emt.op  BY <2>1, EmtMoves DEF EmtPcs
  <2> QED BY <1>2, <2>1, <2>2
<1>4. CASE SuspendAsk(u) /\ enmState[u] # "RUNNING"
  <2>1. /\ Suspends /\ emt.t = u /\ emt.pc = "ask" /\ EmtFail
        /\ UNCHANGED <<thr, enmState, BlockEvent, SleepEvent, userEvent>>
    BY <1>4 DEF SuspendAsk, CasState, At, events
  <2>2. emt'.t = u /\ emt'.pc = "bail" /\ emt'.op = emt.op  BY <2>1, EmtMoves
  <2> QED BY <1>2, <2>1, <2>2
<1>5. CASE SuspendAsk(u) /\ enmState[u] = "RUNNING"
  <2>1. /\ Suspends /\ emt.t = u /\ emt.pc = "ask" /\ EmtGoto("wake")
        /\ enmState' = [enmState EXCEPT ![u] = "SUSPENDING"]
        /\ UNCHANGED <<thr, BlockEvent, SleepEvent, userEvent>>
    BY <1>5 DEF SuspendAsk, CasState, At, events
  <2>2. emt'.t = u /\ emt'.pc = "wake" /\ emt'.op = emt.op  BY <2>1, EmtMoves DEF EmtPcs
  <2>3. enmState'[u] = "SUSPENDING"  BY <1>0, <2>1 DEF TypeOK
  <2>4. thr[u].pc \in Busy \cup {"signalRunning", "exit"}  BY <1>0, <1>5 DEF ThreadOK, StateOK
  <2>5. ~ Resumes' /\ Suspends'  BY <2>1, <2>2 DEF Suspends, Resumes
  <2>6. SleeperOK(u)'  BY <2>2, <2>5 DEF SleeperOK, WakesSleeper
  <2>7. BlockedOK(u)'  BY <2>1, <2>4 DEF BlockedOK, Busy
  <2>8. WaitOK(u)'
    BY <2>1, <2>2, <2>3, <2>4 DEF WaitOK, Suspends, Resumes, Destroys, Stopping, Busy
  <2> QED BY <2>1, <2>2, <2>6, <2>7, <2>8, WakesGoOn
<1>6. CASE SuspendWake(u)
  <2>1. /\ Suspends /\ emt.t = u /\ emt.pc = "wake" /\ EmtGoto("look") /\ Set(SleepEvent, u)
        /\ UNCHANGED <<thr, enmState, BlockEvent, userEvent>>
    BY <1>6 DEF SuspendWake, SignalSleep, At
  <2>2. emt'.t = u /\ emt'.pc = "look" /\ emt'.op = emt.op  BY <2>1, EmtMoves DEF EmtPcs
  <2>3. SleeperOK(u)'  BY <1>0, <2>1 DEF SleeperOK, TypeOK, Set
  <2>4. BlockedOK(u)'  BY <1>0, <2>1 DEF WakeOK, BlockedOK, Unblocks, Suspends, Resumes
  <2>5. WaitOK(u)'
    BY <1>0, <2>1, <2>2 DEF WakeOK, WaitOK, Suspends, Resumes, Destroys, Stopping
  <2>6. enmState' = enmState  BY <2>1
  <2> QED BY <2>1, <2>2, <2>3, <2>4, <2>5, <2>6, WakesGoOn
<1>7. CASE SuspendLook(u)
  <2>1. /\ Suspends /\ emt.t = u /\ emt.pc = "look"
        /\ EmtGoto("wait") \/ EmtGoto("verify")
        /\ UNCHANGED <<thr, enmState, BlockEvent, SleepEvent, userEvent>>
    BY <1>7 DEF SuspendLook, At, events
  <2>2. emt'.t = u /\ emt'.pc \in {"wait", "verify"} /\ emt'.op = emt.op
    BY <2>1, EmtMoves DEF EmtPcs
  <2> QED BY <1>2, <2>1, <2>2
<1>8. CASE UserWait(u) \/ UserWaitTimeout(u)
  <2>1. /\ Suspends \/ Resumes
        /\ emt.t = u /\ emt.pc = "wait"
        /\ EmtGoto("verify") \/ EmtFail
        /\ UNCHANGED <<thr, enmState, BlockEvent, SleepEvent, userEvent>>
    BY <1>8 DEF UserWait, UserWaitTimeout, At, events
  <2>2. emt'.t = u /\ emt'.pc \in {"bail", "verify"} /\ emt'.op = emt.op
    BY <2>1, EmtMoves DEF EmtPcs
  <2> QED BY <1>2, <2>1, <2>2
<1>9. CASE \/ SuspendVerify(u) /\ ~ IsSuspended(u)
           \/ ResumeVerify(u) /\ enmState[u] # "RUNNING"
  <2>1. /\ Suspends \/ Resumes
        /\ emt.t = u /\ emt.pc = "verify" /\ EmtFail
        /\ UNCHANGED <<thr, enmState, BlockEvent, SleepEvent, userEvent>>
    BY <1>9 DEF SuspendVerify, ResumeVerify, At, events
  <2>2. emt'.t = u /\ emt'.pc = "bail" /\ emt'.op = emt.op  BY <2>1, EmtMoves
  <2> QED BY <1>2, <2>1, <2>2
<1>10. CASE \/ SuspendVerify(u) /\ IsSuspended(u)
            \/ ResumeVerify(u) /\ enmState[u] = "RUNNING"
  BY <1>10, CallsWake
<1> QED BY <1>1, <1>3, <1>4, <1>5, <1>6, <1>7, <1>8, <1>9, <1>10

LEMMA ResumesWake ==
  ASSUME IInv, WakesKept, NEW u \in Threads,
         \/ ResumeStart(u) \/ ResumeAsk(u) \/ ResumeWake(u)
         \/ BailOut(u) \/ BailKick(u)
         \/ DestroyStart(u) \/ DestroyWake(u) \/ DestroyUnblock(u)
  PROVE  WakesKept'
<1>0. TypeOK /\ ThreadOK(u) /\ WakeOK(u)  BY DEF IInv, WakesKept
<1>1. CASE ResumeStart(u)
  <2>1. /\ Resumes /\ emt.t = u /\ emt.pc = "start" /\ EmtGoto("ask")
        /\ Reset(userEvent, u) /\ UNCHANGED <<thr, enmState, BlockEvent, SleepEvent>>
    BY <1>1 DEF ResumeStart, ResetUser, At
  <2>2. emt'.t = u /\ emt'.pc = "ask" /\ emt'.op = emt.op  BY <2>1, EmtMoves DEF EmtPcs
  <2>3. SleeperOK(u)'  BY <1>0, <2>1 DEF WakeOK, SleeperOK, WakesSleeper
  <2>4. BlockedOK(u)'  BY <1>0, <2>1 DEF WakeOK, BlockedOK, Unblocks
  <2>5. WaitOK(u)'  BY <2>1, <2>2 DEF WaitOK, Suspends, Resumes, Destroys
  <2>6. enmState' = enmState  BY <2>1
  <2> QED BY <2>1, <2>2, <2>3, <2>4, <2>5, <2>6, WakesGoOn
<1>2. CASE ResumeAsk(u) /\ enmState[u] # "SUSPENDED"
  <2>1. /\ Resumes /\ emt.t = u /\ emt.pc = "ask" /\ EmtFail
        /\ UNCHANGED <<thr, enmState, BlockEvent, SleepEvent, userEvent>>
    BY <1>2 DEF ResumeAsk, CasState, At, events
  <2>2. emt'.t = u /\ emt'.pc = "bail" /\ emt'.op = emt.op  BY <2>1, EmtMoves
  <2>3. SleeperOK(u)'  BY <1>0, <2>1 DEF WakeOK, SleeperOK, WakesSleeper
  <2>4. BlockedOK(u)'  BY <1>0, <2>1 DEF WakeOK, BlockedOK, Unblocks
  <2>5. WaitOK(u)'  BY <2>1, <2>2 DEF WaitOK, Suspends, Resumes, Destroys
  <2>6. enmState' = enmState  BY <2>1
  <2> QED BY <2>1, <2>2, <2>3, <2>4, <2>5, <2>6, WakesGoOn
<1>3. CASE ResumeAsk(u) /\ enmState[u] = "SUSPENDED"
  <2>1. /\ Resumes /\ emt.t = u /\ emt.pc = "ask" /\ EmtGoto("wake")
        /\ enmState' = [enmState EXCEPT ![u] = "RESUMING"]
        /\ UNCHANGED <<thr, BlockEvent, SleepEvent, userEvent>>
    BY <1>3 DEF ResumeAsk, CasState, At, events
  <2>2. emt'.t = u /\ emt'.pc = "wake" /\ emt'.op = emt.op  BY <2>1, EmtMoves DEF EmtPcs
  <2>3. thr[u].pc \in {"signalSuspended", "blocked", "bailMeOut"}
    BY <1>0, <1>3 DEF ThreadOK, StateOK
  <2>4. Resumes'  BY <2>1, <2>2 DEF Resumes
  <2>5. SleeperOK(u)'  BY <2>1, <2>3 DEF SleeperOK
  <2>6. BlockedOK(u)'  BY <2>2, <2>4 DEF BlockedOK, Unblocks
  <2>7. WaitOK(u)'
    BY <2>1, <2>2, <2>3 DEF WaitOK, Suspends, Resumes, Destroys, Busy
  <2> QED BY <2>1, <2>2, <2>5, <2>6, <2>7, WakesGoOn
<1>4. CASE ResumeWake(u)
  <2>1. /\ Resumes /\ emt.t = u /\ emt.pc = "wake" /\ EmtGoto("wait") /\ Set(BlockEvent, u)
        /\ UNCHANGED <<thr, enmState, SleepEvent, userEvent>>
    BY <1>4 DEF ResumeWake, At
  <2>2. emt'.t = u /\ emt'.pc = "wait" /\ emt'.op = emt.op  BY <2>1, EmtMoves DEF EmtPcs
  <2>3. BlockEvent'[u]  BY <1>0, <2>1 DEF TypeOK, Set
  <2>4. SleeperOK(u)'  BY <1>0, <2>1 DEF WakeOK, SleeperOK, WakesSleeper
  <2>5. BlockedOK(u)'  BY <2>3 DEF BlockedOK
  <2>6. WaitOK(u)'
    BY <1>0, <2>1, <2>2, <2>3 DEF WakeOK, WaitOK, Suspends, Resumes, Destroys
  <2>7. enmState' = enmState  BY <2>1
  <2> QED BY <2>1, <2>2, <2>4, <2>5, <2>6, <2>7, WakesGoOn
<1>5. CASE BailOut(u)
  <2> DEFINE l == IF enmState[u] \in {"SUSPENDING", "SUSPENDED", "RESUMING", "RUNNING"}
                  THEN CASE enmState[u] = "RUNNING"  -> "bailWake"
                         [] enmState[u] = "RESUMING" -> "bailed"
                         [] OTHER                    -> "bailUnblock"
                  ELSE "bailed"
  <2>1. /\ emt.t = u /\ emt.pc = "bail" /\ EmtGoto(l)
        /\ enmState' = enmState \/ enmState' = [enmState EXCEPT ![u] = "TERMINATING"]
        /\ UNCHANGED <<thr, BlockEvent, SleepEvent, userEvent>>
    BY <1>5 DEF BailOut, At, events
  <2>2. emt'.t = u /\ emt'.pc = l /\ emt'.op = emt.op /\ l \in Bails
    BY <2>1, EmtMoves DEF EmtPcs, Bails
  <2>3. enmState[u] = "RUNNING" => thr[u].pc \notin {"signalSuspended", "blocked"}
    BY <1>0 DEF ThreadOK, StateOK, Busy
  <2>4. SleeperOK(u)'
    BY <1>0, <2>1, <2>2 DEF WakeOK, SleeperOK, WakesSleeper
  <2>5. BlockedOK(u)'
    BY <1>0, <2>1, <2>2, <2>3 DEF WakeOK, BlockedOK, Unblocks, TypeOK
  <2>6. WaitOK(u)'
    <3>1. emt.op \in {"suspend", "suspendAll", "resume", "resumeAll"}
      BY <2>1 DEF IInv, EmtOK, PlacesOf, TypeOK, Ops
    <3> QED BY <2>2, <3>1 DEF WaitOK, Suspends, Resumes, Destroys, Bails
  <2> HIDE DEF l
  <2> QED BY <2>1, <2>2, <2>4, <2>5, <2>6, WakesGoOn
<1>6. CASE BailKick(u)
  <2>1. /\ emt.t = u /\ EmtGoto("bailed")
        /\ \/ emt.pc = "bailWake" /\ Set(SleepEvent, u) /\ BlockEvent' = BlockEvent
           \/ emt.pc = "bailUnblock" /\ Set(BlockEvent, u) /\ SleepEvent' = SleepEvent
        /\ UNCHANGED <<thr, enmState, userEvent>>
    BY <1>6 DEF BailKick, At
  <2>2. emt'.t = u /\ emt'.pc = "bailed" /\ emt'.op = emt.op  BY <2>1, EmtMoves DEF EmtPcs
  <2>3. /\ emt.pc = "bailWake" => SleepEvent'[u]
        /\ emt.pc = "bailUnblock" => BlockEvent'[u]
    BY <1>0, <2>1 DEF TypeOK, Set
  <2>4. SleeperOK(u)'  BY <1>0, <2>1, <2>3 DEF WakeOK, SleeperOK, WakesSleeper
  <2>5. BlockedOK(u)'  BY <1>0, <2>1, <2>3 DEF WakeOK, BlockedOK, Unblocks
  <2>6. WaitOK(u)'
    <3>1. emt.op \in {"suspend", "suspendAll", "resume", "resumeAll"}
      BY <2>1 DEF IInv, EmtOK, PlacesOf, TypeOK, Ops
    <3> QED BY <2>2, <3>1 DEF WaitOK, Suspends, Resumes, Destroys
  <2>7. enmState' = enmState  BY <2>1
  <2> QED BY <2>1, <2>2, <2>4, <2>5, <2>6, <2>7, WakesGoOn
<1>7. CASE DestroyStart(u)
  <2> DEFINE l == IF enmState[u] = "RUNNING" THEN "wake" ELSE "unblock"
  <2>1. /\ Destroys /\ emt.t = u /\ emt.pc = "start" /\ EmtGoto(l)
        /\ UNCHANGED <<thr, BlockEvent, SleepEvent, userEvent>>
    BY <1>7 DEF DestroyStart, At, events
  <2>2. emt'.t = u /\ emt'.pc = l /\ emt'.op = emt.op  BY <2>1, EmtMoves DEF EmtPcs
  <2>3. PICK s \in {"TERMINATING", "TERMINATED"} :
          enmState'[u] = s /\ (enmState' = enmState \/ enmState' = [enmState EXCEPT ![u] = s])
    BY <1>0, <1>7 DEF DestroyStart, TypeOK
  <2>4. enmState[u] = "RUNNING" => thr[u].pc \notin {"signalSuspended", "blocked"}
    BY <1>0 DEF ThreadOK, StateOK, Busy
  <2>5. ~ Resumes' /\ ~ Suspends' /\ Destroys' /\ emt'.op # "init"
    BY <2>1, <2>2 DEF Destroys, Suspends, Resumes
  <2>6. SleeperOK(u)'  BY <1>0, <2>1, <2>2, <2>5 DEF WakeOK, SleeperOK, WakesSleeper
  <2>7. BlockedOK(u)'  BY <2>1, <2>2, <2>4 DEF BlockedOK, Unblocks
  <2>8. WaitOK(u)'  BY <2>2, <2>3, <2>5 DEF WaitOK, Stopping
  <2> HIDE DEF l
  <2> QED BY <2>1, <2>2, <2>3, <2>6, <2>7, <2>8, WakesGoOn
<1>8. CASE DestroyWake(u) \/ DestroyUnblock(u)
  <2> DEFINE l == IF emt.pc = "wake" THEN "unblock" ELSE "join"
  <2>1. /\ Destroys /\ emt.t = u /\ emt.pc \in {"wake", "unblock"} /\ EmtGoto(l)
        /\ \/ emt.pc = "wake" /\ Set(SleepEvent, u) /\ BlockEvent' = BlockEvent
           \/ emt.pc = "unblock" /\ Set(BlockEvent, u) /\ SleepEvent' = SleepEvent
        /\ UNCHANGED <<thr, enmState, userEvent>>
    BY <1>8 DEF DestroyWake, DestroyUnblock, At
  <2>2. emt'.t = u /\ emt'.pc = l /\ emt'.op = emt.op  BY <2>1, EmtMoves DEF EmtPcs
  <2>3. /\ emt.pc = "wake" => SleepEvent'[u]
        /\ emt.pc = "unblock" => BlockEvent'[u]
    BY <1>0, <2>1 DEF TypeOK, Set
  <2>4. ~ Resumes /\ ~ Resumes' /\ ~ Suspends' /\ Destroys' /\ emt'.op # "init"
    BY <2>1, <2>2 DEF Destroys, Suspends, Resumes
  <2>5. SleeperOK(u)'  BY <1>0, <2>1, <2>3 DEF WakeOK, SleeperOK, WakesSleeper
  <2>6. BlockedOK(u)'  BY <1>0, <2>1, <2>2, <2>3, <2>4 DEF WakeOK, BlockedOK, Unblocks
  <2>7. WaitOK(u)'
    BY <1>0, <2>1, <2>2, <2>3, <2>4 DEF WakeOK, WaitOK, Stopping
  <2>8. enmState' = enmState  BY <2>1
  <2> HIDE DEF l
  <2> QED BY <2>1, <2>2, <2>5, <2>6, <2>7, <2>8, WakesGoOn
<1> QED BY <1>1, <1>2, <1>3, <1>4, <1>5, <1>6, <1>7, <1>8

LEMMA ListsWake ==
  ASSUME IInv, WakesKept, CallAll \/ NextThread \/ AllDone \/ UNCHANGED vars
  PROVE  WakesKept'
<1>1. CASE UNCHANGED vars
  BY <1>1 DEF vars, events, WakesKept, WakeOK, SleeperOK, BlockedOK, WaitOK, WakesSleeper,
       Unblocks, Suspends, Resumes, Destroys, Stopping
<1>2. ASSUME emt.t = NoThread, UNCHANGED <<thr, enmState, BlockEvent, SleepEvent, userEvent>>,
             emt'.t \in Threads \cup {NoThread},
             emt'.t \in Threads => emt'.pc = "start" /\ emt'.op # "init"
      PROVE  WakesKept'
  <2>1. CASE emt'.t \in Threads  BY <1>2, <2>1, NoThreadAssumption, WakesBetween
  <2>2. CASE emt'.t = NoThread
    <3>1. ASSUME NEW u \in Threads PROVE WakesKept'
      BY <1>2, <2>2, NoThreadAssumption, WakesBetween
    <3> QED BY <3>1 DEF WakesKept
  <2> QED BY <1>2, <2>1, <2>2
<1>3. emt \in EmtType  BY Types DEF IInv
<1>4. CASE CallAll
  <2>1. emt'.t = NoThread /\ emt.t = NoThread  BY <1>4 DEF CallAll, Call, EmtIdle
  <2>2. UNCHANGED <<thr, enmState, BlockEvent, SleepEvent, userEvent>>
    BY <1>4 DEF CallAll, events
  <2> QED BY <1>2, <2>1, <2>2, NoThreadAssumption
<1>5. CASE AllDone
  <2>1. emt'.t = NoThread /\ emt.t = NoThread  BY <1>5 DEF AllDone, EmtIdle
  <2>2. UNCHANGED <<thr, enmState, BlockEvent, SleepEvent, userEvent>>
    BY <1>5 DEF AllDone, events
  <2> QED BY <1>2, <2>1, <2>2, NoThreadAssumption
<1>6. CASE NextThread
  <2>1. /\ emt.t = NoThread /\ emt.pc = "start" /\ emt.op # "init" /\ emt.todo # <<>>
        /\ \/ emt' = [emt EXCEPT !.t = Head(emt.todo), !.todo = Tail(@)]
           \/ emt' = [emt EXCEPT !.todo = Tail(@)]
        /\ UNCHANGED <<thr, enmState, BlockEvent, SleepEvent, userEvent>>
    BY <1>6 DEF NextThread, events
  <2>2. Head(emt.todo) \in Threads  BY <1>3, <2>1, TailFacts DEF IInv, ListOK, EmtType
  <2>3. /\ emt'.pc = "start" /\ emt'.op # "init"
        /\ emt'.t = NoThread \/ emt'.t = Head(emt.todo)
    BY <1>3, <2>1 DEF EmtType
  <2> QED BY <1>2, <2>1, <2>2, <2>3
<1> QED BY <1>1, <1>4, <1>5, <1>6

LEMMA WakesAlways == Spec => []WakesKept
<1>1. Init => WakesKept
  BY DEF Init, Gone, WakesKept, WakeOK, SleeperOK, BlockedOK, WaitOK, EmtIdle, Suspends, Resumes,
         Destroys
<1>2. IInv /\ WakesKept /\ [Next]_vars => WakesKept'
  <2> SUFFICES ASSUME IInv, WakesKept, [Next]_vars PROVE WakesKept'  OBVIOUS
  <2>1. ASSUME NEW u \in Threads, Control(u) PROVE WakesKept'
    BY <2>1, CallsWake, InitsWake, SuspendsWake, ResumesWake DEF Control
  <2>2. CASE CallAll \/ NextThread \/ AllDone \/ UNCHANGED vars  BY <2>2, ListsWake
  <2>3. ASSUME NEW u \in Threads,
               \/ PDMR3ThreadCreate(u) \/ CallOne(u) \/ Main(u)
               \/ UserWaitTimeout(u) \/ DestroyTimeout(u)
               \/ FunctionFails(u) \/ PDMR3ThreadSleep(u) \/ SleepTimeout(u)
        PROVE  WakesKept'
    BY <2>3, CallsWake, InitsWake, SuspendsWake, ThreadWakes
  <2> QED BY <2>1, <2>2, <2>3 DEF Next, Emt
<1> QED BY <1>1, <1>2, Inductive, PTL DEF Spec

\* The thread makes no step before somebody else does, or none that matters: it is
\* over, it waits for a signal that has not been given, or it was not asked for
\* anything.
AtRest(t) ==
  \/ thr[t].pc \in {"gone", "exited"}
  \/ thr[t].pc = "blocked" /\ ~ BlockEvent[t]
  \/ thr[t].pc = "asleep" /\ ~ SleepEvent[t]
  \/ thr[t].pc \in Busy /\ enmState[t] = "RUNNING"

\* The EMT is in RTThreadUserWait, in RTThreadWait, and cannot go on.
AwaitsSignal(t) ==
  /\ emt.t = t /\ ~ userEvent[t]
  /\ emt.pc = "wait" \/ (emt.op = "init" /\ emt.pc = "start")
AwaitsEnd(t) == emt.t = t /\ emt.pc = "join" /\ thr[t].pc # "exited"

\* The EMT and the thread it waits for do not wait for each other.
NobodyForgotten ==
  \A t \in Threads : AwaitsSignal(t) \/ AwaitsEnd(t) => ~ AtRest(t)

(* Whenever the EMT waits for a thread in Create, Suspend, Resume or Destroy, the
   thread is on its way: it does not sleep without a signal, is not blocked without
   a signal, does not go on with its work, and has not ended without telling.  No
   order of the resets, the compare-and-swaps, the signals and the 60 second
   timeouts loses one of the three events. *)
THEOREM SignalsArrive == Spec => []NobodyForgotten
<1>1. IInv /\ WakesKept => NobodyForgotten
  <2> SUFFICES ASSUME IInv, WakesKept, NEW t \in Threads, AwaitsSignal(t) \/ AwaitsEnd(t)
               PROVE  ~ AtRest(t)
    BY DEF NobodyForgotten
  <2>1. /\ ThreadOK(t) /\ SleeperOK(t) /\ BlockedOK(t) /\ WaitOK(t) /\ EmtOK /\ TypeOK /\ emt.t = t
    BY DEF IInv, WakesKept, WakeOK, AwaitsSignal, AwaitsEnd
  <2>2. thr[t].pc # "gone"
    BY <2>1 DEF ThreadOK, CallerOK
  <2>3. emt.pc \in {"wait", "join", "start"} /\ ~ WakesSleeper(t)
    BY DEF AwaitsSignal, AwaitsEnd, WakesSleeper
  <2>4. emt.op \in Ops /\ emt.op # "none" /\ emt.pc \in PlacesOf(emt.op)
    BY <2>1, NoThreadAssumption DEF EmtOK, EmtIdle, TypeOK
  <2>5. CASE AwaitsSignal(t) /\ emt.op = "init"
    <3>1. emt.pc = "start" /\ ~ userEvent[t]  BY <2>4, <2>5 DEF AwaitsSignal, PlacesOf
    <3>2. Stopping(t) /\ thr[t].pc \notin {"blocked", "exited"}
      BY <2>1, <2>5, <3>1 DEF WaitOK
    <3>3. thr[t].pc = "asleep" => SleepEvent[t]  BY <2>1, <2>3, <3>2 DEF SleeperOK, Stopping
    <3> QED BY <2>2, <3>2, <3>3 DEF AtRest, Stopping
  <2>6. CASE AwaitsSignal(t) /\ Suspends
    BY <2>1, <2>2, <2>3, <2>6
    DEF AwaitsSignal, WaitOK, AtRest, SleeperOK, Suspends, Stopping, Busy
  <2>7. CASE AwaitsSignal(t) /\ Resumes
    BY <2>1, <2>2, <2>3, <2>7 DEF AwaitsSignal, WaitOK, AtRest, Resumes, Busy
  <2>8. CASE AwaitsSignal(t) /\ Destroys
    BY <2>4, <2>8 DEF AwaitsSignal, Destroys, PlacesOf
  <2>9. CASE AwaitsEnd(t)
    <3>1. emt.op # "init"  BY <2>1, <2>9 DEF AwaitsEnd, WaitOK
    <3>2. Destroys  BY <2>4, <2>9, <3>1 DEF AwaitsEnd, PlacesOf, Destroys, Ops, Bails
    <3> QED BY <2>1, <2>2, <2>3, <2>9, <3>2 DEF AwaitsEnd, WaitOK, AtRest, SleeperOK, Stopping
  <2> QED BY <2>4, <2>5, <2>6, <2>7, <2>8, <2>9 DEF Ops, Suspends, Resumes, Destroys
<1> QED BY <1>1, Inductive, WakesAlways, PTL

=============================================================================
