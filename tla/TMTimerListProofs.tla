------------------------- MODULE TMTimerListProofs -------------------------
(***************************************************************************)
(* Theorems about the lists of TMTimerQueue, for every set of timers and   *)
(* threads and every bound: the schedule list and the state words agree,   *)
(* nothing read earlier is stale when it is used, the active list is what  *)
(* the states say, and the queue implements the timer service.             *)
(*                                                                         *)
(* The argument: calls on one timer are serialised, so that apart from a   *)
(* call's own steps only the owner of the TM lock moves the state of its   *)
(* timer, along the few transitions of tmTimerQueueScheduleOne and         *)
(* tmR3TimerQueueRun.  What a call remembers of the state is therefore     *)
(* right in a sense that depends on the step it is at.                     *)
(***************************************************************************)
EXTENDS TMTimerQueueProofs

-----------------------------------------------------------------------------
(* The inductive invariant. *)

Busy(th) == ~ At(th, "idle")

\* A call that has claimed its timer and has yet to commit the expire time.
Sets(c) == c.pc \in {"write", "commit"} \/ (c.pc = "link" /\ c.op # "Stop")

\* The steps of the calls by what they do.
SetPcs == {"probe", "trylock", "optimize", "relative", "optimizeRelative", "start", "read", "cas",
           "again", "write", "commit"}
StopPcs == {"stop", "stopCas", "stopFallThrough"}
DestroyPcs == {"destroy", "mark", "free"}

OpFits(c) ==
  /\ c.pc \in SetPcs => c.op \in {"Set", "SetRelative"}
  /\ c.pc \in StopPcs => c.op = "Stop"
  /\ c.op = "Set" => c.arg \in ExpireTimes
  /\ c.op = "SetRelative" => c.arg \in Ticks
  /\ c.pc = "link" => c.op \in {"Set", "SetRelative", "Stop"}

\* What the step a call is at says of the state s of its timer and of the state
\* it remembers.
CallFits(c, s) ==
  /\ OpFits(c)
  /\ c.pc \in {"trylock", "optimize"} => c.old \in {"EXPIRED_DELIVER", "STOPPED"}
  /\ c.pc = "start" => s = "ACTIVE"
  /\ c.pc = "cas" => c.old \notin Transitional \cup {"DESTROY", "FREE"}
  /\ Sets(c) => s = Claim(c.old)
  /\ c.pc = "link" /\ c.op = "Stop" => s = "PENDING_STOP"
  /\ c.pc = "stopCas" => /\ c.old \in Armed
                         /\ c.old = "PENDING_SCHEDULE" => s = c.old \/ s \notin Pending
  /\ c.pc = "stopFallThrough" => c.old = "PENDING_SCHEDULE" /\ s \notin Pending
  /\ c.pc = "free" => s = "DESTROY"
  /\ c.pc \notin DestroyPcs => s \notin {"DESTROY", "FREE"}

\* Who is responsible for a state that does not last.
StateFits(t) ==
  /\ state[t] \in SetExpire => \E th \in Threads : call[th].timer = t /\ Sets(call[th])
  /\ state[t] = "DESTROY" => \E th \in Threads : call[th].timer = t /\ At(th, "free")
  /\ state[t] = "EXPIRED_GET_UNLINK" => run.pc = "unlink" /\ run.timer = t
  /\ state[t] = "EXPIRED_DELIVER" => run.pc = "callback" /\ run.timer = t

\* One timer at a time is scheduled, by an owner of the TM lock.
OneHeld ==
  /\ one.pc # "idle" =>
       run.pc = "head" \/ \E th \in Threads : At(th, "batch") \/ At(th, "free")
  /\ one.pc = "idle" => batch = <<>>

\* Calls on a timer are serialised; the timer EMT is in a call or runs the queue.
Serial ==
  /\ \A th, u \in Threads : Busy(th) /\ Busy(u) /\ th # u => call[th].timer # call[u].timer
  /\ run.pc \notin {"idle", "callback"} => ~ Busy(TimerEmt)
  /\ OneHeld

CallsFit == \A th \in Threads : Busy(th) => CallFits(call[th], state[call[th].timer])
StatesFit == /\ \A t \in Timers : StateFits(t)
             /\ run.pc = "unlink" => state[run.timer] = "EXPIRED_GET_UNLINK"

Injective(s) == \A i, j \in DOMAIN s : s[i] = s[j] => i = j

OnSchedule(t) == \E i \in DOMAIN schedule : schedule[i] = t
InBatch(t) == \E i \in DOMAIN batch : batch[i] = t

\* Only what is pending is on its way through the lists, apart from a timer that
\* its destroyer flushes out of them.
ListedPending ==
  \A t \in Timers : /\ OnSchedule(t) => state[t] \in Pending
                    /\ InBatch(t) \/ Scheduling(t) => state[t] \in Pending \cup {"DESTROY"}

\* No timer is in two of the places that Queued names, or twice in one.
Linking(t) == \E th \in Threads : At(th, "link") /\ call[th].timer = t
Apart == /\ Injective(schedule) /\ Injective(batch)
         /\ \A t \in Timers : /\ OnSchedule(t) => ~ InBatch(t)
                              /\ OnSchedule(t) \/ InBatch(t) => ~ Scheduling(t) /\ ~ Linking(t)
                              /\ Linking(t) => ~ Scheduling(t)

ListInv == ListedPending /\ PendingIsQueued /\ Apart

\* The timer should be in the active list.
Expected(t) ==
  \/ /\ state[t] \in Linked
     /\ ~ (one.pc = "link" /\ one.timer = t)
     /\ \A th \in Threads : ~ (At(th, "start") /\ call[th].timer = t)
  \/ run.pc = "unlink" /\ run.timer = t

\* The cached expire time is that of the head, unless the head is on its way out.
CacheOK == /\ active = <<>> => queueExpire = Never
           /\ active # <<>> /\ state[Head(active)] = "ACTIVE" =>
                queueExpire = expire[Head(active)]

ActiveInv ==
  /\ Injective(active)
  /\ \A t \in Timers : InActive(t) => Expected(t)
  /\ one.pc = "link" => state[one.timer] \in Linked
  /\ CacheOK
  /\ run.pc \in {"crit", "try", "unlink"} => run.next = NextOf(run.timer)

\* What the runner is about to fire is due, and what is committed can be asked for.
TimeInv ==
  /\ now <= MaxTime /\ run.now <= now
  /\ run.pc \in {"crit", "try"} /\ state[run.timer] = "ACTIVE" => expire[run.timer] <= run.now
  /\ \A th \in Threads : At(th, "commit") => expire[call[th].timer] \in Times

KRest == Serial /\ CallsFit /\ StatesFit /\ ListInv /\ ActiveInv /\ TimeInv
KInv == IInv /\ KRest

\* Nothing the active list should hold is missing from it.  This takes a user who
\* does not destroy a timer whose stop is half scheduled.
Full == \A t \in Timers : Expected(t) => InActive(t)
WellDestroyed ==
  \A th \in Threads :
    /\ At(th, "destroy") \/ At(th, "mark")
    /\ state[call[th].timer] = "PENDING_STOP_SCHEDULE"
    => one.pc = "cas" /\ one.timer = call[th].timer /\ one.old = "PENDING_STOP_SCHEDULE"
Complete == Full /\ WellDestroyed

-----------------------------------------------------------------------------
(* Who owns the TM lock, and who then is where. *)

USE DEF At

\* Steps of a call that own the TM lock, whatever the call.
OwningPcs == {"optimize", "start", "batch", "mark", "free"}

LEMMA OwnerIs ==
  ASSUME IInv
  PROVE  /\ \A th \in Threads : call[th].pc \in OwningPcs \/ call[th].own => tmOwner = th
         /\ run.pc \notin {"idle", "lock"} => tmOwner = TimerEmt
<1>1. \A th \in Threads : Entered(th) # 0 => tmOwner = th
  BY DEF IInv, LockInv, LockBalanced
<1>2. ASSUME NEW th \in Threads, call[th].pc \in OwningPcs \/ call[th].own
      PROVE  Entered(th) # 0
  BY <1>2 DEF Entered, Depth, OwningPcs
<1>3. ASSUME run.pc \notin {"idle", "lock"}
      PROVE  Entered(TimerEmt) # 0
  BY <1>3 DEF Entered, Depth
<1> QED BY <1>1, <1>2, <1>3, EmtAssumption

(* A call that owns the TM lock, or can have it, finds nobody scheduling and
   the runner outside the lock or in a callback. *)
LEMMA OneIdle ==
  ASSUME IInv, Serial, NEW th \in Threads, Busy(th), CanLock(th),
         call[th].pc \notin {"batch", "free"}
  PROVE  /\ one.pc = "idle" /\ batch = <<>>
         /\ run.pc \in {"idle", "lock", "callback"}
         /\ \A u \in Threads : call[u].pc \notin {"batch", "free"}
<1>1. run.pc \in {"idle", "lock", "callback"}
  BY OwnerIs, EmtAssumption, NoneAssumption DEF CanLock, Serial, OneHeld, Busy
<1>2. \A u \in Threads : call[u].pc \notin {"batch", "free"}
  BY OwnerIs, NoneAssumption DEF CanLock, OwningPcs
<1> QED BY <1>1, <1>2 DEF Serial, OneHeld

(* While the runner is at work, no call owns the TM lock. *)
LEMMA RunnerAlone ==
  ASSUME IInv, Serial, run.pc \notin {"idle", "lock", "callback"}
  PROVE  /\ \A th \in Threads : call[th].pc \notin OwningPcs /\ ~ call[th].own
         /\ run.pc # "head" => one.pc = "idle" /\ batch = <<>>
<1>1. ~ Busy(TimerEmt)  BY DEF Serial, OneHeld
<1>2. ~ call[TimerEmt].own
  BY <1>1, EmtAssumption DEF Busy, IInv, CallInv, CallLocals, Unowned
<1>3. \A th \in Threads : call[th].pc \notin OwningPcs /\ ~ call[th].own
  BY <1>1, <1>2, OwnerIs DEF Busy, OwningPcs
<1> QED BY <1>3 DEF Serial, OneHeld, OwningPcs

(* While a timer is being scheduled, no call is on an optimized path. *)
LEMMA Scheduler ==
  ASSUME IInv, Serial, one.pc # "idle"
  PROVE  /\ \A th \in Threads : call[th].pc \notin {"optimize", "start", "mark", "optimizeRelative"}
         /\ run.pc \in {"idle", "lock", "head", "callback"}
<1>1. \A th \in Threads : At(th, "optimizeRelative") => call[th].own
  BY DEF IInv, CallInv, CallLocals
<1>2. CASE run.pc = "head"
  BY <1>1, <1>2, RunnerAlone DEF OwningPcs
<1>3. CASE \E th \in Threads : At(th, "batch") \/ At(th, "free")
  <2>1. PICK th \in Threads : At(th, "batch") \/ At(th, "free")  BY <1>3
  <2>2. tmOwner = th /\ Busy(th)  BY <2>1, OwnerIs DEF OwningPcs, Busy
  <2>3. \A u \in Threads : call[u].pc \in OwningPcs \/ call[u].own => u = th
    BY <2>2, OwnerIs
  <2>4. run.pc \in {"idle", "lock", "head", "callback"}
    BY <2>2, OwnerIs DEF Serial, OneHeld
  <2> QED BY <1>1, <2>1, <2>3, <2>4 DEF OwningPcs
<1> QED BY <1>2, <1>3 DEF Serial, OneHeld

\* What a step of a call may rely on.
LEMMA OwnFacts ==
  ASSUME IInv, Serial, CallsFit, StatesFit, NEW th \in Threads, Busy(th)
  PROVE  /\ call[th] \in CallType /\ call[th].timer \in Timers
         /\ state[call[th].timer] \in States
         /\ CallFits(call[th], state[call[th].timer])
         /\ state[call[th].timer] \in SetExpire => Sets(call[th])
         /\ state[call[th].timer] = "DESTROY" => At(th, "free")
<1>1. call[th] \in CallType /\ call[th].timer \in Timers /\ state[call[th].timer] \in States
  BY CallFacts DEF Busy
<1>2. CallFits(call[th], state[call[th].timer])  BY DEF CallsFit
<1>3. \A u \in Threads : (Sets(call[u]) \/ At(u, "free")) /\ call[u].timer = call[th].timer
                            => u = th
  BY DEF Serial, OneHeld, Busy, Sets
<1> QED BY <1>1, <1>2, <1>3 DEF StatesFit, StateFits

(* The head of the active list. *)
LEMMA HeadActive ==
  ASSUME IInv, active # <<>>
  PROVE  /\ Len(active) \in Nat \ {0} /\ Head(active) = active[1]
         /\ Head(active) \in Timers /\ InActive(Head(active))
<1>1. active \in Seq(Timers)  BY DEF IInv, ListsOK
<1>2. 1 \in DOMAIN active /\ Head(active) = active[1] /\ Head(active) \in Timers
  BY <1>1, LenProperties, HeadTailProperties, EmptySeq
<1> QED BY <1>1, <1>2, LenProperties DEF InActive

-----------------------------------------------------------------------------
(* The steps of a call that leave the lists alone. *)

\* A call c on a timer in state s may become d, and the state of its timer z.
Goes(c, s, d, z) ==
  /\ d = Idle \/ (d \in CallType /\ d.pc # "idle" /\ d.timer = c.timer /\ CallFits(d, z))
  /\ z \in States
  /\ z \in SetExpire => Sets(d)
  /\ z = "DESTROY" => d.pc = "free"
  /\ z \in {"EXPIRED_GET_UNLINK", "EXPIRED_DELIVER"} \/ s = "EXPIRED_GET_UNLINK" => z = s

Moves(th, d, z) ==
  /\ call' = [call EXCEPT ![th] = d]
  /\ state' = [state EXCEPT ![call[th].timer] = z]
  /\ Goes(call[th], state[call[th].timer], d, z)
  /\ run' = run

\* And does so when it leaves the lists alone.
Fits(c, s, d, z) ==
  /\ Goes(c, s, d, z)
  /\ c.pc # "link" /\ d.pc \notin {"batch", "free"}
  /\ d.pc = "link" => s \notin Pending \cup {"DESTROY"}
  /\ s \in Pending => z \in Pending
  /\ z \in Pending => s \in Pending \/ d.pc = "link"
  /\ s = "DESTROY" => c.pc = "free"
  /\ c.pc # "start" /\ (s \in Linked <=> z \in Linked /\ d.pc # "start")
  /\ z = "ACTIVE" => s = "ACTIVE" \/ (c.pc \in {"optimize", "optimizeRelative"} /\ s \notin Linked)
  /\ (s \in {"DESTROY", "FREE"} /\ c.pc \in DestroyPcs) \/ z \notin {"DESTROY", "FREE"}
  /\ d.pc = "mark" => c.pc = "destroy" /\ z = s
  /\ d.pc # "destroy" /\ (d.pc = "commit" => c.pc = "write")

Plain(th, d, z) ==
  /\ call' = [call EXCEPT ![th] = d]
  /\ state' = [state EXCEPT ![call[th].timer] = z]
  /\ Fits(call[th], state[call[th].timer], d, z)
  /\ call[th].pc \in {"batch", "free"} => one.pc = "idle"
  /\ UNCHANGED <<one, schedule, batch, abandoned, active, queueExpire, run, now>>

PlainOp(th) ==
  \/ SetProbe(th) \/ SetTryLock(th) \/ SetOptimize(th) \/ SetRelative(th)
  \/ SetRelativeOptimize(th) \/ SetRead(th) \/ SetCas(th) \/ SetAgain(th) \/ SetWrite(th)
  \/ SetCommit(th) \/ StopRead(th) \/ StopCas(th) \/ StopFallThrough(th)
  \/ (Schedule(th) /\ ~ (th \in Emts /\ CanLock(th))) \/ ScheduleNotify(th)
  \/ ScheduleDone(th) \/ Return(th) \/ DestroyLock(th) \/ DestroyFree(th)

LEMMA PlainStep ==
  ASSUME IInv, Serial, CallsFit, StatesFit, NEW th \in Threads, PlainOp(th)
  PROVE  Busy(th) /\ \E d, z : Plain(th, d, z)
<1> DEFINE c == call[th]
           t == call[th].timer
           s == state[call[th].timer]
           Goal == \E d, z : Plain(th, d, z)
<1> USE DEF RunVars, LockVars, ActiveVars, ListVars
<1>1. Busy(th)
  BY DEF PlainOp, Busy, SetProbe, SetTryLock, SetOptimize, SetRelative, SetRelativeOptimize,
         SetRead, SetCas, SetAgain, SetWrite, SetCommit, StopRead, StopCas, StopFallThrough,
         Schedule, ScheduleNotify, ScheduleDone, Return, DestroyLock, DestroyFree
<1>2. /\ c \in CallType /\ t \in Timers /\ s \in States /\ CallFits(c, s)
      /\ s \in SetExpire => Sets(c)
      /\ s = "DESTROY" => c.pc = "free"
      /\ state = [state EXCEPT ![t] = s]
  BY <1>1, OwnFacts DEF IInv, TimerInv
<1>3. /\ UNCHANGED <<one, schedule, batch, abandoned, active, queueExpire, run, now>>
      /\ c.pc \in {"batch", "free"} => one.pc = "idle"
  <2>1. CASE \/ SetProbe(th) \/ SetTryLock(th) \/ SetOptimize(th) \/ SetRelative(th)
             \/ SetRelativeOptimize(th) \/ SetRead(th) \/ SetCas(th) \/ SetAgain(th)
    BY <2>1 DEF SetProbe, SetTryLock, SetOptimize, SetRelative, SetRelativeOptimize, SetRead,
                SetCas, SetAgain
  <2>2. CASE \/ SetWrite(th) \/ SetCommit(th) \/ StopRead(th) \/ StopCas(th)
             \/ StopFallThrough(th) \/ (Schedule(th) /\ ~ (th \in Emts /\ CanLock(th)))
    BY <2>2 DEF SetWrite, SetCommit, StopRead, StopCas, StopFallThrough, Schedule
  <2>3. CASE \/ ScheduleNotify(th) \/ ScheduleDone(th) \/ Return(th) \/ DestroyLock(th)
             \/ DestroyFree(th)
    BY <2>3 DEF ScheduleNotify, ScheduleDone, Return, DestroyLock, DestroyFree
  <2> QED BY <2>1, <2>2, <2>3 DEF PlainOp
<1>4. ASSUME NEW d, NEW z, call' = [call EXCEPT ![th] = d], Fits(c, s, d, z),
             state' = [state EXCEPT ![t] = z]
      PROVE  Goal
  BY <1>3, <1>4 DEF Plain
<1>5. ASSUME NEW l \in CallPcs \ {"idle"}, Goto(th, l), UNCHANGED state,
             Fits(c, s, [c EXCEPT !.pc = l], s)
      PROVE  Goal
  BY <1>2, <1>4, <1>5 DEF Goto
<1>6. ASSUME NEW l \in CallPcs \ {"idle"}, NEW z, Goto(th, l), state' = [state EXCEPT ![t] = z],
             Fits(c, s, [c EXCEPT !.pc = l], z)
      PROVE  Goal
  BY <1>4, <1>6 DEF Goto
<1>7. ASSUME NEW l \in CallPcs \ {"idle"}, GotoWith(th, l, s), UNCHANGED state,
             Fits(c, s, [c EXCEPT !.pc = l, !.old = s], s)
      PROVE  Goal
  BY <1>2, <1>4, <1>7 DEF GotoWith, IInv, CallInv
<1>8. ASSUME NEW l \in CallPcs \ {"idle"}, GotoOwning(th, l), UNCHANGED state,
             Fits(c, s, [c EXCEPT !.pc = l, !.own = TRUE], s)
      PROVE  Goal
  BY <1>2, <1>4, <1>8 DEF GotoOwning, IInv, CallInv
<1>9. ASSUME NEW z, Leave(th), state' = [state EXCEPT ![t] = z], Fits(c, s, Idle, z)
      PROVE  Goal
  BY <1>4, <1>9 DEF Leave
<1> SUFFICES Goal  BY <1>1
<1> HIDE DEF Goal
<1> USE DEF CallFits, OpFits, Sets, CallType, CallPcs, SetPcs, StopPcs, DestroyPcs,
            States, SetExpire, Transitional, Armed, PendingScheduling, PendingStop, Pending, Linked
<1>10. CASE SetProbe(th)
  <2>1. PICK l \in {"trylock", "read"} :
           /\ GotoWith(th, l, s) /\ c.pc = "probe" /\ UNCHANGED state
           /\ l = "trylock" => s \in {"EXPIRED_DELIVER", "STOPPED"}
    BY <1>10 DEF SetProbe
  <2>2. Fits(c, s, [c EXCEPT !.pc = l, !.old = s], s)  BY <1>2, <2>1 DEF Fits, Goes
  <2> QED BY <1>7, <2>1, <2>2
<1>11. CASE SetTryLock(th)
  <2>1. PICK l \in {"optimize", "read"} : Goto(th, l) /\ c.pc = "trylock" /\ UNCHANGED state
    BY <1>11 DEF SetTryLock
  <2>2. Fits(c, s, [c EXCEPT !.pc = l], s)  BY <1>2, <2>1 DEF Fits, Goes
  <2> QED BY <1>5, <2>1, <2>2
<1>12. CASE SetOptimize(th)
  <2>1. CASE s = c.old
    <3>1. Goto(th, "start") /\ c.pc = "optimize" /\ state' = [state EXCEPT ![t] = "ACTIVE"]
      BY <1>12, <2>1 DEF SetOptimize
    <3>2. Fits(c, s, [c EXCEPT !.pc = "start"], "ACTIVE")  BY <1>2, <2>1, <3>1 DEF Fits, Goes
    <3> QED BY <1>6, <3>1, <3>2
  <2>2. CASE s # c.old
    <3>1. Goto(th, "read") /\ c.pc = "optimize" /\ UNCHANGED state
      BY <1>12, <2>2 DEF SetOptimize
    <3>2. Fits(c, s, [c EXCEPT !.pc = "read"], s)  BY <1>2, <3>1 DEF Fits, Goes
    <3> QED BY <1>5, <3>1, <3>2
  <2> QED BY <2>1, <2>2
<1>13. CASE SetRelative(th)
  <2>1. CASE CanLock(th)
    <3>1. PICK l \in {"optimizeRelative", "read"} :
             GotoOwning(th, l) /\ c.pc = "relative" /\ UNCHANGED state
      BY <1>13, <2>1 DEF SetRelative
    <3>2. Fits(c, s, [c EXCEPT !.pc = l, !.own = TRUE], s)  BY <1>2, <3>1 DEF Fits, Goes
    <3> QED BY <1>8, <3>1, <3>2
  <2>2. CASE ~ CanLock(th)
    <3>1. Goto(th, "read") /\ c.pc = "relative" /\ UNCHANGED state
      BY <1>13, <2>2 DEF SetRelative
    <3>2. Fits(c, s, [c EXCEPT !.pc = "read"], s)  BY <1>2, <3>1 DEF Fits, Goes
    <3> QED BY <1>5, <3>1, <3>2
  <2> QED BY <2>1, <2>2
<1>14. CASE SetRelativeOptimize(th)
  <2>1. CASE s \in {"EXPIRED_DELIVER", "STOPPED"}
    <3>1. Goto(th, "start") /\ c.pc = "optimizeRelative" /\ state' = [state EXCEPT ![t] = "ACTIVE"]
      BY <1>14, <2>1 DEF SetRelativeOptimize
    <3>2. Fits(c, s, [c EXCEPT !.pc = "start"], "ACTIVE")  BY <1>2, <2>1, <3>1 DEF Fits, Goes
    <3> QED BY <1>6, <3>1, <3>2
  <2>2. CASE s \notin {"EXPIRED_DELIVER", "STOPPED"}
    <3>1. Goto(th, "read") /\ c.pc = "optimizeRelative" /\ UNCHANGED state
      BY <1>14, <2>2 DEF SetRelativeOptimize
    <3>2. Fits(c, s, [c EXCEPT !.pc = "read"], s)  BY <1>2, <3>1 DEF Fits, Goes
    <3> QED BY <1>5, <3>1, <3>2
  <2> QED BY <2>1, <2>2
<1>15. CASE SetRead(th)
  <2>1. PICK l \in {"again", "cas"} :
           /\ GotoWith(th, l, s) /\ c.pc = "read" /\ UNCHANGED state
           /\ l = "cas" => s \notin Transitional
    BY <1>15 DEF SetRead
  <2>2. /\ [c EXCEPT !.pc = l, !.old = s].pc = l /\ [c EXCEPT !.pc = l, !.old = s].old = s
        /\ [c EXCEPT !.pc = l, !.old = s].timer = c.timer
        /\ [c EXCEPT !.pc = l, !.old = s].op = c.op
        /\ [c EXCEPT !.pc = l, !.old = s].own = c.own
        /\ [c EXCEPT !.pc = l, !.old = s] \in CallType
    BY <1>2, <2>1
  <2>3. Fits(c, s, [c EXCEPT !.pc = l, !.old = s], s)
    <3> DEFINE d == [c EXCEPT !.pc = l, !.old = s]
    <3> HIDE DEF d
    <3>1. Fits(c, s, d, s)  BY <1>2, <2>1, <2>2 DEF Fits, Goes, d
    <3> QED BY <3>1 DEF d
  <2> QED BY <1>7, <2>1, <2>3
<1>16. CASE SetCas(th)
  <2>1. CASE s = c.old
    <3>1. PICK l \in {"link", "write"} :
             /\ Goto(th, l) /\ c.pc = "cas" /\ state' = [state EXCEPT ![t] = Claim(s)]
             /\ l = "link" <=> Pushes(s)
      BY <1>16, <2>1 DEF SetCas
    <3>2. Fits(c, s, [c EXCEPT !.pc = l], Claim(s))  BY <1>2, <2>1, <3>1 DEF Fits, Goes, Claim, Pushes
    <3> QED BY <1>6, <3>1, <3>2
  <2>2. CASE s # c.old
    <3>1. Goto(th, "again") /\ c.pc = "cas" /\ UNCHANGED state  BY <1>16, <2>2 DEF SetCas
    <3>2. Fits(c, s, [c EXCEPT !.pc = "again"], s)  BY <1>2, <3>1 DEF Fits, Goes
    <3> QED BY <1>5, <3>1, <3>2
  <2> QED BY <2>1, <2>2
<1>17. CASE SetAgain(th)
  <2>1. c.pc = "again" /\ UNCHANGED state /\ (Goto(th, "read") \/ GotoOwning(th, "read"))
    BY <1>17 DEF SetAgain
  <2>2. Fits(c, s, [c EXCEPT !.pc = "read"], s)  BY <1>2, <2>1 DEF Fits, Goes
  <2>3. Fits(c, s, [c EXCEPT !.pc = "read", !.own = TRUE], s)  BY <1>2, <2>1 DEF Fits, Goes
  <2> QED BY <1>5, <1>8, <2>1, <2>2, <2>3
<1>18. CASE SetWrite(th)
  <2>1. Goto(th, "commit") /\ c.pc = "write" /\ UNCHANGED state  BY <1>18 DEF SetWrite
  <2>2. Fits(c, s, [c EXCEPT !.pc = "commit"], s)  BY <1>2, <2>1 DEF Fits, Goes, Claim
  <2> QED BY <1>5, <2>1, <2>2
<1>19. CASE SetCommit(th)
  <2>1. PICK z : /\ state' = [state EXCEPT ![t] = z]
                 /\ z = IF Claim(c.old) = "PENDING_SCHEDULE_SET_EXPIRE"
                        THEN "PENDING_SCHEDULE" ELSE "PENDING_RESCHEDULE"
    BY <1>19 DEF SetCommit
  <2>2. Goto(th, "schedule") /\ c.pc = "commit"  BY <1>19 DEF SetCommit
  <2>3. Fits(c, s, [c EXCEPT !.pc = "schedule"], z)  BY <1>2, <2>1, <2>2 DEF Fits, Goes, Claim
  <2> QED BY <1>6, <2>1, <2>2, <2>3
<1>20. CASE StopRead(th)
  <2>1. c.pc = "stop" /\ UNCHANGED state /\ s \notin Transitional
        /\ (Leave(th) \/ (GotoWith(th, "stopCas", s)
                          /\ s \notin PendingStop \cup {"EXPIRED_DELIVER", "STOPPED"}))
    BY <1>20 DEF StopRead
  <2>2. Fits(c, s, Idle, s)  BY <1>2, <2>1 DEF Fits, Goes, Idle
  <2>3. s \notin PendingStop \cup {"EXPIRED_DELIVER", "STOPPED"}
           => Fits(c, s, [c EXCEPT !.pc = "stopCas", !.old = s], s)
    BY <1>2, <2>1 DEF Fits, Goes
  <2> QED BY <1>2, <1>7, <1>9, <2>1, <2>2, <2>3
<1>21. CASE StopCas(th)
  <2>1. CASE s = c.old
    <3>1. PICK l \in {"link", "schedule"} :
             /\ Goto(th, l) /\ c.pc = "stopCas" /\ state' = [state EXCEPT ![t] = Stopped(s)]
             /\ l = "link" <=> s = "ACTIVE"
      BY <1>21, <2>1 DEF StopCas
    <3>2. Fits(c, s, [c EXCEPT !.pc = l], Stopped(s))  BY <1>2, <2>1, <3>1 DEF Fits, Goes, Stopped
    <3> QED BY <1>6, <3>1, <3>2
  <2>2. CASE s # c.old
    <3>1. PICK l \in {"stopFallThrough", "stop"} :
             /\ Goto(th, l) /\ c.pc = "stopCas" /\ UNCHANGED state
             /\ l = "stopFallThrough" => c.old = "PENDING_SCHEDULE"
      BY <1>21, <2>2 DEF StopCas
    <3>2. Fits(c, s, [c EXCEPT !.pc = l], s)  BY <1>2, <2>2, <3>1 DEF Fits, Goes
    <3> QED BY <1>5, <3>1, <3>2
  <2> QED BY <2>1, <2>2
<1>22. CASE StopFallThrough(th)
  <2>1. c.pc = "stopFallThrough"  BY <1>22 DEF StopFallThrough
  <2>2. s # c.old  BY <1>2, <2>1
  <2>3. Goto(th, "stop") /\ UNCHANGED state  BY <1>22, <2>2 DEF StopFallThrough
  <2>4. Fits(c, s, [c EXCEPT !.pc = "stop"], s)  BY <1>2, <2>1 DEF Fits, Goes
  <2> QED BY <1>5, <2>3, <2>4
<1>23. CASE Schedule(th) /\ ~ (th \in Emts /\ CanLock(th))
  <2>1. Goto(th, "notify") /\ c.pc = "schedule" /\ UNCHANGED state  BY <1>23 DEF Schedule
  <2>2. Fits(c, s, [c EXCEPT !.pc = "notify"], s)  BY <1>2, <2>1 DEF Fits, Goes
  <2> QED BY <1>5, <2>1, <2>2
<1>24. CASE ScheduleNotify(th)
  <2>1. Goto(th, "return") /\ c.pc = "notify" /\ UNCHANGED state  BY <1>24 DEF ScheduleNotify
  <2>2. Fits(c, s, [c EXCEPT !.pc = "return"], s)  BY <1>2, <2>1 DEF Fits, Goes
  <2> QED BY <1>5, <2>1, <2>2
<1>25. CASE ScheduleDone(th)
  <2>1. Goto(th, "return") /\ c.pc = "batch" /\ UNCHANGED state  BY <1>25 DEF ScheduleDone
  <2>2. Fits(c, s, [c EXCEPT !.pc = "return"], s)  BY <1>2, <2>1 DEF Fits, Goes
  <2> QED BY <1>5, <2>1, <2>2
<1>26. CASE Return(th)
  <2>1. Leave(th) /\ c.pc = "return" /\ UNCHANGED state  BY <1>26 DEF Return
  <2>2. Fits(c, s, Idle, s)  BY <1>2, <2>1 DEF Fits, Goes, Idle
  <2> QED BY <1>2, <1>9, <2>1, <2>2
<1>27. CASE DestroyLock(th)
  <2>1. Goto(th, "mark") /\ c.pc = "destroy" /\ UNCHANGED state  BY <1>27 DEF DestroyLock
  <2>2. Fits(c, s, [c EXCEPT !.pc = "mark"], s)  BY <1>2, <2>1 DEF Fits, Goes
  <2> QED BY <1>5, <2>1, <2>2
<1>28. CASE DestroyFree(th)
  <2>1. Leave(th) /\ c.pc = "free" /\ state' = [state EXCEPT ![t] = "FREE"]
    BY <1>28 DEF DestroyFree
  <2>2. Fits(c, s, Idle, "FREE")  BY <1>2, <2>1 DEF Fits, Goes, Idle
  <2> QED BY <1>9, <2>1, <2>2
<1> QED BY <1>10, <1>11, <1>12, <1>13, <1>14, <1>15, <1>16, <1>17, <1>18, <1>19, <1>20, <1>21,
           <1>22, <1>23, <1>24, <1>25, <1>26, <1>27, <1>28 DEF PlainOp

LEMMA MovesEffect ==
  ASSUME IInv, Serial, NEW th \in Threads, NEW d, NEW z, Busy(th), Moves(th, d, z)
  PROVE  \E t \in Timers :
           /\ t = call[th].timer /\ Goes(call[th], state[t], d, z)
           /\ call'[th] = d /\ \A u \in Threads : u # th => call'[u] = call[u]
           /\ state'[t] = z /\ \A v \in Timers : v # t => state'[v] = state[v]
           /\ \A u \in Threads : Busy(u) /\ u # th => call[u].timer # t
           /\ \A u \in Threads : call'[u].pc # "idle" =>
                                     Busy(u) /\ call'[u].timer = call[u].timer
<1>1. call[th].timer \in Timers  BY CallFacts DEF Busy
<1>2. call'[th] = d /\ \A u \in Threads : u # th => call'[u] = call[u]
  BY DEF Moves, IInv, CallInv
<1>3. state'[call[th].timer] = z /\ \A v \in Timers : v # call[th].timer => state'[v] = state[v]
  BY <1>1 DEF Moves, IInv, TimerInv
<1>4. d.pc = "idle" \/ d.timer = call[th].timer  BY DEF Moves, Goes, Idle
<1>5. \A u \in Threads : Busy(u) /\ u # th => call[u].timer # call[th].timer  BY DEF Serial
<1>6. Goes(call[th], state[call[th].timer], d, z)  BY DEF Moves
<1>7. \A u \in Threads : call'[u].pc # "idle" => Busy(u) /\ call'[u].timer = call[u].timer
  BY <1>2, <1>4 DEF Busy
<1> QED BY <1>1, <1>2, <1>3, <1>5, <1>6, <1>7

LEMMA PlainEffect ==
  ASSUME IInv, Serial, NEW th \in Threads, NEW d, NEW z, Busy(th), Plain(th, d, z)
  PROVE  \E t \in Timers :
           /\ t = call[th].timer /\ Fits(call[th], state[t], d, z)
           /\ call'[th] = d /\ \A u \in Threads : u # th => call'[u] = call[u]
           /\ state'[t] = z /\ \A v \in Timers : v # t => state'[v] = state[v]
           /\ \A u \in Threads : Busy(u) /\ u # th => call[u].timer # t
           /\ \A u \in Threads : call'[u].pc # "idle" =>
                                     Busy(u) /\ call'[u].timer = call[u].timer
<1>1. Moves(th, d, z)  BY DEF Plain, Fits, Moves
<1>2. Fits(call[th], state[call[th].timer], d, z)  BY DEF Plain
<1> QED BY <1>1, <1>2, MovesEffect

LEMMA MovesCalls ==
  ASSUME IInv, Serial, CallsFit, StatesFit, NEW th \in Threads, NEW d, NEW z, Busy(th),
         Moves(th, d, z), OneHeld'
  PROVE  Serial' /\ CallsFit' /\ StatesFit'
<1>0. PICK t \in Timers :
        /\ t = call[th].timer /\ Goes(call[th], state[t], d, z)
        /\ call'[th] = d /\ \A u \in Threads : u # th => call'[u] = call[u]
        /\ state'[t] = z /\ \A v \in Timers : v # t => state'[v] = state[v]
        /\ \A u \in Threads : Busy(u) /\ u # th => call[u].timer # t
        /\ \A u \in Threads : call'[u].pc # "idle" =>
                                  Busy(u) /\ call'[u].timer = call[u].timer
  BY MovesEffect
<1>1. run' = run  BY DEF Moves
<1>2. \A u \in Threads : Busy(u) => call[u].timer \in Timers  BY CallFacts DEF Busy
<1>3. Serial'
  <2>1. \A u, w \in Threads : call'[u].pc # "idle" /\ call'[w].pc # "idle" /\ u # w
                                => call'[u].timer # call'[w].timer
    BY <1>0 DEF Serial
  <2>2. run'.pc \notin {"idle", "callback"} => ~ Busy(TimerEmt)'
    BY <1>0, <1>1, EmtAssumption DEF Serial, Busy
  <2> QED BY <2>1, <2>2 DEF Serial, Busy
<1>4. CallsFit'
  <2>1. ASSUME NEW u \in Threads, call'[u].pc # "idle"
        PROVE  CallFits(call'[u], state'[call'[u].timer])
    <3>1. CASE u = th
      <4>1. d # Idle  BY <1>0, <2>1, <3>1 DEF Idle
      <4> QED BY <1>0, <2>1, <3>1, <4>1 DEF Goes
    <3>2. CASE u # th
      BY <1>0, <1>2, <2>1, <3>2 DEF CallsFit
    <3> QED BY <3>1, <3>2
  <2> QED BY <2>1 DEF CallsFit, CallFits, OpFits, Sets, Busy
<1>5. StatesFit'
  <2>1. StateFits(t)'
    <3>1. z \in {"EXPIRED_GET_UNLINK", "EXPIRED_DELIVER"} => z = state[t]
      BY <1>0 DEF Goes
    <3>2. z \in SetExpire => Sets(call'[th]) /\ call'[th].timer = t
      <4>1. Sets(d) => d # Idle  BY DEF Sets, Idle
      <4> QED BY <1>0, <4>1 DEF Goes
    <3>3. z = "DESTROY" => call'[th].pc = "free" /\ call'[th].timer = t
      <4>1. d.pc = "free" => d # Idle  BY DEF Idle
      <4> QED BY <1>0, <4>1 DEF Goes
    <3> QED BY <1>0, <1>1, <3>1, <3>2, <3>3 DEF StatesFit, StateFits, Sets
  <2>2. ASSUME NEW v \in Timers, v # t PROVE StateFits(v)'
    <3>1. \A u \in Threads : call[u].timer = v => u # th  BY <1>0, <2>2
    <3>2. state'[v] = state[v] /\ StateFits(v)  BY <1>0, <2>2 DEF StatesFit
    <3>3. \A u \in Threads : call[u].timer = v => call'[u] = call[u]  BY <1>0, <3>1
    <3> QED BY <1>1, <3>2, <3>3 DEF StateFits, Sets
  <2>3. run'.pc = "unlink" => state'[run'.timer] = "EXPIRED_GET_UNLINK"
    <3>1. run.pc = "unlink" => run.timer \in Timers  BY DEF IInv, RunInv, RunLocals
    <3>2. state[t] = "EXPIRED_GET_UNLINK" => z = state[t]  BY <1>0 DEF Goes
    <3> QED BY <1>0, <1>1, <3>1, <3>2 DEF StatesFit
  <2> QED BY <2>1, <2>2, <2>3 DEF StatesFit
<1> QED BY <1>3, <1>4, <1>5

LEMMA PlainCalls ==
  ASSUME IInv, Serial, CallsFit, StatesFit, NEW th \in Threads, NEW d, NEW z, Busy(th),
         Plain(th, d, z)
  PROVE  Serial' /\ CallsFit' /\ StatesFit'
<1>1. Moves(th, d, z)  BY DEF Plain, Fits, Moves
<1>2. \A u \in Threads : u # th => call'[u] = call[u]  BY DEF Plain, IInv, CallInv
<1>3. OneHeld'
  BY <1>2 DEF Serial, OneHeld, Plain
<1> QED BY <1>1, <1>3, MovesCalls

LEMMA PlainList ==
  ASSUME IInv, Serial, ListInv, NEW th \in Threads, NEW d, NEW z, Busy(th), Plain(th, d, z)
  PROVE  ListInv'
<1>0. PICK t \in Timers :
        /\ t = call[th].timer /\ Fits(call[th], state[t], d, z)
        /\ call'[th] = d /\ \A u \in Threads : u # th => call'[u] = call[u]
        /\ state'[t] = z /\ \A v \in Timers : v # t => state'[v] = state[v]
        /\ \A u \in Threads : Busy(u) /\ u # th => call[u].timer # t
        /\ \A u \in Threads : call'[u].pc # "idle" =>
                                  Busy(u) /\ call'[u].timer = call[u].timer
  BY PlainEffect
<1> DEFINE s == state[t]
<1>1. /\ t = call[th].timer /\ Fits(call[th], s, d, z)
      /\ call'[th] = d /\ \A u \in Threads : u # th => call'[u] = call[u]
      /\ state'[t] = z /\ \A v \in Timers : v # t => state'[v] = state[v]
      /\ \A u \in Threads : Busy(u) /\ u # th => call[u].timer # t
      /\ \A u \in Threads : call'[u].pc # "idle" =>
                                Busy(u) /\ call'[u].timer = call[u].timer
      /\ UNCHANGED <<one, schedule, batch, abandoned>>
  BY <1>0 DEF Plain
<1>2. /\ \A v : OnSchedule(v)' <=> OnSchedule(v)
      /\ \A v : InBatch(v)' <=> InBatch(v)
      /\ \A v : Scheduling(v)' <=> Scheduling(v)
  BY <1>1 DEF OnSchedule, InBatch, Scheduling
<1>3. \A v \in Timers : v # t => (Linking(v)' <=> Linking(v))
  BY <1>1 DEF Linking, Busy
<1>4. ~ Linking(t) /\ (Linking(t)' <=> d.pc = "link")
  <2>1. \A u \in Threads : u # th /\ At(u, "link") => call[u].timer # t  BY <1>1 DEF Busy
  <2>2. d.pc = "link" => d.timer = t  BY <1>1 DEF Fits, Goes, Idle
  <2> QED BY <1>1, <2>1, <2>2 DEF Linking, Fits
<1>5. ListedPending'
  <2>1. ASSUME OnSchedule(t) PROVE z \in Pending
    BY <1>1, <2>1 DEF ListInv, ListedPending, Fits
  <2>2. ASSUME InBatch(t) \/ Scheduling(t) PROVE z \in Pending \cup {"DESTROY"}
    <3>1. s \in Pending \cup {"DESTROY"}  BY <1>1, <2>2 DEF ListInv, ListedPending
    <3>2. CASE s \in Pending  BY <1>1, <3>2 DEF Fits
    <3>3. CASE s = "DESTROY"
      <4>1. At(th, "free")  BY <1>1, <3>3 DEF Fits
      <4>2. one.pc = "idle" /\ batch = <<>>  BY <4>1 DEF Plain, Serial, OneHeld
      <4> QED BY <2>2, <4>2 DEF InBatch, Scheduling
    <3> QED BY <3>1, <3>2, <3>3
  <2> QED BY <1>1, <1>2, <2>1, <2>2 DEF ListInv, ListedPending
<1>6. PendingIsQueued'
  <2>1. \A v \in Timers : Queued(v) <=> OnSchedule(v) \/ InBatch(v) \/ Scheduling(v) \/ Linking(v)
    BY DEF Queued, OnSchedule, InBatch, Linking
  <2>2. \A v \in Timers : Queued(v)' <=> OnSchedule(v)' \/ InBatch(v)' \/ Scheduling(v)' \/ Linking(v)'
    BY DEF Queued, OnSchedule, InBatch, Linking
  <2>3. z \in Pending => s \in Pending \/ Linking(t)'  BY <1>1, <1>4 DEF Fits
  <2> QED BY <1>1, <1>2, <1>3, <1>4, <2>1, <2>2, <2>3 DEF ListInv, PendingIsQueued
<1>7. Apart'
  <2>1. d.pc = "link" => ~ OnSchedule(t) /\ ~ InBatch(t) /\ ~ Scheduling(t)
    BY <1>1 DEF Fits, ListInv, ListedPending
  <2>2. Injective(schedule)' /\ Injective(batch)'  BY <1>1 DEF ListInv, Apart
  <2> QED BY <1>1, <1>2, <1>3, <1>4, <2>1, <2>2 DEF ListInv, Apart
<1> QED BY <1>5, <1>6, <1>7 DEF ListInv

\* A step of a call makes ACTIVE only a timer that is not in the active list, and
\* then nobody schedules and the runner is not at work.
LEMMA PlainActivates ==
  ASSUME IInv, Serial, NEW th \in Threads, NEW d, NEW z, Busy(th), Plain(th, d, z),
         z = "ACTIVE", state[call[th].timer] # "ACTIVE"
  PROVE  /\ one.pc = "idle" /\ run.pc \in {"idle", "lock", "callback"}
         /\ state[call[th].timer] \notin Linked
<1>1. call[th].pc \in {"optimize", "optimizeRelative"} /\ state[call[th].timer] \notin Linked
  BY DEF Plain, Fits
<1>2. CanLock(th)
  BY <1>1, OwnerIs DEF CanLock, OwningPcs, IInv, CallInv, CallLocals
<1> QED BY <1>1, <1>2, OneIdle

LEMMA PlainActive ==
  ASSUME IInv, Serial, ActiveInv, NEW th \in Threads, NEW d, NEW z, Busy(th), Plain(th, d, z),
         \/ expire' = expire
         \/ /\ state[call[th].timer] \in SetExpire
            /\ \E e : expire' = [expire EXCEPT ![call[th].timer] = e]
  PROVE  ActiveInv' /\ \A v \in Timers : Expected(v)' <=> Expected(v)
<1>0. PICK t \in Timers :
        /\ t = call[th].timer /\ Fits(call[th], state[t], d, z)
        /\ call'[th] = d /\ \A u \in Threads : u # th => call'[u] = call[u]
        /\ state'[t] = z /\ \A v \in Timers : v # t => state'[v] = state[v]
        /\ \A u \in Threads : Busy(u) /\ u # th => call[u].timer # t
        /\ \A u \in Threads : call'[u].pc # "idle" =>
                                  Busy(u) /\ call'[u].timer = call[u].timer
  BY PlainEffect
<1> DEFINE s == state[t]
<1>1. /\ t = call[th].timer /\ Fits(call[th], s, d, z)
      /\ call'[th] = d /\ \A u \in Threads : u # th => call'[u] = call[u]
      /\ state'[t] = z /\ \A v \in Timers : v # t => state'[v] = state[v]
      /\ \A u \in Threads : Busy(u) /\ u # th => call[u].timer # t
      /\ \A u \in Threads : call'[u].pc # "idle" =>
                                Busy(u) /\ call'[u].timer = call[u].timer
      /\ UNCHANGED <<one, active, queueExpire, run>>
  BY <1>0 DEF Plain
<1>2. \A v \in Timers : InActive(v)' <=> InActive(v)  BY <1>1 DEF InActive
<1>3. Expected(t)' <=> Expected(t)
  <2>1. \A u \in Threads : At(u, "start") /\ call[u].timer = t => FALSE
    BY <1>1 DEF Busy, Fits
  <2>2. (\A u \in Threads : ~ (At(u, "start") /\ call[u].timer = t)') <=> d.pc # "start"
    <3>1. d.pc = "start" => d.timer = t  BY <1>1 DEF Fits, Goes, Idle
    <3>2. \A u \in Threads : u # th => ~ (At(u, "start") /\ call[u].timer = t)'
      BY <1>1, <2>1
    <3> QED BY <1>1, <3>1, <3>2
  <2>3. s \in Linked <=> z \in Linked /\ d.pc # "start"  BY <1>1 DEF Fits
  <2> QED BY <1>1, <2>1, <2>2, <2>3 DEF Expected
<1>4. ASSUME NEW v \in Timers, v # t PROVE Expected(v)' <=> Expected(v)
  <2>1. state'[v] = state[v]  BY <1>1, <1>4
  <2>2. \A u \in Threads : (At(u, "start") /\ call[u].timer = v)'
                              <=> At(u, "start") /\ call[u].timer = v
    <3>1. ASSUME NEW u \in Threads, u # th
          PROVE  (At(u, "start") /\ call[u].timer = v)' <=> At(u, "start") /\ call[u].timer = v
      BY <1>1, <3>1
    <3>2. ~ (At(th, "start") /\ call[th].timer = v)' /\ ~ (At(th, "start") /\ call[th].timer = v)
      <4>1. d.pc = "start" => d.timer = t  BY <1>1 DEF Fits, Goes, Idle
      <4> QED BY <1>1, <1>4, <4>1
    <3> QED BY <3>1, <3>2
  <2> QED BY <1>1, <2>1, <2>2 DEF Expected
<1>5. \A v \in Timers : Expected(v)' <=> Expected(v)  BY <1>3, <1>4
<1>6. one'.pc = "link" => state'[one'.timer] \in Linked
  <2>1. one.pc = "link" => one.timer \in Timers /\ state[one.timer] \in Linked
    BY DEF ActiveInv, IInv, OneInv, OneLocals
  <2> QED BY <1>1, <2>1 DEF Fits
<1>7. CacheOK'
  <2>1. ASSUME active # <<>>, state'[Head(active)] = "ACTIVE"
        PROVE  state[Head(active)] = "ACTIVE" /\ expire'[Head(active)] = expire[Head(active)]
    <3>1. Head(active) \in Timers /\ InActive(Head(active))  BY <2>1, HeadActive
    <3>2. state[Head(active)] = "ACTIVE"
      <4>1. CASE Head(active) # t  BY <1>1, <2>1, <3>1, <4>1
      <4>2. CASE Head(active) = t /\ s # "ACTIVE"
        <5>1. s \notin Linked /\ run.pc # "unlink"
          BY <1>1, <2>1, <4>2, PlainActivates
        <5>2. ~ Expected(t)  BY <5>1 DEF Expected
        <5> QED BY <1>1, <3>1, <4>2, <5>2 DEF ActiveInv
      <4> QED BY <4>1, <4>2
    <3>3. expire'[Head(active)] = expire[Head(active)]
      <4>1. s \in SetExpire => Head(active) # t  BY <3>2 DEF SetExpire
      <4> QED BY <1>1, <3>1, <4>1 DEF IInv, TimerInv
    <3> QED BY <3>2, <3>3
  <2> QED BY <1>1, <2>1 DEF CacheOK, ActiveInv
<1>8. run'.pc \in {"crit", "try", "unlink"} => run'.next = NextOf(run.timer)'
  BY <1>1 DEF ActiveInv, NextOf
<1> QED BY <1>1, <1>2, <1>5, <1>6, <1>7, <1>8 DEF ActiveInv, Injective

\* What is asked for can be asked for.
LEMMA WantedTimes ==
  ASSUME IInv, CallsFit, TimeInv, NEW th \in Threads, call[th].pc \in {"start", "write"}
  PROVE  Wanted(th) \in Times /\ Wanted(th) \in Nat
<1>1. OpFits(call[th])  BY DEF CallsFit, CallFits, Busy
<1>2. call[th].op \in {"Set", "SetRelative"}  BY <1>1 DEF OpFits, SetPcs
<1>3. now \in 0..MaxTime  BY BoundAssumption DEF TimeInv, IInv, MiscInv
<1>4. CASE call[th].op = "Set"  BY <1>1, <1>4, WantedType DEF OpFits, Wanted, Times
<1>5. CASE call[th].op = "SetRelative"
  BY <1>1, <1>3, <1>5, WantedType DEF OpFits, Wanted, Times
<1> QED BY <1>2, <1>4, <1>5

LEMMA PlainExpire ==
  ASSUME NEW th \in Threads, PlainOp(th)
  PROVE  IF At(th, "write") THEN expire' = [expire EXCEPT ![call[th].timer] = Wanted(th)]
                            ELSE expire' = expire
<1>1. CASE \/ SetProbe(th) \/ SetTryLock(th) \/ SetOptimize(th) \/ SetRelative(th)
           \/ SetRelativeOptimize(th) \/ SetRead(th) \/ SetCas(th) \/ SetAgain(th)
  BY <1>1 DEF SetProbe, SetTryLock, SetOptimize, SetRelative, SetRelativeOptimize, SetRead,
              SetCas, SetAgain
<1>2. CASE SetWrite(th)  BY <1>2 DEF SetWrite
<1>3. CASE \/ SetCommit(th) \/ StopRead(th) \/ StopCas(th) \/ StopFallThrough(th) \/ Schedule(th)
  BY <1>3 DEF SetCommit, StopRead, StopCas, StopFallThrough, Schedule
<1>4. CASE \/ ScheduleNotify(th) \/ ScheduleDone(th) \/ Return(th) \/ DestroyLock(th)
           \/ DestroyFree(th)
  BY <1>4 DEF ScheduleNotify, ScheduleDone, Return, DestroyLock, DestroyFree
<1> QED BY <1>1, <1>2, <1>3, <1>4 DEF PlainOp

LEMMA PlainKeeps ==
  ASSUME KInv, NEW th \in Threads, PlainOp(th)
  PROVE  KRest' /\ \A v \in Timers : Expected(v)' <=> Expected(v)
<1> USE DEF KInv, KRest
<1>1. PICK d, z : Busy(th) /\ Plain(th, d, z)  BY PlainStep
<1>2. PICK t \in Timers :
        /\ t = call[th].timer /\ Fits(call[th], state[t], d, z)
        /\ call'[th] = d /\ \A u \in Threads : u # th => call'[u] = call[u]
        /\ state'[t] = z /\ \A v \in Timers : v # t => state'[v] = state[v]
        /\ \A u \in Threads : Busy(u) /\ u # th => call[u].timer # t
        /\ \A u \in Threads : call'[u].pc # "idle" =>
                                  Busy(u) /\ call'[u].timer = call[u].timer
  BY <1>1, PlainEffect
<1>3. \/ expire' = expire /\ ~ At(th, "write")
      \/ At(th, "write") /\ expire' = [expire EXCEPT ![t] = Wanted(th)]
  BY <1>2, PlainExpire
<1>4. At(th, "write") => state[t] \in SetExpire /\ Wanted(th) \in Times
  <2>1. At(th, "write") => Wanted(th) \in Times  BY WantedTimes
  <2>2. At(th, "write") => state[t] \in SetExpire
    BY <1>1, <1>2 DEF CallsFit, CallFits, Sets, Claim, SetExpire, Busy
  <2> QED BY <2>1, <2>2
<1>5. Serial' /\ CallsFit' /\ StatesFit'  BY <1>1, PlainCalls
<1>6. ListInv'  BY <1>1, PlainList
<1>7. ActiveInv' /\ \A v \in Timers : Expected(v)' <=> Expected(v)
  <2>1. \/ expire' = expire
        \/ /\ state[call[th].timer] \in SetExpire
           /\ \E e : expire' = [expire EXCEPT ![call[th].timer] = e]
    BY <1>2, <1>3, <1>4
  <2> QED BY <1>1, <2>1, PlainActive
<1>8. TimeInv'
  <2>1. now' = now /\ run' = run  BY <1>1 DEF Plain
  <2>2. run.pc \in {"crit", "try"} /\ state'[run.timer] = "ACTIVE" =>
          state[run.timer] = "ACTIVE" /\ expire'[run.timer] = expire[run.timer]
    <3> SUFFICES ASSUME run.pc \in {"crit", "try"}, state'[run.timer] = "ACTIVE"
                 PROVE  state[run.timer] = "ACTIVE" /\ expire'[run.timer] = expire[run.timer]
      OBVIOUS
    <3>1. run.timer \in Timers  BY DEF IInv, RunInv, RunLocals
    <3>2. state[run.timer] = "ACTIVE"
      <4>1. run.timer = t /\ state[t] # "ACTIVE" => run.pc \in {"idle", "lock", "callback"}
        BY <1>1, <1>2, PlainActivates
      <4> QED BY <1>2, <3>1, <4>1
    <3>3. expire'[run.timer] = expire[run.timer]
      BY <1>3, <1>4, <3>1, <3>2 DEF SetExpire, IInv, TimerInv
    <3> QED BY <3>2, <3>3
  <2>3. ASSUME NEW u \in Threads, call'[u].pc = "commit"
        PROVE  expire'[call'[u].timer] \in Times
    <3>1. CASE u = th
      <4>1. At(th, "write")  BY <1>2, <2>3, <3>1 DEF Fits
      <4>2. call'[u].timer = t  BY <1>2, <2>3, <3>1
      <4> QED BY <1>3, <1>4, <4>1, <4>2 DEF IInv, TimerInv
    <3>2. CASE u # th
      <4>1. Busy(u) /\ call'[u] = call[u]  BY <1>2, <2>3, <3>2
      <4>2. call[u].timer # t /\ call[u].timer \in Timers  BY <1>2, <3>2, <4>1, CallFacts DEF Busy
      <4>3. expire'[call[u].timer] = expire[call[u].timer]
        BY <1>3, <4>2 DEF IInv, TimerInv
      <4> QED BY <2>3, <4>1, <4>3 DEF TimeInv
    <3> QED BY <3>1, <3>2
  <2> QED BY <2>1, <2>2, <2>3 DEF TimeInv
<1> QED BY <1>5, <1>6, <1>7, <1>8

-----------------------------------------------------------------------------
(* Making an API call, and creating a timer. *)

LEMMA CallKeeps ==
  ASSUME KInv, NEW th \in Threads, NEW op, NEW t \in Timers, NEW x, NEW l, Call(th, op, t, x, l),
         \/ l = "probe" /\ op = "Set" /\ x \in ExpireTimes /\ Alive(t)
         \/ l = "relative" /\ op = "SetRelative" /\ x \in Ticks /\ Alive(t)
         \/ l = "stop" /\ op = "Stop" /\ x = 0 /\ Alive(t)
         \/ l = "destroy" /\ op = "Destroy" /\ x = 0
  PROVE  KRest' /\ \A v \in Timers : Expected(v)' <=> Expected(v)
<1> USE DEF KInv, KRest
<1> DEFINE d == [pc |-> l, op |-> op, timer |-> t, arg |-> x, old |-> "STOPPED", own |-> FALSE]
<1>1. /\ ~ Busy(th) /\ \A u \in Threads : Busy(u) => call[u].timer # t
      /\ th = TimerEmt => run.pc \in {"idle", "callback"}
      /\ UNCHANGED <<state, expire, schedule, batch, one, active, queueExpire, run, now, abandoned>>
  BY DEF Call, Busy
<1>2. call' = [call EXCEPT ![th] = d]  BY DEF Call
<1> HIDE DEF d
<1>3. call'[th] = d /\ \A u \in Threads : u # th => call'[u] = call[u]
  BY <1>2 DEF IInv, CallInv
<1>4. /\ d.timer = t /\ d.pc \in {"probe", "relative", "stop", "destroy"}
      /\ CallFits(d, state[t])
  BY DEF d, CallFits, OpFits, SetPcs, StopPcs, DestroyPcs, Sets, Alive
<1>5. Serial'
  <2>1. \A u, w \in Threads : call'[u].pc # "idle" /\ call'[w].pc # "idle" /\ u # w
                                => call'[u].timer # call'[w].timer
    BY <1>1, <1>3, <1>4 DEF Serial, Busy
  <2>2. run'.pc \notin {"idle", "callback"} => ~ Busy(TimerEmt)'
    BY <1>1, <1>3, EmtAssumption DEF Serial, Busy
  <2>3. \A u \in Threads : call[u].pc \in {"batch", "free"} => call'[u] = call[u]
    BY <1>1, <1>3 DEF Busy
  <2> QED BY <1>1, <2>1, <2>2, <2>3 DEF Serial, OneHeld, Busy
<1>6. CallsFit'
  <2>1. ASSUME NEW u \in Threads, call'[u].pc # "idle"
        PROVE  CallFits(call'[u], state'[call'[u].timer])
    BY <1>1, <1>3, <1>4, <2>1 DEF CallsFit, Busy
  <2> QED BY <2>1 DEF CallsFit, CallFits, OpFits, Sets, Busy
<1>7. \A u \in Threads : call'[u] = call[u] \/ ~ (Sets(call[u]) \/ At(u, "free") \/ At(u, "link") \/ At(u, "start"))
  BY <1>1, <1>3 DEF Busy, Sets
<1>8. StatesFit'
  <2>1. ASSUME NEW v \in Timers PROVE StateFits(v)'
    BY <1>1, <1>7 DEF StatesFit, StateFits, Sets
  <2> QED BY <1>1, <2>1 DEF StatesFit
<1>9. \A v \in Timers : Linking(v)' <=> Linking(v)
  BY <1>1, <1>3, <1>4 DEF Linking, Busy
<1>10. ListInv'
  <2>1. \A v \in Timers : Queued(v)' <=> Queued(v)
    BY <1>1, <1>9 DEF Queued, Linking, Scheduling
  <2> QED BY <1>1, <1>9, <2>1
          DEF ListInv, ListedPending, PendingIsQueued, Apart, OnSchedule, InBatch, Scheduling, Injective
<1>11. \A v \in Timers : Expected(v)' <=> Expected(v)
  BY <1>1, <1>3, <1>4 DEF Expected, Busy
<1>12. ActiveInv'
  BY <1>1, <1>11 DEF ActiveInv, InActive, CacheOK, NextOf, Injective
<1>13. TimeInv'
  BY <1>1, <1>3, <1>4 DEF TimeInv
<1> QED BY <1>5, <1>6, <1>8, <1>10, <1>11, <1>12, <1>13

LEMMA BeginKeeps ==
  ASSUME KInv, NEW th \in Threads, Begin(th), ~ TMR3TimerCreate(th)
  PROVE  KRest' /\ \A v \in Timers : Expected(v)' <=> Expected(v)
BY CallKeeps DEF Begin, TMTimerSet, TMTimerSetRelative, TMTimerStop, TMR3TimerDestroy

LEMMA CreateKeeps ==
  ASSUME KInv, NEW th \in Threads, TMR3TimerCreate(th)
  PROVE  KRest' /\ \A v \in Timers : Expected(v)' <=> Expected(v)
<1> USE DEF KInv, KRest
<1>1. PICK t \in Timers :
        /\ state[t] = "FREE" /\ state' = [state EXCEPT ![t] = "STOPPED"]
        /\ expire' = [expire EXCEPT ![t] = 0] /\ abandoned' = abandoned \ {t}
        /\ UNCHANGED <<schedule, batch, one, active, queueExpire, run, call, now>>
  BY DEF TMR3TimerCreate
<1>2. state'[t] = "STOPPED" /\ \A v \in Timers : v # t => state'[v] = state[v] /\ expire'[v] = expire[v]
  BY <1>1 DEF IInv, TimerInv
<1>3. \A u \in Threads : Busy(u) /\ call[u].timer = t => call[u].pc \in DestroyPcs \ {"free"}
  BY <1>1 DEF CallsFit, CallFits
<1>4. ~ OnSchedule(t) /\ ~ InBatch(t) /\ ~ Scheduling(t) /\ ~ Expected(t) /\ ~ InActive(t)
  <2>1. ~ Expected(t)  BY <1>1 DEF StatesFit, Expected, Linked
  <2> QED BY <1>1, <2>1 DEF ListInv, ListedPending, Pending, PendingScheduling, PendingStop,
                            SetExpire, ActiveInv
<1>5. Serial'  BY <1>1 DEF Serial, OneHeld, Busy
<1>6. CallsFit'
  <2>1. ASSUME NEW u \in Threads, Busy(u) PROVE CallFits(call[u], state'[call[u].timer])
    <3>1. CallFits(call[u], state[call[u].timer]) /\ call[u].timer \in Timers
      BY <2>1, CallFacts DEF CallsFit, Busy
    <3>2. CASE call[u].timer = t
      BY <1>2, <1>3, <2>1, <3>1, <3>2 DEF CallFits, DestroyPcs, Sets
    <3>3. CASE call[u].timer # t
      BY <1>2, <3>1, <3>3
    <3> QED BY <3>2, <3>3
  <2> QED BY <1>1, <2>1 DEF CallsFit, CallFits, OpFits, Sets, Busy
<1>7. StatesFit'
  <2>1. ASSUME NEW v \in Timers PROVE StateFits(v)'
    BY <1>1, <1>2 DEF StatesFit, StateFits, Sets, SetExpire
  <2>2. run.pc = "unlink" => run.timer \in Timers /\ run.timer # t
    BY <1>1 DEF StatesFit, IInv, RunInv, RunLocals
  <2> QED BY <1>1, <1>2, <2>1, <2>2 DEF StatesFit
<1>8. ListInv'
  <2>1. /\ \A v : OnSchedule(v)' <=> OnSchedule(v)
        /\ \A v : InBatch(v)' <=> InBatch(v)
        /\ \A v : Scheduling(v)' <=> Scheduling(v)
        /\ \A v : Linking(v)' <=> Linking(v)
        /\ \A v : Queued(v)' <=> Queued(v)
    BY <1>1 DEF OnSchedule, InBatch, Scheduling, Linking, Queued
  <2>2. ListedPending'  BY <1>2, <1>4, <2>1 DEF ListInv, ListedPending
  <2>3. PendingIsQueued'
    BY <1>1, <1>2, <2>1 DEF ListInv, PendingIsQueued, Pending, PendingScheduling, PendingStop, SetExpire
  <2>4. Apart'
    BY <1>1, <2>1 DEF ListInv, Apart, Injective
  <2> QED BY <2>2, <2>3, <2>4 DEF ListInv
<1>9. \A v \in Timers : Expected(v)' <=> Expected(v)
  <2>1. ~ Expected(t)'  BY <1>1, <1>2 DEF Expected, Linked, StatesFit
  <2>2. \A v \in Timers : v # t => (Expected(v)' <=> Expected(v))
    BY <1>1, <1>2 DEF Expected
  <2> QED BY <1>4, <2>1, <2>2
<1>10. ActiveInv'
  <2>1. CacheOK'
    <3>1. active # <<>> => Head(active) \in Timers /\ InActive(Head(active))
      BY HeadActive
    <3> QED BY <1>1, <1>2, <1>4, <3>1 DEF ActiveInv, CacheOK
  <2>2. one.pc = "link" => one.timer \in Timers /\ one.timer # t
    BY <1>1 DEF ActiveInv, Linked, IInv, OneInv, OneLocals
  <2> QED BY <1>1, <1>2, <1>9, <2>1, <2>2 DEF ActiveInv, InActive, NextOf, Injective
<1>11. TimeInv'
  <2>1. run.pc \in {"crit", "try"} => run.timer \in Timers  BY DEF IInv, RunInv, RunLocals
  <2>2. \A u \in Threads : At(u, "commit") => call[u].timer \in Timers /\ call[u].timer # t
    BY <1>3, CallFacts DEF Busy, DestroyPcs
  <2> QED BY <1>1, <1>2, <2>1, <2>2 DEF TimeInv
<1> QED BY <1>5, <1>6, <1>7, <1>8, <1>9, <1>10, <1>11

-----------------------------------------------------------------------------
(* The operators on the schedule list. *)

LEMMA PushIs ==
  ASSUME ListsOK, NEW t \in Timers, LinkSchedule(t)
  PROVE  /\ \A v : OnSchedule(v)' <=> v = t \/ OnSchedule(v)
         /\ Injective(schedule) /\ ~ OnSchedule(t) => Injective(schedule)'
<1>1. schedule \in Seq(Timers) /\ Len(schedule) \in Nat /\ DOMAIN schedule = 1..Len(schedule)
  BY LenProperties DEF ListsOK
<1>2. /\ schedule' \in Seq(Timers) /\ Len(schedule') = 1 + Len(schedule)
      /\ \A i \in 1..(1 + Len(schedule)) :
           schedule'[i] = IF i = 1 THEN t ELSE schedule[i - 1]
  <2>1. <<t>> \in Seq(Timers) /\ Len(<<t>>) = 1  OBVIOUS
  <2>2. \A i \in 1..(1 + Len(schedule)) :
          schedule'[i] = IF i <= 1 THEN <<t>>[i] ELSE schedule[i - 1]
    BY <1>1, <2>1, ConcatProperties DEF LinkSchedule
  <2>3. \A i \in 1..(1 + Len(schedule)) : i <= 1 => <<t>>[i] = t  BY <1>1
  <2> QED BY <1>1, <2>1, <2>2, <2>3, ConcatProperties DEF LinkSchedule
<1>3. DOMAIN schedule' = 1..(1 + Len(schedule))  BY <1>2, LenProperties
<1>4. ASSUME NEW v PROVE OnSchedule(v)' <=> v = t \/ OnSchedule(v)
  <2>1. ASSUME NEW i \in DOMAIN schedule' PROVE schedule'[i] = t \/ OnSchedule(schedule'[i])
    <3>1. CASE i = 1  BY <1>1, <1>2, <1>3, <3>1
    <3>2. CASE i # 1
      <4>1. i - 1 \in DOMAIN schedule  BY <1>1, <1>3, <3>2
      <4> QED BY <1>2, <1>3, <3>2, <4>1 DEF OnSchedule
    <3> QED BY <3>1, <3>2
  <2>2. 1 \in DOMAIN schedule' /\ schedule'[1] = t  BY <1>1, <1>2, <1>3
  <2>3. ASSUME NEW i \in DOMAIN schedule
        PROVE  i + 1 \in DOMAIN schedule' /\ schedule'[i + 1] = schedule[i]
    BY <1>1, <1>2, <1>3
  <2> QED BY <2>1, <2>2, <2>3 DEF OnSchedule
<1>5. ASSUME Injective(schedule), ~ OnSchedule(t) PROVE Injective(schedule)'
  <2>1. ASSUME NEW i \in DOMAIN schedule', NEW j \in DOMAIN schedule', schedule'[i] = schedule'[j]
        PROVE  i = j
    <3>1. \A k \in DOMAIN schedule' : k # 1 => k - 1 \in DOMAIN schedule
                                               /\ schedule'[k] = schedule[k - 1]
      BY <1>1, <1>2, <1>3
    <3>2. \A k \in DOMAIN schedule' : k # 1 => schedule'[k] # t  BY <1>5, <3>1 DEF OnSchedule
    <3>3. schedule'[1] = t  BY <1>1, <1>2
    <3>4. CASE i # 1 /\ j # 1
      <4>1. i - 1 = j - 1  BY <1>5, <2>1, <3>1, <3>4 DEF Injective
      <4> QED BY <1>3, <4>1
    <3> QED BY <2>1, <3>2, <3>3, <3>4
  <2> QED BY <2>1 DEF Injective
<1> QED BY <1>4, <1>5

LEMMA PopIs ==
  ASSUME ListsOK, batch # <<>>, batch' = Tail(batch), NEW h, h = Head(batch)
  PROVE  /\ h \in Timers
         /\ \A v : InBatch(v) <=> v = h \/ InBatch(v)'
         /\ Injective(batch) => Injective(batch)' /\ ~ InBatch(h)'
<1>1. /\ batch \in Seq(Timers) /\ Len(batch) \in Nat \ {0} /\ DOMAIN batch = 1..Len(batch)
      /\ h = batch[1] /\ h \in Timers
  BY LenProperties, HeadTailProperties, EmptySeq DEF ListsOK
<1>2. /\ batch' \in Seq(Timers) /\ Len(batch') = Len(batch) - 1
      /\ \A i \in 1..(Len(batch) - 1) : batch'[i] = batch[i + 1]
  BY <1>1, HeadTailProperties
<1>3. DOMAIN batch' = 1..(Len(batch) - 1)  BY <1>2, LenProperties
<1>4. \A i \in DOMAIN batch' : i + 1 \in DOMAIN batch /\ batch'[i] = batch[i + 1]
  BY <1>1, <1>2, <1>3
<1>5. \A i \in DOMAIN batch : i = 1 \/ (i - 1 \in DOMAIN batch' /\ batch'[i - 1] = batch[i])
  BY <1>1, <1>2, <1>3
<1>6. ASSUME NEW v PROVE InBatch(v) <=> v = h \/ InBatch(v)'
  <2>1. InBatch(v) => v = h \/ InBatch(v)'  BY <1>1, <1>5 DEF InBatch
  <2>2. InBatch(v)' => InBatch(v)  BY <1>4 DEF InBatch
  <2>3. InBatch(h)  BY <1>1 DEF InBatch
  <2> QED BY <2>1, <2>2, <2>3
<1>7. ASSUME Injective(batch) PROVE Injective(batch)' /\ ~ InBatch(h)'
  <2>1. ASSUME NEW i \in DOMAIN batch', NEW j \in DOMAIN batch', batch'[i] = batch'[j] PROVE i = j
    <3>1. i + 1 = j + 1  BY <1>4, <1>7, <2>1 DEF Injective
    <3> QED BY <1>3, <3>1
  <2>2. ASSUME NEW i \in DOMAIN batch' PROVE batch'[i] # h
    <3>1. i + 1 # 1 /\ 1 \in DOMAIN batch  BY <1>1, <1>3
    <3> QED BY <1>1, <1>4, <1>7, <3>1 DEF Injective
  <2> QED BY <2>1, <2>2 DEF Injective, InBatch
<1> QED BY <1>1, <1>6, <1>7

(* Taking the whole list moves what is on it to the batch. *)
LEMMA TakeKeeps ==
  ASSUME ListInv, one.pc = "idle", batch = <<>>, TakeBatch,
         \A v \in Timers : Linking(v)' <=> Linking(v),
         \A v \in Timers : state'[v] = state[v] \/ state'[v] = "DESTROY"
  PROVE  ListInv'
<1>1. /\ \A v : ~ OnSchedule(v)' /\ (InBatch(v)' <=> OnSchedule(v)) /\ ~ Scheduling(v)'
      /\ \A v : ~ InBatch(v) /\ ~ Scheduling(v)
      /\ abandoned' = abandoned
  BY DEF TakeBatch, OnSchedule, InBatch, Scheduling, NoOne
<1>2. ListedPending'  BY <1>1 DEF ListInv, ListedPending
<1>3. PendingIsQueued'
  <2>1. \A v \in Timers : Queued(v) <=> OnSchedule(v) \/ InBatch(v) \/ Scheduling(v) \/ Linking(v)
    BY DEF Queued, OnSchedule, InBatch, Linking
  <2>2. \A v \in Timers : Queued(v)' <=> OnSchedule(v)' \/ InBatch(v)' \/ Scheduling(v)' \/ Linking(v)'
    BY DEF Queued, OnSchedule, InBatch, Linking
  <2>3. "DESTROY" \notin Pending  BY DEF Pending, PendingScheduling, PendingStop, SetExpire
  <2> QED BY <1>1, <2>1, <2>2, <2>3 DEF ListInv, PendingIsQueued
<1>4. Apart'
  <2>1. Injective(schedule)' /\ Injective(batch)'
    BY DEF TakeBatch, ListInv, Apart, Injective
  <2> QED BY <1>1, <2>1 DEF ListInv, Apart
<1> QED BY <1>2, <1>3, <1>4 DEF ListInv

\* What does not change in a step that leaves the active list and the states
\* alone, and does not touch the start of a timer on an optimized path.
LEMMA SameActive ==
  ASSUME ActiveInv, UNCHANGED <<state, expire, active, queueExpire, run>>,
         one' = one \/ (one.pc # "link" /\ one'.pc # "link"),
         \A th \in Threads : \/ call'[th] = call[th]
                             \/ call[th].pc # "start" /\ call'[th].pc # "start"
  PROVE  ActiveInv' /\ \A v \in Timers : Expected(v)' <=> Expected(v)
<1>1. \A v \in Timers : Expected(v)' <=> Expected(v)  BY DEF Expected
<1> QED BY <1>1 DEF ActiveInv, InActive, CacheOK, NextOf, Injective

LEMMA SetLinkKeeps ==
  ASSUME KInv, NEW th \in Threads, SetLink(th)
  PROVE  KRest' /\ \A v \in Timers : Expected(v)' <=> Expected(v)
<1> USE DEF KInv, KRest
<1> DEFINE l == IF call[th].op = "Stop" THEN "schedule" ELSE "write"
           d == [call[th] EXCEPT !.pc = l]
<1>1. /\ call' = [call EXCEPT ![th] = d] /\ LinkSchedule(call[th].timer) /\ call[th].pc = "link"
      /\ UNCHANGED <<state, expire, batch, one, abandoned, active, queueExpire, run, now>>
  BY DEF SetLink, Goto, RunVars, ActiveVars
<1>2. Busy(th)  BY <1>1 DEF Busy
<1>3. /\ call[th] \in CallType /\ call[th].timer \in Timers /\ state[call[th].timer] \in States
      /\ CallFits(call[th], state[call[th].timer])
      /\ state[call[th].timer] \in SetExpire => Sets(call[th])
      /\ state[call[th].timer] = "DESTROY" => At(th, "free")
  BY <1>2, OwnFacts
<1>4. state[call[th].timer] \in Pending \ {"DESTROY"}
  BY <1>1, <1>3 DEF CallFits, OpFits, Sets, Claim, Pending, PendingScheduling, PendingStop, SetExpire
<1>5. Moves(th, d, state[call[th].timer])
  <2>1. state' = [state EXCEPT ![call[th].timer] = state[call[th].timer]]
    BY <1>1 DEF IInv, TimerInv
  <2>2. /\ d \in CallType /\ d.pc = l /\ d.timer = call[th].timer /\ d.op = call[th].op
        /\ d.old = call[th].old /\ d.arg = call[th].arg
    BY <1>3 DEF CallType, CallPcs
  <2> HIDE DEF d
  <2>3. CallFits(d, state[call[th].timer])
    BY <1>1, <1>3, <2>2 DEF CallFits, OpFits, Sets, SetPcs, StopPcs, DestroyPcs, Claim
  <2>4. state[call[th].timer] \in SetExpire => Sets(d)
    <3>1. CASE call[th].op = "Stop"
      BY <1>1, <1>3, <3>1 DEF CallFits, SetExpire
    <3>2. CASE call[th].op # "Stop"  BY <2>2, <3>2 DEF Sets
    <3> QED BY <3>1, <3>2
  <2>5. Goes(call[th], state[call[th].timer], d, state[call[th].timer])
    BY <1>3, <1>4, <2>2, <2>3, <2>4 DEF Goes
  <2> QED BY <1>1, <2>1, <2>5 DEF Moves
<1> HIDE DEF d
<1>6. PICK t \in Timers :
        /\ t = call[th].timer
        /\ call'[th] = d /\ \A u \in Threads : u # th => call'[u] = call[u]
        /\ \A u \in Threads : Busy(u) /\ u # th => call[u].timer # t
  BY <1>2, <1>5, MovesEffect
<1>7. d.pc = l  BY <1>3 DEF d, CallType
<1>8. OneHeld'  BY <1>1, <1>6 DEF Serial, OneHeld
<1>9. Serial' /\ CallsFit' /\ StatesFit'  BY <1>2, <1>5, <1>8, MovesCalls
<1>10. ListInv'
  <2>1. /\ \A v : OnSchedule(v)' <=> v = t \/ OnSchedule(v)
        /\ Injective(schedule) /\ ~ OnSchedule(t) => Injective(schedule)'
    BY <1>1, <1>6, PushIs DEF IInv
  <2>2. /\ \A v : InBatch(v)' <=> InBatch(v)
        /\ \A v : Scheduling(v)' <=> Scheduling(v)
    BY <1>1 DEF InBatch, Scheduling
  <2>3. Linking(t)  BY <1>1, <1>6 DEF Linking
  <2>4. ~ Linking(t)'  BY <1>6, <1>7 DEF Linking, Busy
  <2>5. \A v \in Timers : v # t => (Linking(v)' <=> Linking(v))
    BY <1>1, <1>6, <1>7 DEF Linking
  <2>6. ListedPending'  BY <1>1, <1>4, <1>6, <2>1, <2>2 DEF ListInv, ListedPending
  <2>7. PendingIsQueued'
    <3>1. \A v \in Timers : Queued(v) <=> OnSchedule(v) \/ InBatch(v) \/ Scheduling(v) \/ Linking(v)
      BY DEF Queued, OnSchedule, InBatch, Linking
    <3>2. \A v \in Timers : Queued(v)' <=> OnSchedule(v)' \/ InBatch(v)' \/ Scheduling(v)' \/ Linking(v)'
      BY DEF Queued, OnSchedule, InBatch, Linking
    <3> QED BY <1>1, <2>1, <2>2, <2>5, <3>1, <3>2 DEF ListInv, PendingIsQueued
  <2>8. Apart'
    <3>1. Injective(schedule)' /\ Injective(batch)'
      BY <1>1, <2>1, <2>3 DEF ListInv, Apart, Injective
    <3> QED BY <2>1, <2>2, <2>3, <2>4, <2>5, <3>1 DEF ListInv, Apart
  <2> QED BY <2>6, <2>7, <2>8 DEF ListInv
<1>11. ActiveInv' /\ \A v \in Timers : Expected(v)' <=> Expected(v)
  BY <1>1, <1>6, <1>7, SameActive
<1>12. TimeInv'
  BY <1>1, <1>6, <1>7 DEF TimeInv
<1> QED BY <1>9, <1>10, <1>11, <1>12

LEMMA ScheduleKeeps ==
  ASSUME KInv, NEW th \in Threads, Schedule(th), th \in Emts, CanLock(th)
  PROVE  KRest' /\ \A v \in Timers : Expected(v)' <=> Expected(v)
<1> USE DEF KInv, KRest
<1> DEFINE d == [call[th] EXCEPT !.pc = "batch"]
<1>1. /\ call' = [call EXCEPT ![th] = d] /\ TakeBatch /\ call[th].pc = "schedule"
      /\ UNCHANGED <<state, expire, active, queueExpire, run, now>>
  BY DEF Schedule, Goto, RunVars, ActiveVars
<1>2. Busy(th)  BY <1>1 DEF Busy
<1>3. /\ call[th] \in CallType /\ call[th].timer \in Timers /\ state[call[th].timer] \in States
      /\ CallFits(call[th], state[call[th].timer])
      /\ state[call[th].timer] \in SetExpire => Sets(call[th])
      /\ state[call[th].timer] = "DESTROY" => At(th, "free")
  BY <1>2, OwnFacts
<1>4. Moves(th, d, state[call[th].timer])
  <2>1. state' = [state EXCEPT ![call[th].timer] = state[call[th].timer]]
    BY <1>1 DEF IInv, TimerInv
  <2>2. Goes(call[th], state[call[th].timer], d, state[call[th].timer])
    BY <1>1, <1>3 DEF Goes, CallFits, OpFits, Sets, SetPcs, StopPcs, DestroyPcs, CallType, CallPcs
  <2> QED BY <1>1, <2>1, <2>2 DEF Moves
<1> HIDE DEF d
<1>5. PICK t \in Timers :
        /\ t = call[th].timer
        /\ call'[th] = d /\ \A u \in Threads : u # th => call'[u] = call[u]
        /\ \A u \in Threads : Busy(u) /\ u # th => call[u].timer # t
  BY <1>2, <1>4, MovesEffect
<1>6. d.pc = "batch"  BY <1>3 DEF d, CallType
<1>7. one.pc = "idle" /\ batch = <<>>  BY <1>1, <1>2, OneIdle
<1>8. one'.pc = "next"  BY <1>1 DEF TakeBatch, NoOne
<1>9. OneHeld'  BY <1>5, <1>6, <1>8 DEF OneHeld
<1>10. Serial' /\ CallsFit' /\ StatesFit'  BY <1>2, <1>4, <1>9, MovesCalls
<1>11. ListInv'
  <2>1. \A v \in Timers : Linking(v)' <=> Linking(v)  BY <1>1, <1>5, <1>6 DEF Linking
  <2> QED BY <1>1, <1>7, <2>1, TakeKeeps
<1>12. ActiveInv' /\ \A v \in Timers : Expected(v)' <=> Expected(v)
  BY <1>1, <1>5, <1>6, <1>7, <1>8, SameActive
<1>13. TimeInv'
  BY <1>1, <1>5, <1>6 DEF TimeInv
<1> QED BY <1>10, <1>11, <1>12, <1>13

-----------------------------------------------------------------------------
(* Sequences: putting an element at a position, and taking one out. *)

LEMMA HeadIs ==
  ASSUME NEW S, NEW s \in Seq(S), Len(s) # 0
  PROVE  s # <<>> /\ Head(s) = s[1]
BY EmptySeq

LEMMA HeadIn ==
  ASSUME NEW S, NEW s \in Seq(S), s # <<>>
  PROVE  1 \in DOMAIN s /\ s[1] = Head(s)
BY EmptySeq, LenProperties

LEMMA SliceIs ==
  ASSUME NEW S, NEW s \in Seq(S), NEW m \in Nat \ {0}, NEW n \in Nat, n <= Len(s), m <= n + 1
  PROVE  /\ SubSeq(s, m, n) \in Seq(S) /\ Len(SubSeq(s, m, n)) = n - m + 1
         /\ \A i \in 1..(n - m + 1) : SubSeq(s, m, n)[i] = s[m + i - 1]
<1>1. \A i \in m..n : s[i] \in S
  <2>1. Len(s) \in Nat  BY LenProperties
  <2> QED BY <2>1, ElementOfSeq
<1>2. SubSeq(s, m, n) \in Seq(S) /\ Len(SubSeq(s, m, n)) = IF m <= n THEN n - m + 1 ELSE 0
  BY <1>1, SubSeqProperties
<1>3. \A i \in 1..(n - m + 1) : SubSeq(s, m, n)[i] = s[m + i - 1]
  BY <1>1, SubSeqProperties
<1>4. m <= n \/ n - m + 1 = 0  OBVIOUS
<1> QED BY <1>2, <1>3, <1>4

Has(s, v) == \E i \in DOMAIN s : s[i] = v

Put(s, n, m, t) == SubSeq(s, 1, m) \o <<t>> \o SubSeq(s, m + 1, n)

(* q is s, of length n, with t inserted after the first m elements. *)
WithAt(q, s, n, m, t) ==
  /\ Len(q) = n + 1
  /\ \A i \in 1..m : q[i] = s[i]
  /\ q[m + 1] = t
  /\ \A i \in (m + 1)..n : q[i + 1] = s[i]

(* q is s, of length n, without the element that follows the first m. *)
WithoutAt(q, s, n, m) ==
  /\ Len(q) = n - 1
  /\ \A i \in 1..m : q[i] = s[i]
  /\ \A i \in (m + 1)..(n - 1) : q[i] = s[i + 1]

(* What that does to the elements and to the head. *)
Gains(q, s, m, t) ==
  /\ Injective(q) /\ q # <<>>
  /\ \A v : Has(q, v) <=> v = t \/ Has(s, v)
  /\ m = 0 => Head(q) = t
  /\ m # 0 => s # <<>> /\ Head(q) = Head(s)

Loses(q, s, n, m) ==
  /\ Injective(q)
  /\ \A v : Has(q, v) <=> v # s[m + 1] /\ Has(s, v)
  /\ n = 1 => q = <<>>
  /\ n # 1 => /\ q # <<>>
              /\ m = 0 => Head(q) = s[2]
              /\ m # 0 => s # <<>> /\ Head(q) = Head(s)

LEMMA InsertAt ==
  ASSUME NEW S, NEW s \in Seq(S), NEW t \in S, NEW n \in Nat, Len(s) = n,
         NEW m \in Nat, m <= n,
         NEW q, q = Put(s, n, m, t)
  PROVE  q \in Seq(S) /\ WithAt(q, s, n, m, t)
<1> DEFINE a == SubSeq(s, 1, m)
           b == SubSeq(s, m + 1, n)
           w == <<t>>
           aw == a \o w
           c == aw \o b
           k == n - m
           l == m + 1
<1>1. q = c /\ k \in Nat /\ l \in Nat  BY DEF Put
<1>2. a \in Seq(S) /\ Len(a) = m /\ \A i \in 1..m : a[i] = s[i]
  <2>1. /\ a \in Seq(S) /\ Len(a) = m - 1 + 1
        /\ \A i \in 1..(m - 1 + 1) : a[i] = s[1 + i - 1]
    BY SliceIs
  <2> QED BY <2>1
<1>3. b \in Seq(S) /\ Len(b) = k /\ \A i \in 1..k : b[i] = s[m + i]
  <2>1. /\ b \in Seq(S) /\ Len(b) = n - (m + 1) + 1
        /\ \A i \in 1..(n - (m + 1) + 1) : b[i] = s[m + 1 + i - 1]
    BY SliceIs
  <2> QED BY <2>1
<1>4. w \in Seq(S) /\ Len(w) = 1 /\ w[1] = t  OBVIOUS
<1>5. l = m + 1 /\ k = n - m  OBVIOUS
<1> HIDE DEF a, b, w, k, l
<1>6. /\ aw \in Seq(S) /\ Len(aw) = m + 1
      /\ \A i \in 1..m : aw[i] = a[i]
      /\ aw[m + 1] = w[1]
  <2>1. a \in Seq(S) /\ w \in Seq(S)  BY <1>2, <1>4
  <2>2. /\ aw \in Seq(S) /\ Len(aw) = Len(a) + Len(w)
        /\ \A i \in 1..(Len(a) + Len(w)) : aw[i] = IF i <= Len(a) THEN a[i] ELSE w[i - Len(a)]
    BY <2>1, ConcatProperties
  <2>3. Len(a) = m /\ Len(w) = 1  BY <1>2, <1>4
  <2> HIDE DEF aw
  <2> QED BY <2>2, <2>3
<1> HIDE DEF aw
<1>7. /\ c \in Seq(S) /\ Len(c) = l + k
      /\ \A i \in 1..l : c[i] = aw[i]
      /\ \A i \in 1..k : c[l + i] = b[i]
  <2>1. aw \in Seq(S) /\ b \in Seq(S)  BY <1>3, <1>6
  <2>2. /\ c \in Seq(S) /\ Len(c) = Len(aw) + Len(b)
        /\ \A i \in 1..(Len(aw) + Len(b)) : c[i] = IF i <= Len(aw) THEN aw[i] ELSE b[i - Len(aw)]
    BY <2>1, ConcatProperties
  <2>3. Len(aw) = l /\ Len(b) = k  BY <1>3, <1>5, <1>6
  <2> HIDE DEF c
  <2> QED BY <1>1, <2>2, <2>3
<1> HIDE DEF c
<1>8. q \in Seq(S) /\ Len(q) = n + 1  BY <1>1, <1>5, <1>7
<1>9. ASSUME NEW i \in 1..m PROVE q[i] = s[i]
  <2>1. i \in 1..l  BY <1>5
  <2> QED BY <1>1, <1>2, <1>6, <1>7, <2>1
<1>10. q[m + 1] = t
  <2>1. l \in 1..l /\ 1 \in 1..1  BY <1>1, <1>5
  <2>2. q[l] = aw[l] /\ aw[m + 1] = w[1]  BY <1>1, <1>6, <1>7, <2>1
  <2> QED BY <1>4, <1>5, <2>2
<1>11. ASSUME NEW i \in (m + 1)..n PROVE q[i + 1] = s[i]
  <2>1. PICK j \in 1..k : j = i - m  BY <1>5
  <2>2. l + j = i + 1 /\ m + j = i  BY <1>5, <2>1
  <2>3. q[l + j] = s[m + j]  BY <1>1, <1>3, <1>7, <2>1
  <2> QED BY <2>2, <2>3
<1> QED BY <1>8, <1>9, <1>10, <1>11 DEF WithAt

LEMMA RemoveAt ==
  ASSUME NEW S, NEW s \in Seq(S), NEW n \in Nat, Len(s) = n,
         NEW m \in Nat, m < n,
         NEW q, q = SubSeq(s, 1, m) \o SubSeq(s, m + 2, n)
  PROVE  q \in Seq(S) /\ WithoutAt(q, s, n, m)
<1> DEFINE a == SubSeq(s, 1, m)
           b == SubSeq(s, m + 2, n)
           c == a \o b
           k == n - m - 1
<1>1. q = c /\ k \in Nat /\ k = n - m - 1  OBVIOUS
<1>2. a \in Seq(S) /\ Len(a) = m /\ \A i \in 1..m : a[i] = s[i]
  <2>1. /\ a \in Seq(S) /\ Len(a) = m - 1 + 1
        /\ \A i \in 1..(m - 1 + 1) : a[i] = s[1 + i - 1]
    BY SliceIs
  <2> QED BY <2>1
<1>3. b \in Seq(S) /\ Len(b) = k /\ \A i \in 1..k : b[i] = s[m + 1 + i]
  <2>1. /\ b \in Seq(S) /\ Len(b) = n - (m + 2) + 1
        /\ \A i \in 1..(n - (m + 2) + 1) : b[i] = s[m + 2 + i - 1]
    BY SliceIs
  <2> QED BY <2>1
<1> HIDE DEF a, b, k
<1>4. /\ c \in Seq(S) /\ Len(c) = m + k
      /\ \A i \in 1..m : c[i] = a[i]
      /\ \A i \in 1..k : c[m + i] = b[i]
  <2>1. a \in Seq(S) /\ b \in Seq(S)  BY <1>2, <1>3
  <2>2. /\ c \in Seq(S) /\ Len(c) = Len(a) + Len(b)
        /\ \A i \in 1..(Len(a) + Len(b)) : c[i] = IF i <= Len(a) THEN a[i] ELSE b[i - Len(a)]
    BY <2>1, ConcatProperties
  <2>3. Len(a) = m /\ Len(b) = k  BY <1>2, <1>3
  <2> HIDE DEF c
  <2>4. k \in Nat  BY <1>1
  <2>5. \A i \in 1..(m + k) : c[i] = IF i <= m THEN a[i] ELSE b[i - m]  BY <2>2, <2>3, Zenon
  <2>6. ASSUME NEW i \in 1..m PROVE c[i] = a[i]
    <3>1. i \in 1..(m + k) /\ i <= m  BY <2>4
    <3> QED BY <2>5, <3>1, Zenon
  <2>7. ASSUME NEW i \in 1..k PROVE c[m + i] = b[i]
    <3>1. m + i \in 1..(m + k) /\ ~ (m + i <= m) /\ m + i - m = i  BY <2>4
    <3> QED BY <2>5, <3>1
  <2> QED BY <2>2, <2>3, <2>6, <2>7, Zenon
<1> HIDE DEF c
<1>5. q \in Seq(S) /\ Len(q) = n - 1  BY <1>1, <1>4
<1>6. ASSUME NEW i \in 1..m PROVE q[i] = s[i]  BY <1>1, <1>2, <1>4
<1>7. ASSUME NEW i \in (m + 1)..(n - 1) PROVE q[i] = s[i + 1]
  <2>1. PICK j \in 1..k : j = i - m  BY <1>1
  <2>2. m + j = i /\ m + 1 + j = i + 1  BY <2>1
  <2>3. q[m + j] = s[m + 1 + j]  BY <1>1, <1>3, <1>4, <2>1
  <2> QED BY <2>2, <2>3
<1> QED BY <1>5, <1>6, <1>7 DEF WithoutAt

(* What inserting an element that is not there does to the set of elements and
   to the head. *)
LEMMA Inserted ==
  ASSUME NEW S, NEW s \in Seq(S), NEW t \in S, NEW n \in Nat, Len(s) = n,
         NEW m \in Nat, m <= n,
         NEW q \in Seq(S), WithAt(q, s, n, m, t), Injective(s), ~ Has(s, t)
  PROVE  Gains(q, s, m, t)
<1>1. /\ q \in Seq(S) /\ Len(q) = n + 1
      /\ \A i \in 1..m : q[i] = s[i]
      /\ q[m + 1] = t
      /\ \A i \in (m + 1)..n : q[i + 1] = s[i]
  BY DEF WithAt
<1>2. DOMAIN q = 1..(n + 1) /\ DOMAIN s = 1..n  BY <1>1, LenProperties
<1>3. ASSUME NEW i \in DOMAIN s
      PROVE  \/ i \in DOMAIN q /\ q[i] = s[i]
             \/ i + 1 \in DOMAIN q /\ q[i + 1] = s[i]
  <2>1. CASE i \in 1..m
    <3>1. i \in DOMAIN q  BY <1>2, <2>1
    <3> QED BY <1>1, <2>1, <3>1
  <2>2. CASE i \notin 1..m
    <3>1. i \in (m + 1)..n /\ i + 1 \in DOMAIN q  BY <1>2, <2>2
    <3> QED BY <1>1, <3>1
  <2> QED BY <2>1, <2>2
<1>4. ASSUME NEW i \in DOMAIN q
      PROVE  \/ i <= m /\ i \in DOMAIN s /\ q[i] = s[i]
             \/ i = m + 1 /\ q[i] = t
             \/ i > m + 1 /\ i - 1 \in DOMAIN s /\ q[i] = s[i - 1]
  <2>1. i \in 1..(n + 1)  BY <1>2
  <2>2. CASE i <= m
    <3>1. i \in 1..m /\ i \in DOMAIN s  BY <1>2, <2>1, <2>2
    <3> QED BY <1>1, <2>2, <3>1
  <2>3. CASE i = m + 1  BY <1>1, <2>3
  <2>4. CASE i > m + 1
    <3>1. PICK j \in (m + 1)..n : j = i - 1  BY <2>1, <2>4
    <3>2. j + 1 = i /\ j \in DOMAIN s  BY <1>2, <2>1, <3>1
    <3>3. q[j + 1] = s[j]  BY <1>1, <3>1
    <3> QED BY <2>4, <3>1, <3>2, <3>3
  <2> QED BY <2>1, <2>2, <2>3, <2>4
<1>5. m + 1 \in DOMAIN q  BY <1>2
<1>6. ASSUME NEW v
      PROVE  (\E i \in DOMAIN q : q[i] = v) <=> v = t \/ \E i \in DOMAIN s : s[i] = v
  <2>1. (\E i \in DOMAIN q : q[i] = v) => v = t \/ \E i \in DOMAIN s : s[i] = v  BY <1>4
  <2>2. v = t => \E i \in DOMAIN q : q[i] = v  BY <1>1, <1>5
  <2>3. ASSUME NEW i \in DOMAIN s, s[i] = v PROVE \E j \in DOMAIN q : q[j] = v
    BY <1>3, <2>3
  <2> QED BY <2>1, <2>2, <2>3
<1>7. Injective(q)
  <2>1. ASSUME NEW i \in DOMAIN q, NEW j \in DOMAIN q, q[i] = q[j] PROVE i = j
    <3>1. i \in Int /\ j \in Int  BY <1>2
    <3>2. \A k \in DOMAIN s : s[k] # t  BY DEF Has
    <3>3. \A k, l \in DOMAIN s : s[k] = s[l] => k = l  BY DEF Injective
    <3>4. CASE i = m + 1
      <4>1. q[j] = t  BY <1>1, <2>1, <3>4
      <4> QED BY <1>4, <3>2, <3>4, <4>1
    <3>5. CASE j = m + 1
      <4>1. q[i] = t  BY <1>1, <2>1, <3>5
      <4> QED BY <1>4, <3>2, <3>5, <4>1
    <3>6. CASE i # m + 1 /\ j # m + 1
      <4>1. PICK k \in DOMAIN s : /\ q[i] = s[k]
                                  /\ (i <= m /\ k = i) \/ (i > m + 1 /\ k = i - 1)
        BY <1>4, <3>6
      <4>2. PICK l \in DOMAIN s : /\ q[j] = s[l]
                                  /\ (j <= m /\ l = j) \/ (j > m + 1 /\ l = j - 1)
        BY <1>4, <3>6
      <4>3. s[k] = s[l]  BY <2>1, <4>1, <4>2
      <4>4. k = l  BY <3>3, <4>3
      <4> QED BY <3>1, <4>1, <4>2, <4>4
    <3> QED BY <3>4, <3>5, <3>6
  <2> QED BY <2>1 DEF Injective
<1>8. q # <<>> /\ Head(q) = q[1]  BY <1>1, HeadIs
<1>9. m = 0 => Head(q) = t  BY <1>1, <1>8
<1>10. ASSUME m # 0 PROVE s # <<>> /\ Head(q) = Head(s)
  <2>1. 1 \in 1..m /\ n # 0  BY <1>10
  <2>2. q[1] = s[1]  BY <1>1, <2>1
  <2>3. s # <<>> /\ Head(s) = s[1]  BY <2>1, HeadIs
  <2> QED BY <1>8, <2>2, <2>3
<1> QED BY <1>6, <1>7, <1>8, <1>9, <1>10 DEF Gains, Has

(* What taking out the element after the first m does. *)
LEMMA Removed ==
  ASSUME NEW S, NEW s \in Seq(S), NEW n \in Nat, Len(s) = n,
         NEW m \in Nat, m < n,
         NEW q \in Seq(S), WithoutAt(q, s, n, m), Injective(s)
  PROVE  Loses(q, s, n, m)
<1>1. /\ q \in Seq(S) /\ Len(q) = n - 1
      /\ \A i \in 1..m : q[i] = s[i]
      /\ \A i \in (m + 1)..(n - 1) : q[i] = s[i + 1]
  BY DEF WithoutAt
<1>2. DOMAIN q = 1..(n - 1) /\ DOMAIN s = 1..n  BY <1>1, LenProperties
<1>3. ASSUME NEW i \in DOMAIN s
      PROVE  \/ i = m + 1
             \/ i \in DOMAIN q /\ q[i] = s[i]
             \/ i - 1 \in DOMAIN q /\ q[i - 1] = s[i]
  <2>1. i \in 1..n  BY <1>2
  <2>2. CASE i <= m
    <3>1. i \in 1..m /\ i \in DOMAIN q  BY <1>2, <2>1, <2>2
    <3> QED BY <1>1, <3>1
  <2>3. CASE i > m + 1
    <3>1. PICK j \in (m + 1)..(n - 1) : j = i - 1  BY <2>1, <2>3
    <3>2. j + 1 = i /\ j \in DOMAIN q  BY <1>2, <2>1, <3>1
    <3>3. q[j] = s[j + 1]  BY <1>1, <3>1
    <3> QED BY <3>1, <3>2, <3>3
  <2> QED BY <2>1, <2>2, <2>3
<1>4. ASSUME NEW i \in DOMAIN q
      PROVE  \/ i <= m /\ i \in DOMAIN s /\ q[i] = s[i]
             \/ i > m /\ i + 1 \in DOMAIN s /\ q[i] = s[i + 1]
  <2>1. i \in 1..(n - 1)  BY <1>2
  <2>2. CASE i <= m
    <3>1. i \in 1..m /\ i \in DOMAIN s  BY <1>2, <2>1, <2>2
    <3> QED BY <1>1, <2>2, <3>1
  <2>3. CASE i > m
    <3>1. i \in (m + 1)..(n - 1) /\ i + 1 \in DOMAIN s  BY <1>2, <2>1, <2>3
    <3> QED BY <1>1, <2>3, <3>1
  <2> QED BY <2>1, <2>2, <2>3
<1>5. m + 1 \in DOMAIN s  BY <1>2
<1>6. \A i \in DOMAIN q : i \in Int  BY <1>2
<1>7. ASSUME NEW i \in DOMAIN q PROVE q[i] # s[m + 1]
  <2>1. i \in Int  BY <1>6
  <2> QED BY <1>4, <1>5, <2>1 DEF Injective
<1>8. ASSUME NEW v
      PROVE  (\E i \in DOMAIN q : q[i] = v) <=> v # s[m + 1] /\ \E i \in DOMAIN s : s[i] = v
  <2>1. ASSUME NEW i \in DOMAIN q, q[i] = v
        PROVE  v # s[m + 1] /\ \E j \in DOMAIN s : s[j] = v
    BY <1>4, <1>7, <2>1
  <2>2. ASSUME NEW i \in DOMAIN s, s[i] = v, v # s[m + 1] PROVE \E j \in DOMAIN q : q[j] = v
    BY <1>3, <2>2
  <2> QED BY <2>1, <2>2
<1>9. Injective(q)
  <2>1. ASSUME NEW i \in DOMAIN q, NEW j \in DOMAIN q, q[i] = q[j] PROVE i = j
    <3>1. i \in Int /\ j \in Int  BY <1>6
    <3>2. \A k, l \in DOMAIN s : s[k] = s[l] => k = l  BY DEF Injective
    <3>3. PICK k \in DOMAIN s : /\ q[i] = s[k]
                                /\ (i <= m /\ k = i) \/ (i > m /\ k = i + 1)
      BY <1>4
    <3>4. PICK l \in DOMAIN s : /\ q[j] = s[l]
                                /\ (j <= m /\ l = j) \/ (j > m /\ l = j + 1)
      BY <1>4
    <3>5. s[k] = s[l]  BY <2>1, <3>3, <3>4
    <3>6. k = l  BY <3>2, <3>5
    <3> QED BY <3>1, <3>3, <3>4, <3>6
  <2> QED BY <2>1 DEF Injective
<1>10. n = 1 => q = <<>>  BY <1>1, EmptySeq
<1>11. ASSUME n # 1
       PROVE  /\ q # <<>>
              /\ m = 0 => Head(q) = s[2]
              /\ m # 0 => s # <<>> /\ Head(q) = Head(s)
  <2>1. n - 1 \in Nat \ {0} /\ n # 0  BY <1>11
  <2>2. q # <<>> /\ Head(q) = q[1]
    <3>1. Len(q) # 0  BY <1>1, <2>1
    <3> QED BY <1>1, <3>1, HeadIs
  <2>3. ASSUME m = 0 PROVE q[1] = s[2]
    <3>1. 1 \in (m + 1)..(n - 1)  BY <2>1, <2>3
    <3>2. q[1] = s[1 + 1]  BY <1>1, <3>1
    <3>3. 1 + 1 = 2  OBVIOUS
    <3> QED BY <3>2, <3>3, Zenon
  <2>4. ASSUME m # 0 PROVE q[1] = s[1]
    <3>1. 1 \in 1..m  BY <2>4
    <3> QED BY <1>1, <3>1
  <2>5. s # <<>> /\ Head(s) = s[1]  BY <2>1, HeadIs
  <2> QED BY <2>2, <2>3, <2>4, <2>5
<1> QED BY <1>8, <1>9, <1>10, <1>11 DEF Loses, Has

-----------------------------------------------------------------------------
(* The operators on the active list. *)

(* Linking a timer that is not in the list adds it, and the cached expire time is
   that of the head if it was. *)
LEMMA LinkActiveIs ==
  ASSUME TypeOK, NEW t \in Timers, NEW e \in Nat, LinkActive(t, e), Injective(active),
         ~ InActive(t)
  PROVE  /\ Injective(active)' /\ active' # <<>>
         /\ \A v : InActive(v)' <=> v = t \/ InActive(v)
         /\ \/ Head(active') = t /\ queueExpire' = e
            \/ active # <<>> /\ Head(active') = Head(active) /\ queueExpire' = queueExpire
<1>1. active \in Seq(Timers)  BY DEF TypeOK, ListsOK
<1>2. PICK n \in Nat : Len(active) = n  BY <1>1, LenProperties
<1>3. PICK m \in Nat : m <= n /\ LinkPos(e) = m + 1
  <2>1. LinkPos(e) \in 1..(n + 1)  BY <1>2, LinkPosType DEF TypeOK, ListsOK
  <2>2. LinkPos(e) - 1 \in Nat /\ LinkPos(e) - 1 <= n /\ LinkPos(e) = (LinkPos(e) - 1) + 1
    BY <1>2, <2>1
  <2> QED BY <2>2
<1>4. /\ active' = SubSeq(active, 1, m) \o <<t>> \o SubSeq(active, m + 1, n)
      /\ queueExpire' = IF m = 0 THEN e ELSE queueExpire
  <2>1. m + 1 - 1 = m /\ (m + 1 = 1 <=> m = 0)  BY <1>3
  <2> QED BY <1>2, <1>3, <2>1 DEF LinkActive
<1>5. active' \in Seq(Timers) /\ WithAt(active', active, n, m, t)
  <2>1. active' = Put(active, n, m, t)  BY <1>4 DEF Put
  <2>2. active \in Seq(Timers) /\ Len(active) = n /\ m <= n  BY <1>1, <1>2, <1>3
  <2> QED BY <2>1, <2>2, InsertAt
<1>6. ~ Has(active, t) /\ m <= n  BY <1>3 DEF InActive, Has
<1>7. Gains(active', active, m, t)  BY <1>1, <1>2, <1>5, <1>6, Inserted
<1> QED BY <1>4, <1>7 DEF Gains, Has, Injective, InActive

(* Unlinking a timer with its next one takes it out of the list, and leaves the
   cached expire time that of the head.  Only when the timer was not in the list
   does another one get lost. *)
LEMMA UnlinkIs ==
  ASSUME TypeOK, NEW t \in Timers, Unlink(t, NextOf(t)), Injective(active)
  PROVE  /\ Injective(active)' /\ ~ InActive(t)'
         /\ \A v : InActive(v)' => InActive(v)
         /\ InActive(t) => \A v : InActive(v) /\ v # t => InActive(v)'
         /\ \/ active' = <<>> /\ queueExpire' = Never
            \/ active' # <<>> /\ queueExpire' = expire[Head(active')]
            \/ /\ active # <<>> /\ active' # <<>> /\ Head(active') = Head(active)
               /\ queueExpire' = queueExpire
<1>1. active \in Seq(Timers)  BY DEF TypeOK, ListsOK
<1>2. PICK n \in Nat : Len(active) = n /\ DOMAIN active = 1..n  BY <1>1, LenProperties
<1>3. \A i \in DOMAIN active : active[i] \in Timers  BY <1>1, <1>2, ElementOfSeq
<1>4. CASE ~ InActive(t)
  <2>1. NextOf(t) = NoTimer
    <3>1. \A i \in 1..(n - 1) : i \in DOMAIN active  BY <1>2
    <3> QED BY <1>2, <1>4, <3>1 DEF NextOf, InActive
  <2>2. ~ InActive(NoTimer)  BY <1>3, NoneAssumption DEF InActive
  <2>3. active' = <<>> /\ queueExpire' = Never
    <3>1. Before(t) = <<>> /\ From(NoTimer) = <<>>  BY <1>4, <2>2 DEF Before, From
    <3>2. <<>> \o <<>> = <<>>  OBVIOUS
    <3> QED BY <2>1, <3>1, <3>2 DEF Unlink, ExpireOf
  <2> QED BY <1>4, <2>3 DEF InActive, Injective
<1>5. CASE InActive(t)
  <2>1. PICK m \in Nat : m + 1 \in DOMAIN active /\ active[m + 1] = t
    <3>1. PICK k \in DOMAIN active : active[k] = t  BY <1>5 DEF InActive
    <3>2. k - 1 \in Nat /\ (k - 1) + 1 = k  BY <1>2, <3>1
    <3>3. (k - 1) + 1 \in DOMAIN active /\ active[(k - 1) + 1] = t  BY <3>1, <3>2, Zenon
    <3> QED BY <3>2, <3>3
  <2>2. m < n /\ \A j \in DOMAIN active : active[j] = t => j = m + 1
    BY <1>2, <2>1 DEF Injective
  <2>3. Index(t) = m + 1  BY <2>1, <2>2 DEF Index
  <2>4. Before(t) = SubSeq(active, 1, m)
    <3>1. m + 1 - 1 = m  BY <2>1
    <3> QED BY <1>5, <2>3, <3>1 DEF Before
  <2>5. n = m + 1 => NextOf(t) = NoTimer
    <3>1. \A j \in 1..(n - 1) : j \in DOMAIN active /\ j # n  BY <1>2
    <3> QED BY <1>2, <2>2, <3>1 DEF NextOf
  <2>6. n # m + 1 => m + 2 \in DOMAIN active /\ NextOf(t) = active[m + 2]
    <3> SUFFICES ASSUME n # m + 1 PROVE m + 2 \in DOMAIN active /\ NextOf(t) = active[m + 2]
      OBVIOUS
    <3>1. m + 1 \in 1..(n - 1) /\ m + 2 \in 1..n /\ (m + 1) + 1 = m + 2  BY <1>2, <2>1, <2>2
    <3>2. \A j \in 1..(n - 1) : j \in DOMAIN active  BY <1>2
    <3>3. \A j \in 1..(n - 1) : active[j] = t <=> j = m + 1  BY <2>1, <2>2, <3>2, Zenon
    <3>4. (CHOOSE i \in 1..(n - 1) : active[i] = t) = m + 1  BY <3>1, <3>3, Zenon
    <3>5. \E i \in 1..(n - 1) : active[i] = t  BY <3>1, <3>3, Zenon
    <3>6. NextOf(t) = active[(m + 1) + 1]  BY <1>2, <3>4, <3>5 DEF NextOf
    <3> QED BY <1>2, <3>1, <3>6
  <2>7. From(NextOf(t)) = SubSeq(active, m + 2, n)
    <3>1. CASE n = m + 1
      <4>1. From(NoTimer) = <<>>  BY <1>3, NoneAssumption DEF From, InActive
      <4>2. SubSeq(active, m + 2, n) = <<>>
        <5>1. n < m + 2 /\ m + 2 \in Int /\ n \in Int  BY <2>1, <3>1
        <5> QED BY <1>1, <5>1, SubSeqEmpty
      <4> QED BY <2>5, <3>1, <4>1, <4>2
    <3>2. CASE n # m + 1
      <4>1. m + 2 \in DOMAIN active /\ NextOf(t) = active[m + 2]  BY <2>6, <3>2
      <4>2. \A j \in DOMAIN active : active[j] = active[m + 2] => j = m + 2
        BY <4>1 DEF Injective
      <4>3. Index(active[m + 2]) = m + 2 /\ InActive(active[m + 2])
        BY <4>1, <4>2, Zenon DEF Index, InActive
      <4> QED BY <1>2, <4>1, <4>3 DEF From
    <3> QED BY <3>1, <3>2
  <2>8. active' \in Seq(Timers) /\ WithoutAt(active', active, n, m)
    <3>1. active' = SubSeq(active, 1, m) \o SubSeq(active, m + 2, n)
      BY <2>4, <2>7 DEF Unlink
    <3> QED BY <1>1, <1>2, <2>2, <3>1, RemoveAt
  <2>9. Loses(active', active, n, m)  BY <1>1, <1>2, <2>2, <2>8, Removed
  <2>10. /\ Injective(active)' /\ ~ InActive(t)'
         /\ \A v : InActive(v)' => InActive(v)
         /\ \A v : InActive(v) /\ v # t => InActive(v)'
    BY <2>1, <2>9 DEF Loses, Has, Injective, InActive
  <2>11. m = 0 => Before(t) = <<>>
    <3>1. SubSeq(active, 1, 0) = <<>>  BY <1>1, SubSeqEmpty
    <3> QED BY <2>4, <3>1
  <2>12. m # 0 => Before(t) # <<>>
    <3>1. m # 0 => Len(SubSeq(active, 1, m)) = m - 1 + 1
      BY <1>1, <1>2, <2>1, <2>2, SliceIs
    <3>2. m # 0 => Len(SubSeq(active, 1, m)) # 0  BY <2>1, <3>1
    <3> QED BY <2>4, <3>2, EmptySeq
  <2>13. CASE m = 0 /\ n = 1
    <3>1. NextOf(t) = NoTimer  BY <2>5, <2>13
    <3> QED BY <1>5, <2>9, <2>10, <2>11, <2>13, <3>1 DEF Loses, Unlink, ExpireOf
  <2>14. CASE m = 0 /\ n # 1
    <3>1. 2 \in DOMAIN active /\ NextOf(t) = active[2]  BY <2>6, <2>14
    <3>2. NextOf(t) # NoTimer  BY <1>3, <3>1, NoneAssumption
    <3> QED BY <1>5, <2>9, <2>10, <2>11, <2>14, <3>1, <3>2 DEF Loses, Unlink, ExpireOf
  <2>15. CASE m # 0
    <3>1. n # 1  BY <1>2, <2>1, <2>2, <2>15
    <3> QED BY <1>5, <2>9, <2>10, <2>12, <2>15, <3>1 DEF Loses, Unlink
  <2> QED BY <2>13, <2>14, <2>15
<1> QED BY <1>4, <1>5

(* A step that links a timer, and knows that it was not in the list. *)
LEMMA LinkKeeps ==
  ASSUME IInv, ActiveInv, NEW t \in Timers, NEW e \in Nat, LinkActive(t, e),
         ~ Expected(t), Expected(t)', UNCHANGED state,
         expire' = [expire EXCEPT ![t] = e],
         \A v \in Timers : v # t => (Expected(v)' <=> Expected(v)),
         one'.pc # "link", run'.pc \notin {"crit", "try", "unlink"}
  PROVE  ActiveInv' /\ (Full => Full')
<1>1. TypeOK /\ Injective(active) /\ ~ InActive(t)  BY IInvType DEF ActiveInv
<1>2. /\ Injective(active)' /\ active' # <<>>
      /\ \A v : InActive(v)' <=> v = t \/ InActive(v)
      /\ \/ Head(active') = t /\ queueExpire' = e
         \/ active # <<>> /\ Head(active') = Head(active) /\ queueExpire' = queueExpire
  BY <1>1, LinkActiveIs
<1>3. expire'[t] = e /\ \A v \in Timers : v # t => expire'[v] = expire[v]
  BY DEF IInv, TimerInv
<1>4. CacheOK'
  <2>1. CASE Head(active') = t /\ queueExpire' = e  BY <1>2, <1>3, <2>1 DEF CacheOK
  <2>2. CASE active # <<>> /\ Head(active') = Head(active) /\ queueExpire' = queueExpire
    <3>1. Head(active) \in Timers /\ Head(active) # t  BY <1>1, <2>2, HeadActive
    <3> QED BY <1>2, <1>3, <2>2, <3>1 DEF ActiveInv, CacheOK
  <2> QED BY <1>2, <2>1, <2>2
<1>5. \A v \in Timers : InActive(v)' => Expected(v)'  BY <1>2 DEF ActiveInv
<1>6. Full => Full'  BY <1>2 DEF Full
<1> QED BY <1>2, <1>4, <1>5, <1>6 DEF ActiveInv

(* A step that unlinks a timer and changes the state of no other one. *)
LEMMA UnlinkKeeps ==
  ASSUME IInv, ActiveInv, NEW t \in Timers, Unlink(t, NextOf(t)),
         UNCHANGED expire, \A v \in Timers : v # t => state'[v] = state[v],
         \A v \in Timers : v # t => (Expected(v)' <=> Expected(v)),
         one'.pc # "link", run'.pc \notin {"crit", "try", "unlink"}
  PROVE  ActiveInv' /\ (Full /\ InActive(t) /\ ~ Expected(t)' => Full')
<1>1. TypeOK /\ Injective(active)  BY IInvType DEF ActiveInv
<1>2. /\ Injective(active)' /\ ~ InActive(t)'
      /\ \A v : InActive(v)' => InActive(v)
      /\ InActive(t) => \A v : InActive(v) /\ v # t => InActive(v)'
      /\ \/ active' = <<>> /\ queueExpire' = Never
         \/ active' # <<>> /\ queueExpire' = expire[Head(active')]
         \/ /\ active # <<>> /\ active' # <<>> /\ Head(active') = Head(active)
            /\ queueExpire' = queueExpire
  BY <1>1, UnlinkIs
<1>3. CacheOK'
  <2>1. CASE active' = <<>> /\ queueExpire' = Never  BY <2>1 DEF CacheOK
  <2>2. CASE active' # <<>> /\ queueExpire' = expire[Head(active')]  BY <2>2 DEF CacheOK
  <2>3. CASE /\ active # <<>> /\ active' # <<>> /\ Head(active') = Head(active)
             /\ queueExpire' = queueExpire
    <3>1. Head(active) \in Timers  BY <2>3, HeadActive
    <3>2. active' \in Seq(Timers)  BY <1>1, NextOfType, UnlinkType
    <3>3. 1 \in DOMAIN active' /\ active'[1] = Head(active')  BY <2>3, <3>2, HeadIn
    <3>4. Head(active) # t  BY <1>2, <2>3, <3>3 DEF InActive
    <3> QED BY <2>3, <3>1, <3>4 DEF ActiveInv, CacheOK
  <2> QED BY <1>2, <2>1, <2>2, <2>3
<1>4. \A v \in Timers : InActive(v)' => Expected(v)'  BY <1>2 DEF ActiveInv
<1>5. Full /\ InActive(t) /\ ~ Expected(t)' => Full'  BY <1>2 DEF Full
<1> QED BY <1>2, <1>3, <1>4, <1>5 DEF ActiveInv

(* tmTimerSetOptimizedStart. *)
LEMMA StartKeeps ==
  ASSUME KInv, NEW th \in Threads, SetOptimizedStart(th)
  PROVE  KRest' /\ (Full => Full')
<1> USE DEF KInv, KRest
<1>1. /\ call' = [call EXCEPT ![th] = Idle] /\ call[th].pc = "start"
      /\ LinkActive(call[th].timer, Wanted(th))
      /\ expire' = [expire EXCEPT ![call[th].timer] = Wanted(th)]
      /\ UNCHANGED <<state, schedule, batch, one, abandoned, run, now>>
  BY DEF SetOptimizedStart, Leave, RunVars, ListVars
<1>2. Busy(th)  BY <1>1 DEF Busy
<1>3. /\ call[th] \in CallType /\ call[th].timer \in Timers
      /\ CallFits(call[th], state[call[th].timer])
  BY <1>2, OwnFacts
<1>4. state[call[th].timer] = "ACTIVE"  BY <1>1, <1>3 DEF CallFits
<1>5. Moves(th, Idle, "ACTIVE")
  <2>1. state' = [state EXCEPT ![call[th].timer] = "ACTIVE"]
    BY <1>1, <1>4 DEF IInv, TimerInv
  <2>2. Goes(call[th], state[call[th].timer], Idle, "ACTIVE")
    BY <1>4 DEF Goes, States, SetExpire
  <2> QED BY <1>1, <2>1, <2>2 DEF Moves
<1>6. PICK t \in Timers :
        /\ t = call[th].timer
        /\ call'[th] = Idle /\ \A u \in Threads : u # th => call'[u] = call[u]
        /\ \A u \in Threads : Busy(u) /\ u # th => call[u].timer # t
  BY <1>2, <1>5, MovesEffect
<1>7. /\ one.pc = "idle" /\ batch = <<>>
      /\ run.pc \in {"idle", "lock", "callback"}
  <2>1. CanLock(th)  BY <1>1, OwnerIs DEF CanLock, OwningPcs
  <2> QED BY <1>1, <1>2, <2>1, OneIdle
<1>8. OneHeld'  BY <1>1, <1>7 DEF OneHeld
<1>9. Serial' /\ CallsFit' /\ StatesFit'  BY <1>2, <1>5, <1>8, MovesCalls
<1>10. ListInv'
  <2>1. \A v \in Timers : Linking(v)' <=> Linking(v)  BY <1>1, <1>6 DEF Linking, Idle
  <2>2. \A v \in Timers : Queued(v)' <=> Queued(v)
    BY <1>1, <2>1 DEF Queued, Linking, Scheduling
  <2> QED BY <1>1, <2>1, <2>2
          DEF ListInv, ListedPending, PendingIsQueued, Apart, OnSchedule, InBatch, Scheduling, Injective
<1>11. ActiveInv' /\ (Full => Full')
  <2>1. ~ Expected(t)  BY <1>1, <1>6, <1>7 DEF Expected
  <2>2. Expected(t)'
    <3>1. \A u \in Threads : ~ (call'[u].pc = "start" /\ call'[u].timer = t)
      BY <1>6 DEF Busy, Idle
    <3>2. state'[t] \in Linked  BY <1>1, <1>4, <1>6 DEF Linked
    <3> QED BY <1>1, <1>7, <3>1, <3>2 DEF Expected
  <2>3. ASSUME NEW v \in Timers, v # t PROVE Expected(v)' <=> Expected(v)
    <3>1. \A u \in Threads : call'[u].pc = "start" /\ call'[u].timer = v
                               <=> call[u].pc = "start" /\ call[u].timer = v
      BY <1>6, <2>3 DEF Idle
    <3> QED BY <1>1, <3>1 DEF Expected
  <2>4. Wanted(th) \in Nat  BY <1>1, WantedTimes
  <2> QED BY <1>1, <1>6, <1>7, <2>1, <2>2, <2>3, <2>4, LinkKeeps
<1>12. TimeInv'
  <2>1. ASSUME NEW u \in Threads, call'[u].pc = "commit"
        PROVE  expire'[call'[u].timer] \in Times
    <3>1. u # th /\ call'[u] = call[u] /\ Busy(u)  BY <1>6, <2>1 DEF Idle, Busy
    <3>2. call[u].timer # t /\ call[u].timer \in Timers  BY <1>6, <3>1, CallFacts DEF Busy
    <3> QED BY <1>1, <1>6, <2>1, <3>1, <3>2 DEF TimeInv, IInv, TimerInv
  <2> QED BY <1>1, <1>7, <2>1 DEF TimeInv
<1> QED BY <1>9, <1>10, <1>11, <1>12

(* The step of TMR3TimerDestroy that flushes the timer out of the lists. *)
LEMMA MarkKeeps ==
  ASSUME KInv, NEW th \in Threads, DestroyMark(th)
  PROVE  KRest' /\ (Complete => Full')
<1> USE DEF KInv, KRest
<1> DEFINE d == [call[th] EXCEPT !.pc = "free"]
           s == state[call[th].timer]
<1>1. /\ call' = [call EXCEPT ![th] = d] /\ call[th].pc = "mark"
      /\ state' = [state EXCEPT ![call[th].timer] = "DESTROY"]
      /\ UNCHANGED <<expire, run, now>>
  BY DEF DestroyMark, Goto, RunVars
<1>2. Busy(th)  BY <1>1 DEF Busy
<1>3. /\ call[th] \in CallType /\ call[th].timer \in Timers /\ s \in States
      /\ CallFits(call[th], s)
      /\ s \in SetExpire => Sets(call[th])
      /\ s = "DESTROY" => At(th, "free")
  BY <1>2, OwnFacts
<1>4. /\ one.pc = "idle" /\ batch = <<>>
      /\ run.pc \in {"idle", "lock", "callback"}
  <2>1. CanLock(th)  BY <1>1, OwnerIs DEF CanLock, OwningPcs
  <2> QED BY <1>1, <1>2, <2>1, OneIdle
<1>5. s \notin SetExpire /\ s # "EXPIRED_GET_UNLINK"
  BY <1>1, <1>3, <1>4 DEF Sets, StatesFit, StateFits
<1>6. Moves(th, d, "DESTROY")
  <2>1. /\ d \in CallType /\ d.pc = "free" /\ d.timer = call[th].timer /\ d.op = call[th].op
        /\ d.old = call[th].old /\ d.arg = call[th].arg
    BY <1>3 DEF CallType, CallPcs
  <2> HIDE DEF d
  <2>2. CallFits(d, "DESTROY")
    BY <1>3, <2>1 DEF CallFits, OpFits, Sets, SetPcs, StopPcs, DestroyPcs
  <2>3. Goes(call[th], s, d, "DESTROY")
    BY <1>5, <2>1, <2>2 DEF Goes, States, SetExpire
  <2> QED BY <1>1, <2>3 DEF Moves
<1>7. d.pc = "free"  BY <1>3 DEF d, CallType
<1> HIDE DEF d
<1>8. PICK t \in Timers :
        /\ t = call[th].timer
        /\ call'[th] = d /\ \A u \in Threads : u # th => call'[u] = call[u]
        /\ state'[t] = "DESTROY" /\ \A v \in Timers : v # t => state'[v] = state[v]
        /\ \A u \in Threads : Busy(u) /\ u # th => call[u].timer # t
  BY <1>2, <1>6, MovesEffect
<1>9. \/ /\ s \in Pending /\ TakeBatch /\ one'.pc = "next"
      \/ /\ s \notin Pending /\ UNCHANGED <<schedule, batch, one, abandoned>>
  BY DEF DestroyMark, ListVars, TakeBatch, NoOne
<1>10. \/ /\ s \in {"ACTIVE", "PENDING_RESCHEDULE"} \cup PendingStop /\ Unlink(t, NextOf(t))
       \/ /\ s \notin {"ACTIVE", "PENDING_RESCHEDULE"} \cup PendingStop
          /\ UNCHANGED <<active, queueExpire>>
  BY <1>8 DEF DestroyMark, ActiveVars, UnlinkActive
<1> HIDE DEF s
<1>11. s = state[t]  BY <1>8 DEF s
<1>12. OneHeld'  BY <1>1, <1>4, <1>7, <1>8, <1>9 DEF OneHeld
<1>13. Serial' /\ CallsFit' /\ StatesFit'  BY <1>2, <1>6, <1>12, MovesCalls
<1>14. ListInv'
  <2>1. \A v \in Timers : Linking(v)' <=> Linking(v)  BY <1>1, <1>7, <1>8 DEF Linking
  <2>2. CASE s \in Pending
    <3>1. TakeBatch  BY <1>9, <2>2
    <3>2. \A v \in Timers : state'[v] = state[v] \/ state'[v] = "DESTROY"  BY <1>8
    <3> QED BY <1>4, <2>1, <3>1, <3>2, TakeKeeps
  <2>3. CASE s \notin Pending
    <3>1. UNCHANGED <<schedule, batch, one, abandoned>>  BY <1>9, <2>3
    <3>2. ~ OnSchedule(t)  BY <1>11, <2>3 DEF ListInv, ListedPending
    <3>3. "DESTROY" \notin Pending  BY DEF Pending, PendingScheduling, PendingStop, SetExpire
    <3>4. ListedPending'
      BY <1>8, <3>1, <3>2 DEF ListInv, ListedPending, OnSchedule, InBatch, Scheduling
    <3>5. PendingIsQueued'
      <4>1. \A v \in Timers : Queued(v)' <=> Queued(v)
        BY <2>1, <3>1 DEF Queued, Linking, Scheduling
      <4> QED BY <1>8, <3>1, <3>3, <4>1 DEF ListInv, PendingIsQueued
    <3>6. Apart'
      BY <2>1, <3>1 DEF ListInv, Apart, OnSchedule, InBatch, Scheduling, Injective
    <3> QED BY <3>4, <3>5, <3>6 DEF ListInv
  <2> QED BY <2>2, <2>3
<1>15. one'.pc # "link"  BY <1>4, <1>9
<1>16. ASSUME NEW v \in Timers, v # t PROVE Expected(v)' <=> Expected(v)
  <2>1. \A u \in Threads : call'[u].pc = "start" /\ call'[u].timer = v
                             <=> call[u].pc = "start" /\ call[u].timer = v
    BY <1>1, <1>7, <1>8
  <2>2. state'[v] = state[v]  BY <1>8, <1>16
  <2> QED BY <1>1, <1>4, <1>15, <2>1, <2>2 DEF Expected
<1>17. ~ Expected(t)'
  <2>1. "DESTROY" \notin Linked  BY DEF Linked
  <2> QED BY <1>1, <1>4, <1>8, <2>1 DEF Expected
<1>18. ActiveInv' /\ (Complete => Full')
  <2>1. run'.pc \notin {"crit", "try", "unlink"}  BY <1>1, <1>4
  <2>2. CASE s \in {"ACTIVE", "PENDING_RESCHEDULE"} \cup PendingStop
    <3>1. Unlink(t, NextOf(t))  BY <1>10, <2>2
    <3>2. ActiveInv' /\ (Full /\ InActive(t) /\ ~ Expected(t)' => Full')
      BY <1>1, <1>8, <1>15, <1>16, <2>1, <3>1, UnlinkKeeps
    <3>3. Complete => s # "PENDING_STOP_SCHEDULE"
      BY <1>1, <1>4, <1>8, <1>11 DEF Complete, WellDestroyed
    <3>4. s # "PENDING_STOP_SCHEDULE" => Expected(t)
      <4>1. \A u \in Threads : ~ (call[u].pc = "start" /\ call[u].timer = t)
        BY <1>1, <1>8 DEF Busy
      <4> QED BY <1>4, <1>11, <2>2, <4>1 DEF Expected, Linked, PendingStop
    <3> QED BY <1>17, <3>2, <3>3, <3>4 DEF Complete, Full
  <2>3. CASE s \notin {"ACTIVE", "PENDING_RESCHEDULE"} \cup PendingStop
    <3>1. UNCHANGED <<active, queueExpire>>  BY <1>10, <2>3
    <3>2. ~ Expected(t)
      BY <1>4, <1>5, <1>11, <2>3 DEF Expected, Linked, PendingStop, SetExpire
    <3>3. ~ InActive(t)  BY <3>2 DEF ActiveInv
    <3>4. \A v \in Timers : InActive(v)' => Expected(v)'
      BY <1>16, <3>1, <3>3 DEF ActiveInv, InActive
    <3>5. CacheOK'
      <4>1. active # <<>> => Head(active) \in Timers /\ Head(active) # t
        BY <3>3, HeadActive
      <4> QED BY <1>1, <1>8, <3>1, <4>1 DEF ActiveInv, CacheOK
    <3>6. Full => Full'  BY <1>16, <1>17, <3>1 DEF Full, InActive
    <3> QED BY <1>15, <2>1, <3>1, <3>4, <3>5, <3>6 DEF ActiveInv, Injective, Complete
  <2> QED BY <2>2, <2>3
<1>19. TimeInv'
  BY <1>1, <1>4, <1>7, <1>8 DEF TimeInv
<1> QED BY <1>13, <1>14, <1>18, <1>19

-----------------------------------------------------------------------------
(* Scheduling a timer: the steps of tmTimerQueueSchedule. *)

LEMMA QueuedIs ==
  \A v \in Timers : Queued(v) <=> OnSchedule(v) \/ InBatch(v) \/ Scheduling(v) \/ Linking(v)
BY DEF Queued, OnSchedule, InBatch, Linking

\* What the compare-and-swap of tmTimerQueueScheduleOne does to a state keeps
\* what the calls know of it.
LEMMA ScheduledFits ==
  ASSUME IInv, CallsFit, StatesFit, NEW t \in Timers, UNCHANGED <<call, run>>,
         state[t] \in Pending \ SetExpire, ~ Linking(t),
         state' = [state EXCEPT ![t] = Scheduled(state[t])]
  PROVE  /\ CallsFit' /\ StatesFit'
         /\ state'[t] = Scheduled(state[t]) /\ \A v \in Timers : v # t => state'[v] = state[v]
<1> DEFINE s == state[t]
           z == Scheduled(s)
<1>1. state'[t] = z /\ \A v \in Timers : v # t => state'[v] = state[v]
  BY DEF IInv, TimerInv
<1>2. \/ s = "PENDING_RESCHEDULE" /\ z = "PENDING_SCHEDULE"
      \/ s = "PENDING_SCHEDULE" /\ z = "ACTIVE"
      \/ s = "PENDING_STOP" /\ z = "PENDING_STOP_SCHEDULE"
      \/ s = "PENDING_STOP_SCHEDULE" /\ z = "STOPPED"
  BY DEF Pending, PendingScheduling, PendingStop, SetExpire, Scheduled
<1> HIDE DEF s, z
<1>3. s = state[t]  BY DEF s
<1>4. CallsFit'
  <2>1. ASSUME NEW u \in Threads, Busy(u)
        PROVE  CallFits(call[u], state'[call[u].timer])
    <3>1. CallFits(call[u], state[call[u].timer]) /\ call[u].timer \in Timers
      BY <2>1, CallFacts DEF CallsFit, Busy
    <3>2. CASE call[u].timer # t  BY <1>1, <3>1, <3>2
    <3>3. CASE call[u].timer = t
      <4>1. CallFits(call[u], s) /\ call[u].pc # "link"  BY <1>3, <3>1, <3>3 DEF Linking
      <4>2. CallFits(call[u], z)
        BY <1>2, <4>1 DEF CallFits, Sets, Claim, Pending, PendingScheduling, PendingStop, SetExpire
      <4> QED BY <1>1, <3>3, <4>2
    <3> QED BY <3>2, <3>3
  <2> QED BY <2>1 DEF CallsFit, CallFits, OpFits, Sets, Busy
<1>5. StatesFit'
  <2>1. ASSUME NEW v \in Timers PROVE StateFits(v)'
    <3>1. CASE v = t  BY <1>1, <1>2, <3>1 DEF StateFits, SetExpire
    <3>2. CASE v # t  BY <1>1, <3>2 DEF StatesFit, StateFits, Sets
    <3> QED BY <3>1, <3>2
  <2>2. run.pc = "unlink" => run.timer \in Timers /\ run.timer # t
    BY <1>2, <1>3 DEF IInv, RunInv, RunLocals, StatesFit
  <2> QED BY <1>1, <2>1, <2>2 DEF StatesFit
<1> QED BY <1>1, <1>3, <1>4, <1>5 DEF z

\* The steps of the batch leave the calls and the runner alone, and keep the
\* owner of the TM lock at it.
LEMMA BatchFrame ==
  ASSUME KInv, Batch
  PROVE  /\ UNCHANGED <<call, run, now, expire>>
         /\ one.pc # "idle"
         /\ run.pc \in {"idle", "lock", "head", "callback"}
         /\ \A th \in Threads : call[th].pc # "start"
         /\ Serial'
         /\ \A v : Linking(v)' <=> Linking(v)
         /\ TimeInv'
<1>1. /\ UNCHANGED <<call, run, now, expire>> /\ one.pc # "idle"
      /\ one'.pc = "idle" => batch' = <<>>
  <2> USE DEF RunVars, NoOne
  <2>0. one \in OneType  BY DEF KInv, IInv, OneInv
  <2>1. CASE BatchNext
    <3>1. one' = [pc |-> "read", timer |-> Head(batch), old |-> "STOPPED", tries |-> Retries]
      BY <2>1 DEF BatchNext
    <3>2. one'.pc = "read"  BY <3>1
    <3>3. one.pc = "next" /\ UNCHANGED <<call, run, now, expire>>  BY <2>1 DEF BatchNext
    <3> QED BY <3>2, <3>3
  <2>2. CASE BatchEnd  BY <2>2 DEF BatchEnd
  <2>3. CASE ScheduleOneRead
    <3>1. \/ \E x : one' = [one EXCEPT !.pc = "cas", !.old = x]
          \/ one' = NoOne("next")
      BY <2>3 DEF ScheduleOneRead
    <3>2. \A x : [one EXCEPT !.pc = "cas", !.old = x].pc = "cas"  BY <2>0 DEF OneType
    <3>3. one'.pc # "idle"
      <4>1. CASE one' = NoOne("next")  BY <4>1
      <4>2. CASE \E x : one' = [one EXCEPT !.pc = "cas", !.old = x]  BY <3>2, <4>2, Zenon
      <4> QED BY <3>1, <4>1, <4>2
    <3>4. one.pc = "read" /\ UNCHANGED <<call, run, now, expire>>  BY <2>3 DEF ScheduleOneRead
    <3> QED BY <3>3, <3>4
  <2>4. CASE ScheduleOneCas  BY <2>0, <2>4 DEF ScheduleOneCas, OneType
  <2>5. CASE ScheduleOneRetry
    <3>1. \/ \E n : one' = [one EXCEPT !.pc = "read", !.tries = n]
          \/ one' = NoOne("next")
      BY <2>5 DEF ScheduleOneRetry
    <3>2. \A n : [one EXCEPT !.pc = "read", !.tries = n].pc = "read"  BY <2>0 DEF OneType
    <3>3. one'.pc # "idle"
      <4>1. CASE one' = NoOne("next")  BY <4>1
      <4>2. CASE \E n : one' = [one EXCEPT !.pc = "read", !.tries = n]  BY <3>2, <4>2, Zenon
      <4> QED BY <3>1, <4>1, <4>2
    <3> QED BY <2>5, <3>3 DEF ScheduleOneRetry
  <2>6. CASE ScheduleOneLink  BY <2>6 DEF ScheduleOneLink
  <2> QED BY <2>1, <2>2, <2>3, <2>4, <2>5, <2>6 DEF Batch
<1>6. OneHeld'  BY <1>1 DEF KInv, KRest, Serial, OneHeld
<1>2. /\ run.pc \in {"idle", "lock", "head", "callback"}
      /\ \A th \in Threads : call[th].pc # "start"
  BY <1>1, Scheduler DEF KInv, KRest
<1>3. Serial'  BY <1>1, <1>6 DEF KInv, KRest, Serial, Busy
<1>4. \A v : Linking(v)' <=> Linking(v)  BY <1>1 DEF Linking
<1>5. TimeInv'  BY <1>1, <1>2 DEF KInv, KRest, TimeInv
<1> QED BY <1>1, <1>2, <1>3, <1>4, <1>5

\* With the states unchanged too, it is the lists that are left to look at.
LEMMA BatchSame ==
  ASSUME KInv, Batch, UNCHANGED <<state, active, queueExpire>>, one.pc # "link", one'.pc # "link",
         ListInv'
  PROVE  KRest' /\ (Full => Full')
<1>1. /\ UNCHANGED <<call, run, now, expire>> /\ Serial' /\ TimeInv'  BY BatchFrame
<1>2. CallsFit' /\ StatesFit'
  BY <1>1 DEF KInv, KRest, CallsFit, CallFits, OpFits, Sets, StatesFit, StateFits, Busy
<1>3. ActiveInv' /\ \A v \in Timers : Expected(v)' <=> Expected(v)
  BY <1>1, SameActive DEF KInv, KRest
<1>4. Full => Full'  BY <1>3 DEF Full, InActive
<1> QED BY <1>1, <1>2, <1>3, <1>4 DEF KRest

LEMMA NextKeeps ==
  ASSUME KInv, BatchNext
  PROVE  KRest' /\ (Full => Full')
<1> USE DEF KInv, KRest
<1>1. Batch /\ one.pc = "next" /\ batch # <<>> /\ batch' = Tail(batch)
      /\ UNCHANGED <<state, schedule, abandoned, active, queueExpire>>
  BY DEF BatchNext, Batch, ActiveVars
<1>2. PICK h \in Timers :
        /\ h = Head(batch) /\ one'.pc = "read" /\ one'.timer = h
        /\ \A v : InBatch(v) <=> v = h \/ InBatch(v)'
        /\ Injective(batch) => Injective(batch)' /\ ~ InBatch(h)'
  BY <1>1, PopIs DEF IInv, BatchNext
<1>3. /\ \A v : Linking(v)' <=> Linking(v)
      /\ \A v : OnSchedule(v)' <=> OnSchedule(v)
      /\ \A v : Scheduling(v)' <=> v = h
      /\ \A v : ~ Scheduling(v)
  BY <1>1, <1>2, BatchFrame DEF OnSchedule, Scheduling
<1>4. InBatch(h) /\ ~ InBatch(h)'  BY <1>2 DEF ListInv, Apart
<1>5. ListedPending'  BY <1>1, <1>2, <1>3, <1>4 DEF ListInv, ListedPending
<1>6. PendingIsQueued'
  <2>1. \A v \in Timers : Queued(v) => OnSchedule(v) \/ InBatch(v) \/ Linking(v)
    BY <1>3, QueuedIs
  <2>2. \A v \in Timers : OnSchedule(v)' \/ InBatch(v)' \/ Scheduling(v)' \/ Linking(v)' => Queued(v)'
    BY DEF Queued, OnSchedule, InBatch, Linking
  <2> QED BY <1>1, <1>2, <1>3, <2>1, <2>2 DEF ListInv, PendingIsQueued
<1>7. Apart'
  <2>1. Injective(schedule)' /\ Injective(batch)'
    BY <1>1, <1>2 DEF ListInv, Apart, Injective
  <2> QED BY <1>2, <1>3, <1>4, <2>1 DEF ListInv, Apart
<1> QED BY <1>1, <1>2, <1>5, <1>6, <1>7, BatchSame DEF ListInv

LEMMA EndKeeps ==
  ASSUME KInv, BatchEnd
  PROVE  KRest' /\ (Full => Full')
<1> USE DEF KInv, KRest
<1>1. Batch /\ one.pc = "next" /\ one'.pc = "idle"
      /\ UNCHANGED <<state, schedule, batch, abandoned, active, queueExpire>>
  BY DEF BatchEnd, Batch, ActiveVars, NoOne
<1>2. \A v : Linking(v)' <=> Linking(v)  BY <1>1, BatchFrame
<1>3. ListInv'
  <2>1. \A v : Scheduling(v)' <=> Scheduling(v)  BY <1>1 DEF Scheduling
  <2>2. \A v \in Timers : Queued(v)' <=> Queued(v)
    BY <1>1, <1>2, <2>1 DEF Queued, Linking
  <2> QED BY <1>1, <1>2, <2>1, <2>2
          DEF ListInv, ListedPending, PendingIsQueued, Apart, OnSchedule, InBatch, Injective
<1> QED BY <1>1, <1>3, BatchSame

LEMMA ReadKeeps ==
  ASSUME KInv, ScheduleOneRead
  PROVE  KRest' /\ (Full => Full')
<1> USE DEF KInv, KRest
<1>1. Batch /\ one.pc = "read" /\ UNCHANGED <<state, batch, abandoned, active, queueExpire>>
  BY DEF ScheduleOneRead, Batch, ActiveVars
<1>2. PICK t \in Timers : t = one.timer  BY <1>1 DEF IInv, OneInv, OneLocals
<1>3. /\ \A v : Linking(v)' <=> Linking(v)
      /\ \A v : InBatch(v)' <=> InBatch(v)
      /\ \A v : Scheduling(v) <=> v = t
  BY <1>1, <1>2, BatchFrame DEF InBatch, Scheduling
<1>4. \A v \in Timers : Queued(v) <=> OnSchedule(v) \/ InBatch(v) \/ v = t \/ Linking(v)
  BY <1>3, QueuedIs
<1>5. \A v \in Timers : Queued(v)' <=> OnSchedule(v)' \/ InBatch(v)' \/ Scheduling(v)' \/ Linking(v)'
  BY DEF Queued, OnSchedule, InBatch, Linking
<1>6. CASE state[t] \in Pending \ SetExpire
  <2>1. one'.pc = "cas" /\ one'.timer = t /\ UNCHANGED schedule
    BY <1>1, <1>2, <1>6 DEF ScheduleOneRead, IInv, OneInv, OneType
  <2>2. /\ \A v : Scheduling(v)' <=> v = t
        /\ \A v : OnSchedule(v)' <=> OnSchedule(v)
    BY <2>1 DEF Scheduling, OnSchedule
  <2>3. ListInv'
    BY <1>1, <1>3, <1>4, <1>5, <2>1, <2>2
       DEF ListInv, ListedPending, PendingIsQueued, Apart, Injective
  <2> QED BY <1>1, <2>1, <2>3, BatchSame
<1>7. CASE state[t] \in SetExpire
  <2>1. one'.pc = "next" /\ LinkSchedule(t)
    BY <1>1, <1>2, <1>7 DEF ScheduleOneRead, NoOne
  <2>2. /\ \A v : ~ Scheduling(v)'
        /\ \A v : OnSchedule(v)' <=> v = t \/ OnSchedule(v)
        /\ Injective(schedule) /\ ~ OnSchedule(t) => Injective(schedule)'
    BY <2>1, PushIs DEF Scheduling, IInv
  <2>3. ~ OnSchedule(t) /\ ~ InBatch(t) /\ ~ Linking(t) /\ Injective(batch)'
    BY <1>1, <1>3 DEF ListInv, Apart, Injective
  <2>4. state[t] \in Pending  BY <1>7 DEF Pending, PendingScheduling
  <2>5. ListInv'
    BY <1>1, <1>3, <1>4, <1>5, <2>2, <2>3, <2>4
       DEF ListInv, ListedPending, PendingIsQueued, Apart
  <2> QED BY <1>1, <2>1, <2>5, BatchSame
<1>8. CASE state[t] \notin Pending
  <2>1. one'.pc = "next" /\ UNCHANGED schedule
    BY <1>1, <1>2, <1>8 DEF ScheduleOneRead, NoOne, Pending, PendingScheduling
  <2>2. /\ \A v : ~ Scheduling(v)'
        /\ \A v : OnSchedule(v)' <=> OnSchedule(v)
    BY <2>1 DEF Scheduling, OnSchedule
  <2>3. ListInv'
    BY <1>1, <1>3, <1>4, <1>5, <1>8, <2>1, <2>2
       DEF ListInv, ListedPending, PendingIsQueued, Apart, Injective
  <2> QED BY <1>1, <2>1, <2>3, BatchSame
<1> QED BY <1>6, <1>7, <1>8

LEMMA RetryKeeps ==
  ASSUME KInv, ScheduleOneRetry
  PROVE  KRest' /\ (Full => Full')
<1> USE DEF KInv, KRest
<1>1. Batch /\ one.pc = "cas" /\ UNCHANGED <<state, schedule, batch, active, queueExpire>>
  BY DEF ScheduleOneRetry, Batch, ActiveVars
<1>2. PICK t \in Timers : t = one.timer  BY <1>1 DEF IInv, OneInv, OneLocals
<1>3. \/ one'.pc = "read" /\ one'.timer = t /\ abandoned' = abandoned
      \/ one'.pc = "next" /\ abandoned' = abandoned \cup {t}
  <2>1. one \in OneType  BY DEF IInv, OneInv
  <2>2. \/ (\E n : one' = [one EXCEPT !.pc = "read", !.tries = n]) /\ abandoned' = abandoned
        \/ one' = NoOne("next") /\ abandoned' = abandoned \cup {t}
    BY <1>2 DEF ScheduleOneRetry
  <2>3. \A n : /\ [one EXCEPT !.pc = "read", !.tries = n].pc = "read"
               /\ [one EXCEPT !.pc = "read", !.tries = n].timer = one.timer
    BY <2>1 DEF OneType
  <2>4. NoOne("next").pc = "next"  BY DEF NoOne
  <2> QED BY <1>2, <2>2, <2>3, <2>4, Zenon
<1>4. /\ \A v : Linking(v)' <=> Linking(v)
      /\ \A v : InBatch(v)' <=> InBatch(v)
      /\ \A v : OnSchedule(v)' <=> OnSchedule(v)
      /\ \A v : Scheduling(v) <=> v = t
      /\ \A v : Scheduling(v)' <=> v = t /\ one'.pc = "read"
  BY <1>1, <1>2, <1>3, BatchFrame DEF InBatch, OnSchedule, Scheduling
<1>5. \A v \in Timers : Queued(v) <=> OnSchedule(v) \/ InBatch(v) \/ v = t \/ Linking(v)
  BY <1>4, QueuedIs
<1>6. \A v \in Timers : Queued(v)' <=> OnSchedule(v)' \/ InBatch(v)' \/ Scheduling(v)' \/ Linking(v)'
  BY DEF Queued, OnSchedule, InBatch, Linking
<1>7. ListInv'
  <2>1. ListedPending' /\ Apart'
    BY <1>1, <1>4 DEF ListInv, ListedPending, Apart, Injective
  <2>2. PendingIsQueued'
    BY <1>1, <1>3, <1>4, <1>5, <1>6 DEF ListInv, PendingIsQueued
  <2> QED BY <2>1, <2>2 DEF ListInv
<1> QED BY <1>1, <1>3, <1>7, BatchSame

LEMMA OneLinkKeeps ==
  ASSUME KInv, ScheduleOneLink
  PROVE  KRest' /\ (Full => Full')
<1> USE DEF KInv, KRest
<1>1. /\ Batch /\ one.pc = "link" /\ LinkActive(one.timer, expire[one.timer]) /\ one'.pc = "next"
      /\ UNCHANGED <<state, schedule, batch, abandoned>>
  BY DEF ScheduleOneLink, Batch, NoOne
<1>2. PICK t \in Timers : t = one.timer  BY <1>1 DEF IInv, OneInv, OneLocals
<1>3. /\ UNCHANGED <<call, run, now, expire>> /\ Serial' /\ TimeInv'
      /\ run.pc \in {"idle", "lock", "head", "callback"}
      /\ \A th \in Threads : call[th].pc # "start"
      /\ \A v : Linking(v)' <=> Linking(v)
  BY <1>1, BatchFrame
<1>4. CallsFit' /\ StatesFit'
  BY <1>1, <1>3 DEF CallsFit, CallFits, OpFits, Sets, StatesFit, StateFits, Busy
<1>5. ListInv'
  <2>1. \A v : Scheduling(v)' <=> Scheduling(v)  BY <1>1 DEF Scheduling
  <2>2. \A v \in Timers : Queued(v)' <=> Queued(v)
    BY <1>1, <1>3, <2>1 DEF Queued, Linking
  <2> QED BY <1>1, <1>3, <2>1, <2>2
          DEF ListInv, ListedPending, PendingIsQueued, Apart, OnSchedule, InBatch, Injective
<1>6. ActiveInv' /\ (Full => Full')
  <2>1. ~ Expected(t)  BY <1>1, <1>2, <1>3 DEF Expected
  <2>2. state[t] \in Linked  BY <1>1, <1>2 DEF ActiveInv
  <2>3. Expected(t)'  BY <1>1, <1>3, <2>2 DEF Expected
  <2>4. \A v \in Timers : v # t => (Expected(v)' <=> Expected(v))
    BY <1>1, <1>2, <1>3 DEF Expected
  <2>5. expire[t] \in Nat /\ expire' = [expire EXCEPT ![t] = expire[t]]
    BY <1>3 DEF IInv, TimerInv
  <2>6. one'.pc # "link" /\ run'.pc \notin {"crit", "try", "unlink"}  BY <1>1, <1>3
  <2> QED BY <1>1, <1>2, <2>1, <2>3, <2>4, <2>5, <2>6, LinkKeeps
<1> QED BY <1>3, <1>4, <1>5, <1>6

LEMMA CasKeeps ==
  ASSUME KInv, ScheduleOneCas
  PROVE  KRest' /\ (Full => Full')
<1> USE DEF KInv, KRest
<1>1. /\ Batch /\ one.pc = "cas" /\ UNCHANGED <<schedule, batch, abandoned>>
  BY DEF ScheduleOneCas, Batch
<1>2. PICK t \in Timers :
        /\ t = one.timer /\ state[t] = one.old /\ one.old \in Pending \ SetExpire
        /\ state' = [state EXCEPT ![t] = Scheduled(state[t])]
  BY <1>1 DEF ScheduleOneCas, IInv, OneInv, OneLocals
<1> DEFINE s == state[t]
<1>3. /\ UNCHANGED <<call, run, now, expire>> /\ Serial' /\ TimeInv'
      /\ run.pc \in {"idle", "lock", "head", "callback"}
      /\ \A th \in Threads : call[th].pc # "start"
      /\ \A v : Linking(v)' <=> Linking(v)
  BY <1>1, BatchFrame
<1>4. /\ \A v : InBatch(v)' <=> InBatch(v)
      /\ \A v : OnSchedule(v)' <=> OnSchedule(v)
      /\ \A v : Scheduling(v) <=> v = t
  BY <1>1, <1>2 DEF InBatch, OnSchedule, Scheduling
<1>5. ~ OnSchedule(t) /\ ~ InBatch(t) /\ ~ Linking(t)  BY <1>4 DEF ListInv, Apart
<1>6. /\ CallsFit' /\ StatesFit'
      /\ state'[t] = Scheduled(s) /\ \A v \in Timers : v # t => state'[v] = state[v]
  BY <1>2, <1>3, <1>5, ScheduledFits
<1>7. \A v \in Timers : Queued(v) <=> OnSchedule(v) \/ InBatch(v) \/ v = t \/ Linking(v)
  BY <1>4, QueuedIs
<1>8. \A v \in Timers : Queued(v)' <=> OnSchedule(v)' \/ InBatch(v)' \/ Scheduling(v)' \/ Linking(v)'
  BY DEF Queued, OnSchedule, InBatch, Linking
<1>9. Injective(schedule)' /\ Injective(batch)'  BY <1>1 DEF ListInv, Apart, Injective
<1>10. CASE s \in {"PENDING_RESCHEDULE", "PENDING_STOP"}
  <2>1. /\ Unlink(t, NextOf(t)) /\ one'.pc = "cas" /\ one'.timer = t
        /\ state'[t] \in {"PENDING_SCHEDULE", "PENDING_STOP_SCHEDULE"}
    BY <1>1, <1>2, <1>6, <1>10
       DEF ScheduleOneCas, UnlinkActive, Scheduled, IInv, OneInv, OneType
  <2>2. \A v : Scheduling(v)' <=> v = t  BY <2>1 DEF Scheduling
  <2>3. ListInv'
    <3>1. state'[t] \in Pending  BY <2>1 DEF Pending, PendingScheduling, PendingStop
    <3>2. ListedPending'  BY <1>4, <1>6, <2>2, <3>1 DEF ListInv, ListedPending
    <3>3. PendingIsQueued'
      BY <1>1, <1>3, <1>4, <1>6, <1>7, <1>8, <2>2 DEF ListInv, PendingIsQueued
    <3>4. Apart'  BY <1>3, <1>4, <1>9, <2>2 DEF ListInv, Apart
    <3> QED BY <3>2, <3>3, <3>4 DEF ListInv
  <2>4. ActiveInv' /\ (Full => Full')
    <3>1. ~ Expected(t)'  BY <1>3, <2>1 DEF Expected, Linked
    <3>2. Expected(t)  BY <1>1, <1>3, <1>10 DEF Expected, Linked
    <3>3. \A v \in Timers : v # t => (Expected(v)' <=> Expected(v))
      BY <1>1, <1>3, <1>6, <2>1 DEF Expected
    <3>4. one'.pc # "link" /\ run'.pc \notin {"crit", "try", "unlink"}  BY <1>3, <2>1
    <3>5. ActiveInv' /\ (Full /\ InActive(t) /\ ~ Expected(t)' => Full')
      BY <1>3, <1>6, <2>1, <3>3, <3>4, UnlinkKeeps
    <3> QED BY <3>1, <3>2, <3>5 DEF Full
  <2> QED BY <1>3, <1>6, <2>3, <2>4
<1>11. CASE s \in {"PENDING_SCHEDULE", "PENDING_STOP_SCHEDULE"}
  <2>1. /\ UNCHANGED <<active, queueExpire>>
        /\ \/ one'.pc = "link" /\ one'.timer = t /\ state'[t] = "ACTIVE"
           \/ one'.pc = "next" /\ state'[t] = "STOPPED"
    BY <1>1, <1>2, <1>6, <1>11
       DEF ScheduleOneCas, ActiveVars, Scheduled, NoOne, IInv, OneInv, OneType
  <2>2. \A v : ~ Scheduling(v)'  BY <2>1 DEF Scheduling
  <2>3. ListInv'
    <3>1. state'[t] \notin Pending  BY <2>1 DEF Pending, PendingScheduling, PendingStop, SetExpire
    <3>2. ListedPending'  BY <1>4, <1>5, <1>6, <2>2 DEF ListInv, ListedPending
    <3>3. PendingIsQueued'
      BY <1>1, <1>3, <1>4, <1>6, <1>7, <1>8, <2>2, <3>1 DEF ListInv, PendingIsQueued
    <3>4. Apart'  BY <1>3, <1>4, <1>9, <2>2 DEF ListInv, Apart
    <3> QED BY <3>2, <3>3, <3>4 DEF ListInv
  <2>4. ~ Expected(t) /\ ~ Expected(t)'
    BY <1>3, <1>11, <2>1 DEF Expected, Linked
  <2>5. \A v \in Timers : v # t => (Expected(v)' <=> Expected(v))
    BY <1>1, <1>3, <1>6, <2>1 DEF Expected
  <2>6. ~ InActive(t)  BY <2>4 DEF ActiveInv
  <2>7. CacheOK'
    <3>1. active # <<>> => Head(active) \in Timers /\ Head(active) # t  BY <2>6, HeadActive
    <3> QED BY <1>3, <1>6, <2>1, <3>1 DEF ActiveInv, CacheOK
  <2>8. ActiveInv'
    <3>1. one'.pc = "link" => state'[one'.timer] \in Linked  BY <2>1 DEF Linked
    <3>2. \A v \in Timers : InActive(v)' => Expected(v)'
      BY <2>1, <2>5, <2>6 DEF ActiveInv, InActive
    <3> QED BY <1>3, <2>1, <2>7, <3>1, <3>2 DEF ActiveInv, Injective
  <2>9. Full => Full'  BY <2>1, <2>4, <2>5 DEF Full, InActive
  <2> QED BY <1>3, <1>6, <2>3, <2>8, <2>9
<1> QED BY <1>2, <1>10, <1>11 DEF Pending, PendingScheduling, PendingStop, SetExpire

LEMMA BatchKeepsRest ==
  ASSUME KInv, Batch
  PROVE  KRest' /\ (Full => Full')
BY NextKeeps, EndKeeps, ReadKeeps, CasKeeps, RetryKeeps, OneLinkKeeps DEF Batch

-----------------------------------------------------------------------------
(* Running the queue. *)

(* What it takes to keep the calls and the runner apart while no call moves. *)
LEMMA SerialSame ==
  ASSUME Serial, call' = call, OneHeld', run'.pc \in {"idle", "callback"} \/ ~ Busy(TimerEmt)
  PROVE  Serial'
<1>1. \A th, u \in Threads : call'[th].pc # "idle" /\ call'[u].pc # "idle" /\ th # u
                               => call'[th].timer # call'[u].timer
  BY DEF Serial, Busy
<1>2. run'.pc \notin {"idle", "callback"} => call'[TimerEmt].pc = "idle"  BY DEF Busy
<1> QED BY <1>1, <1>2 DEF Serial, Busy

(* A step of the runner that moves nothing but itself, or of the clock. *)
LEMMA RunKeeps ==
  ASSUME KInv,
         UNCHANGED <<state, expire, schedule, batch, one, abandoned, active, queueExpire, call>>,
         now' <= MaxTime /\ run'.now <= now',
         \/ run' = run
         \/ /\ {run.pc, run'.pc} \cap {"unlink", "callback"} = {}
            /\ run.pc = "head" => one.pc = "idle"
            /\ run'.pc # "idle" => ~ Busy(TimerEmt)
            /\ run'.pc \in {"crit", "try"} =>
                 /\ run'.next = NextOf(run'.timer)
                 /\ state[run'.timer] = "ACTIVE" => expire[run'.timer] <= run'.now
  PROVE  KRest' /\ (Full => Full')
<1> USE DEF KInv, KRest
<1>1. run'.pc \in {"unlink", "callback"} \/ run.pc \in {"unlink", "callback"} => run' = run
  OBVIOUS
<1>2. Serial'
  <2>1. OneHeld'  BY DEF Serial, OneHeld
  <2>2. run'.pc \in {"idle", "callback"} \/ ~ Busy(TimerEmt)  BY DEF Serial
  <2> QED BY <2>1, <2>2, SerialSame
<1>3. CallsFit'  BY DEF CallsFit, CallFits, OpFits, Sets, Busy
<1>4. StatesFit'  BY <1>1 DEF StatesFit, StateFits, Sets
<1>5. ListInv'
  BY DEF ListInv, ListedPending, PendingIsQueued, Apart, OnSchedule, InBatch, Scheduling, Linking,
         Queued, Injective
<1>6. \A v \in Timers : Expected(v)' <=> Expected(v)  BY <1>1 DEF Expected
<1>7. ActiveInv'
  <2>1. \A v \in Timers : InActive(v)' => Expected(v)'  BY <1>6 DEF ActiveInv, InActive
  <2>2. \A v : NextOf(v)' = NextOf(v)  BY DEF NextOf
  <2>3. run'.pc \in {"crit", "try", "unlink"} => run'.next = NextOf(run'.timer)
    BY <1>1 DEF ActiveInv
  <2>4. (run.pc \in {"crit", "try", "unlink"} => run.next = NextOf(run.timer))'
    BY <2>3 DEF NextOf
  <2>5. Injective(active)' /\ CacheOK' /\ (one.pc = "link" => state[one.timer] \in Linked)'
    BY DEF ActiveInv, CacheOK, Injective
  <2> QED BY <2>1, <2>4, <2>5 DEF ActiveInv
<1>8. TimeInv'  BY DEF TimeInv
<1>9. Full => Full'  BY <1>6 DEF Full, InActive
<1> QED BY <1>2, <1>3, <1>4, <1>5, <1>7, <1>8, <1>9

(* A step of the runner that moves the state of its timer. *)
LEMMA RunMoves ==
  ASSUME KInv, NEW t \in Timers, NEW z, state' = [state EXCEPT ![t] = z],
         \/ state[t] = "ACTIVE" /\ z = "EXPIRED_GET_UNLINK"
         \/ state[t] = "EXPIRED_GET_UNLINK" /\ z = "EXPIRED_DELIVER"
         \/ state[t] = "EXPIRED_DELIVER" /\ z = "STOPPED",
         UNCHANGED <<schedule, batch, one, abandoned, call>>,
         \A th \in Threads : call[th].pc # "start"
  PROVE  /\ state'[t] = z /\ \A v \in Timers : v # t => state'[v] = state[v]
         /\ CallsFit' /\ ListInv'
<1> USE DEF KInv, KRest
<1>1. state'[t] = z /\ \A v \in Timers : v # t => state'[v] = state[v]
  BY DEF IInv, TimerInv
<1>2. state[t] \notin Pending \cup {"DESTROY"} /\ z \notin Pending \cup {"DESTROY"}
  BY DEF Pending, PendingScheduling, PendingStop, SetExpire
<1>3. CallsFit'
  <2>1. ASSUME NEW u \in Threads, Busy(u) PROVE CallFits(call[u], state'[call[u].timer])
    <3>1. CallFits(call[u], state[call[u].timer]) /\ call[u].timer \in Timers
      BY <2>1, CallFacts DEF CallsFit, Busy
    <3>2. CASE call[u].timer = t
      <4>1. CallFits(call[u], state[t]) /\ call[u].pc # "start"  BY <3>1, <3>2
      <4>2. CallFits(call[u], z)
        BY <4>1 DEF CallFits, Sets, Claim, Pending, PendingScheduling, PendingStop, SetExpire
      <4> QED BY <1>1, <3>2, <4>2
    <3>3. CASE call[u].timer # t  BY <1>1, <3>1, <3>3
    <3> QED BY <3>2, <3>3
  <2> QED BY <2>1 DEF CallsFit, CallFits, OpFits, Sets, Busy
<1>4. ListInv'
  <2>1. /\ \A v : OnSchedule(v)' <=> OnSchedule(v)
        /\ \A v : InBatch(v)' <=> InBatch(v)
        /\ \A v : Scheduling(v)' <=> Scheduling(v)
        /\ \A v : Linking(v)' <=> Linking(v)
        /\ \A v : Queued(v)' <=> Queued(v)
    BY DEF OnSchedule, InBatch, Scheduling, Linking, Queued
  <2>2. ListedPending'  BY <1>1, <1>2, <2>1 DEF ListInv, ListedPending
  <2>3. PendingIsQueued'  BY <1>1, <1>2, <2>1 DEF ListInv, PendingIsQueued
  <2>4. Apart'  BY <2>1 DEF ListInv, Apart, Injective
  <2> QED BY <2>2, <2>3, <2>4 DEF ListInv
<1> QED BY <1>1, <1>3, <1>4

(* The drain of the schedule list. *)
LEMMA RunScheduleKeeps ==
  ASSUME KInv, QueuesSchedule
  PROVE  KRest' /\ (Full => Full')
<1> USE DEF KInv, KRest
<1>1. /\ run.pc = "schedule" /\ run' = [run EXCEPT !.pc = "head"]
      /\ TakeBatch \/ UNCHANGED <<schedule, batch, one, abandoned>>
      /\ UNCHANGED <<state, expire, call, now, active, queueExpire>>
  BY DEF QueuesSchedule, ListVars, ActiveVars
<1>2. one.pc = "idle" /\ batch = <<>> /\ ~ Busy(TimerEmt)
  BY <1>1, RunnerAlone DEF Serial
<1>3. run'.pc = "head" /\ run'.now = run.now  BY <1>1 DEF IInv, RunInv, RunType
<1>4. \/ one'.pc = one.pc /\ batch' = batch
      \/ one'.pc = "next"
  BY <1>1 DEF TakeBatch, NoOne
<1>5. Serial'
  <2>1. OneHeld'  BY <1>2, <1>3, <1>4 DEF OneHeld
  <2> QED BY <1>1, <1>2, <2>1, SerialSame
<1>6. CallsFit' /\ StatesFit'
  BY <1>1, <1>3 DEF CallsFit, CallFits, OpFits, Sets, StatesFit, StateFits, Busy
<1>7. \A v : Linking(v)' <=> Linking(v)  BY <1>1 DEF Linking
<1>8. ListInv'
  <2>1. CASE TakeBatch  BY <1>1, <1>2, <1>7, <2>1, TakeKeeps
  <2>2. CASE UNCHANGED <<schedule, batch, one, abandoned>>
    BY <1>1, <2>2 DEF ListInv, ListedPending, PendingIsQueued, Apart, OnSchedule, InBatch, Scheduling,
                      Linking, Queued, Injective
  <2> QED BY <1>1, <2>1, <2>2
<1>9. \A v \in Timers : Expected(v)' <=> Expected(v)  BY <1>1, <1>2, <1>3, <1>4 DEF Expected
<1>10. ActiveInv'
  BY <1>1, <1>2, <1>3, <1>4, <1>9 DEF ActiveInv, InActive, CacheOK, Injective
<1>11. TimeInv'  BY <1>1, <1>3 DEF TimeInv
<1>12. Full => Full'  BY <1>1, <1>9 DEF Full, InActive
<1> QED BY <1>5, <1>6, <1>8, <1>10, <1>11, <1>12

(* A due timer is claimed for its callback. *)
LEMMA RunTryKeeps ==
  ASSUME KInv, QueueRunTry, state[run.timer] = "ACTIVE"
  PROVE  KRest' /\ (Full => Full')
<1> USE DEF KInv, KRest
<1>1. PICK t \in Timers :
        /\ t = run.timer /\ state[t] = "ACTIVE"
        /\ state' = [state EXCEPT ![t] = "EXPIRED_GET_UNLINK"]
  BY DEF QueueRunTry, IInv, RunInv, RunLocals
<1>2. /\ run.pc = "try" /\ run' = [run EXCEPT !.pc = "unlink"]
      /\ UNCHANGED <<schedule, batch, one, abandoned, expire, call, now, active, queueExpire>>
  BY DEF QueueRunTry, ListVars, ActiveVars
<1>3. run'.pc = "unlink" /\ run'.timer = t /\ run'.next = run.next /\ run'.now = run.now
  BY <1>1, <1>2 DEF IInv, RunInv, RunType
<1>4. one.pc = "idle" /\ ~ Busy(TimerEmt) /\ \A th \in Threads : call[th].pc # "start"
  BY <1>2, RunnerAlone DEF Serial, OwningPcs
<1>5. /\ state'[t] = "EXPIRED_GET_UNLINK" /\ \A v \in Timers : v # t => state'[v] = state[v]
      /\ CallsFit' /\ ListInv'
  BY <1>1, <1>2, <1>4, RunMoves
<1>6. Serial'
  <2>1. OneHeld'  BY <1>2, <1>4 DEF Serial, OneHeld
  <2> QED BY <1>2, <1>4, <2>1, SerialSame
<1>7. StatesFit'
  <2>1. ASSUME NEW v \in Timers PROVE StateFits(v)'
    BY <1>1, <1>2, <1>3, <1>5 DEF StatesFit, StateFits, Sets, SetExpire
  <2> QED BY <1>3, <1>5, <2>1 DEF StatesFit
<1>8. \A v \in Timers : Expected(v)' <=> Expected(v)
  <2>1. Expected(t)' /\ Expected(t)  BY <1>1, <1>3, <1>4 DEF Expected, Linked
  <2>2. \A v \in Timers : v # t => (Expected(v)' <=> Expected(v))
    BY <1>2, <1>3, <1>5 DEF Expected
  <2> QED BY <2>1, <2>2
<1>9. ActiveInv'
  <2>1. CacheOK'
    <3>1. active # <<>> => Head(active) \in Timers  BY HeadActive
    <3> QED BY <1>1, <1>2, <1>5, <3>1 DEF ActiveInv, CacheOK
  <2>2. run.next = NextOf(t)  BY <1>1, <1>2 DEF ActiveInv
  <2>3. NextOf(t)' = NextOf(t)  BY <1>2 DEF NextOf
  <2> QED BY <1>2, <1>3, <1>4, <1>8, <2>1, <2>2, <2>3 DEF ActiveInv, InActive, Injective
<1>10. TimeInv'  BY <1>2, <1>3 DEF TimeInv
<1>11. Full => Full'  BY <1>2, <1>8 DEF Full, InActive
<1> QED BY <1>5, <1>6, <1>7, <1>9, <1>10, <1>11

(* It is unlinked with the next timer read before its critical section was
   entered, which still is the next one. *)
LEMMA RunUnlinkKeeps ==
  ASSUME KInv, QueueRunUnlink
  PROVE  KRest' /\ (Full => Full')
<1> USE DEF KInv, KRest
<1>1. PICK t \in Timers :
        /\ t = run.timer /\ state[t] = "EXPIRED_GET_UNLINK"
        /\ state' = [state EXCEPT ![t] = "EXPIRED_DELIVER"]
        /\ Unlink(t, NextOf(t))
  BY DEF QueueRunUnlink, Deliver, IInv, RunInv, RunLocals, StatesFit, ActiveInv
<1>2. /\ run.pc = "unlink" /\ run' = [run EXCEPT !.pc = "callback"]
      /\ UNCHANGED <<schedule, batch, one, abandoned, expire, call, now>>
  BY DEF QueueRunUnlink, ListVars
<1>3. run'.pc = "callback" /\ run'.timer = t /\ run'.now = run.now
  BY <1>1, <1>2 DEF IInv, RunInv, RunType
<1>4. one.pc = "idle" /\ \A th \in Threads : call[th].pc # "start"
  BY <1>2, RunnerAlone DEF OwningPcs
<1>5. /\ state'[t] = "EXPIRED_DELIVER" /\ \A v \in Timers : v # t => state'[v] = state[v]
      /\ CallsFit' /\ ListInv'
  BY <1>1, <1>2, <1>4, RunMoves
<1>6. Serial'
  <2>1. OneHeld'  BY <1>2, <1>4 DEF Serial, OneHeld
  <2> QED BY <1>2, <1>3, <2>1, SerialSame
<1>7. StatesFit'
  <2>1. ASSUME NEW v \in Timers PROVE StateFits(v)'
    BY <1>1, <1>2, <1>3, <1>5 DEF StatesFit, StateFits, Sets, SetExpire
  <2> QED BY <1>3, <2>1 DEF StatesFit
<1>8. Expected(t) /\ ~ Expected(t)'
  BY <1>1, <1>2, <1>3, <1>5 DEF Expected, Linked
<1>9. \A v \in Timers : v # t => (Expected(v)' <=> Expected(v))
  BY <1>1, <1>2, <1>3, <1>5 DEF Expected
<1>10. ActiveInv' /\ (Full /\ InActive(t) /\ ~ Expected(t)' => Full')
  BY <1>1, <1>2, <1>3, <1>4, <1>5, <1>9, UnlinkKeeps
<1>11. Full => Full'  BY <1>8, <1>10 DEF Full
<1>12. TimeInv'  BY <1>2, <1>3 DEF TimeInv
<1> QED BY <1>5, <1>6, <1>7, <1>10, <1>11, <1>12

(* The callback returns. *)
LEMMA RunReturnKeeps ==
  ASSUME KInv, QueueRunCallbackDone
  PROVE  KRest' /\ (Full => Full')
<1> USE DEF KInv, KRest
<1>1. PICK t \in Timers :
        t = run.timer /\ state' = [state EXCEPT ![t] = AfterCallback(state[t])]
  BY DEF QueueRunCallbackDone, IInv, RunInv, RunLocals
<1>2. /\ run.pc = "callback" /\ run' = [run EXCEPT !.pc = "check", !.timer = NoTimer]
      /\ ~ Busy(TimerEmt)
      /\ UNCHANGED <<schedule, batch, one, abandoned, expire, call, now, active, queueExpire>>
  BY DEF QueueRunCallbackDone, ListVars, ActiveVars, RunIdle, Busy
<1>3. run'.pc = "check" /\ run'.now = run.now  BY <1>2 DEF IInv, RunInv, RunType
<1>4. tmOwner = TimerEmt  BY <1>2, OwnerIs
<1>5. \A th \in Threads : call[th].pc # "start"
  BY <1>2, <1>4, OwnerIs DEF OwningPcs, Busy
<1>6. /\ state'[t] = AfterCallback(state[t]) /\ \A v \in Timers : v # t => state'[v] = state[v]
      /\ CallsFit' /\ ListInv'
  <2>1. CASE state[t] = "EXPIRED_DELIVER"
    BY <1>1, <1>2, <1>5, <2>1, RunMoves DEF AfterCallback
  <2>2. CASE state[t] # "EXPIRED_DELIVER"
    <3>1. state' = state  BY <1>1, <2>2 DEF AfterCallback, IInv, TimerInv
    <3>2. CallsFit'  BY <1>2, <3>1 DEF CallsFit, CallFits, OpFits, Sets, Busy
    <3>3. ListInv'
      BY <1>2, <3>1 DEF ListInv, ListedPending, PendingIsQueued, Apart, OnSchedule, InBatch,
                        Scheduling, Linking, Queued, Injective
    <3> QED BY <2>2, <3>1, <3>2, <3>3 DEF AfterCallback
  <2> QED BY <2>1, <2>2
<1>7. Serial'
  <2>1. OneHeld'  BY <1>2, <1>3 DEF Serial, OneHeld
  <2> QED BY <1>2, <2>1, SerialSame
<1>8. \/ state'[t] = state[t]
      \/ state'[t] = "STOPPED" /\ state[t] = "EXPIRED_DELIVER"
  BY <1>6 DEF AfterCallback
<1>9. state'[t] # "EXPIRED_DELIVER"  BY <1>6 DEF AfterCallback
<1>10. StatesFit'
  <2>1. ASSUME NEW v \in Timers PROVE StateFits(v)'
    BY <1>1, <1>2, <1>6, <1>8, <1>9 DEF StatesFit, StateFits, Sets, SetExpire
  <2> QED BY <1>3, <2>1 DEF StatesFit
<1>11. \A v \in Timers : Expected(v)' <=> Expected(v)
  <2>1. state[t] \in Linked <=> state'[t] \in Linked  BY <1>8 DEF Linked
  <2> QED BY <1>2, <1>3, <1>6, <2>1 DEF Expected
<1>12. ActiveInv'
  <2>1. CacheOK'
    <3>1. active # <<>> => Head(active) \in Timers  BY HeadActive
    <3> QED BY <1>2, <1>6, <1>8, <3>1 DEF ActiveInv, CacheOK
  <2>2. one.pc = "link" => one.timer \in Timers  BY DEF IInv, OneInv, OneLocals
  <2>3. one.pc = "link" => state'[one.timer] \in Linked
    BY <1>6, <1>8, <2>2 DEF ActiveInv, Linked
  <2> QED BY <1>2, <1>3, <1>11, <2>1, <2>3 DEF ActiveInv, InActive, Injective
<1>13. TimeInv'  BY <1>2, <1>3 DEF TimeInv
<1>14. Full => Full'  BY <1>2, <1>11 DEF Full, InActive
<1> QED BY <1>6, <1>7, <1>10, <1>12, <1>13, <1>14

LEMMA RunnerKeeps ==
  ASSUME KInv, Runner
  PROVE  KRest' /\ (Full => Full')
<1> DEFINE Same == UNCHANGED <<state, expire, schedule, batch, one, abandoned, active, queueExpire, call>>
<1> USE DEF KInv, KRest
<1>0. /\ run \in RunType /\ now \in Nat /\ now <= MaxTime /\ run.now <= now
      /\ ~ Busy(TimerEmt) \/ run.pc \in {"idle", "callback"}
  BY DEF IInv, RunInv, MiscInv, TimeInv, Serial
<1>1. CASE QueuesDo
  <2>1. Same /\ now' = now /\ run.pc = "idle" /\ ~ Busy(TimerEmt) /\ run' = [run EXCEPT !.pc = "lock"]
    BY <1>1 DEF QueuesDo, RunIdle, Busy, ActiveVars, ListVars
  <2>2. run'.pc = "lock" /\ run'.now = run.now  BY <1>0, <2>1 DEF RunType
  <2> QED BY <1>0, <2>1, <2>2, RunKeeps
<1>2. CASE QueuesLock
  <2>1. Same /\ now' = now /\ run.pc = "lock" /\ run' = [run EXCEPT !.pc = "schedule"]
    BY <1>2 DEF QueuesLock, ActiveVars, ListVars
  <2>2. run'.pc = "schedule" /\ run'.now = run.now  BY <1>0, <2>1 DEF RunType
  <2> QED BY <1>0, <2>1, <2>2, RunKeeps
<1>3. CASE QueuesSchedule  BY <1>3, RunScheduleKeeps
<1>4. CASE QueueRunHead
  <2>1. /\ Same /\ now' = now /\ run.pc = "head" /\ one.pc = "idle"
        /\ \E x : run' = [run EXCEPT !.pc = "check", !.now = now, !.next = x]
    BY <1>4 DEF QueueRunHead, ActiveVars, ListVars
  <2>2. run'.pc = "check" /\ run'.now = now  BY <1>0, <2>1 DEF RunType
  <2> QED BY <1>0, <2>1, <2>2, RunKeeps
<1>5. CASE QueueRunCheck
  <2>1. Same /\ now' = now /\ run.pc = "check"
    BY <1>5 DEF QueueRunCheck, ActiveVars, ListVars
  <2>2. CASE Due(run.next)
    <3>1. run' = [run EXCEPT !.pc = "crit", !.timer = run.next, !.next = NextOf(run.next)]
      BY <1>5, <2>2 DEF QueueRunCheck
    <3>2. /\ run'.pc = "crit" /\ run'.now = run.now /\ run'.timer = run.next
          /\ run'.next = NextOf(run.next)
      BY <1>0, <3>1 DEF RunType
    <3>3. expire[run.next] <= run.now  BY <2>2 DEF Due, ExpireOf
    <3> QED BY <1>0, <2>1, <3>2, <3>3, RunKeeps
  <2>3. CASE ~ Due(run.next)
    <3>1. run'.pc = "done" /\ run'.now = 0  BY <1>5, <2>3 DEF QueueRunCheck, NoRun
    <3> QED BY <1>0, <2>1, <3>1, RunKeeps
  <2> QED BY <2>2, <2>3
<1>6. CASE QueueRunEnter
  <2>1. Same /\ now' = now /\ run.pc = "crit" /\ run' = [run EXCEPT !.pc = "try"]
    BY <1>6 DEF QueueRunEnter, ActiveVars, ListVars
  <2>2. run'.pc = "try" /\ run'.now = run.now /\ run'.timer = run.timer /\ run'.next = run.next
    BY <1>0, <2>1 DEF RunType
  <2>3. /\ run.next = NextOf(run.timer)
        /\ state[run.timer] = "ACTIVE" => expire[run.timer] <= run.now
    BY <2>1 DEF ActiveInv, TimeInv
  <2> QED BY <1>0, <2>1, <2>2, <2>3, RunKeeps
<1>7. CASE QueueRunTry
  <2>1. CASE state[run.timer] = "ACTIVE"  BY <1>7, <2>1, RunTryKeeps
  <2>2. CASE state[run.timer] # "ACTIVE"
    <3>1. /\ Same /\ now' = now /\ run.pc = "try"
          /\ run' = [run EXCEPT !.pc = "check", !.timer = NoTimer]
      BY <1>7, <2>2 DEF QueueRunTry, ActiveVars, ListVars
    <3>2. run'.pc = "check" /\ run'.now = run.now  BY <1>0, <3>1 DEF RunType
    <3> QED BY <1>0, <3>1, <3>2, RunKeeps
  <2> QED BY <2>1, <2>2
<1>8. CASE QueueRunUnlink  BY <1>8, RunUnlinkKeeps
<1>9. CASE QueueRunCallbackDone  BY <1>9, RunReturnKeeps
<1>10. CASE QueuesDone
  <2>1. Same /\ now' = now /\ run.pc = "done" /\ run' = [run EXCEPT !.pc = "idle"]
    BY <1>10 DEF QueuesDone, ActiveVars, ListVars
  <2>2. run'.pc = "idle" /\ run'.now = run.now  BY <1>0, <2>1 DEF RunType
  <2> QED BY <1>0, <2>1, <2>2, RunKeeps
<1> QED BY <1>1, <1>2, <1>3, <1>4, <1>5, <1>6, <1>7, <1>8, <1>9, <1>10 DEF Runner

-----------------------------------------------------------------------------
(* The invariant. *)

LEMMA StepKeeps ==
  ASSUME KInv, NEW th \in Threads, Step(th)
  PROVE  KRest' /\ (Complete => Full')
<1>1. CASE PlainOp(th)
  <2>1. KRest' /\ \A v \in Timers : Expected(v)' <=> Expected(v)  BY <1>1, PlainKeeps
  <2>2. active' = active
    BY <1>1, PlainStep DEF Plain, KInv, KRest
  <2> QED BY <2>1, <2>2 DEF Complete, Full, InActive
<1>2. CASE SetOptimizedStart(th)  BY <1>2, StartKeeps DEF Complete
<1>3. CASE SetLink(th)
  <2>1. KRest' /\ \A v \in Timers : Expected(v)' <=> Expected(v)  BY <1>3, SetLinkKeeps
  <2>2. active' = active  BY <1>3 DEF SetLink, ActiveVars
  <2> QED BY <2>1, <2>2 DEF Complete, Full, InActive
<1>4. CASE Schedule(th) /\ th \in Emts /\ CanLock(th)
  <2>1. KRest' /\ \A v \in Timers : Expected(v)' <=> Expected(v)  BY <1>4, ScheduleKeeps
  <2>2. active' = active  BY <1>4 DEF Schedule, ActiveVars
  <2> QED BY <2>1, <2>2 DEF Complete, Full, InActive
<1>5. CASE DestroyMark(th)  BY <1>5, MarkKeeps
<1> QED BY <1>1, <1>2, <1>3, <1>4, <1>5 DEF Step, PlainOp

LEMMA InitKInv == Init => KInv
<1> SUFFICES ASSUME Init PROVE KInv  OBVIOUS
<1>1. IInv  BY InitIInv
<1>2. /\ \A th \in Threads : call[th] = Idle /\ ~ Busy(th)
      /\ \A t \in Timers : state[t] = "STOPPED"
      /\ one.pc = "idle" /\ run.pc = "idle" /\ run.now = 0 /\ now = 0
      /\ schedule = <<>> /\ batch = <<>> /\ active = <<>> /\ queueExpire = Never
  BY DEF Init, NoOne, NoRun, Idle, Busy
<1>3. Serial /\ CallsFit  BY <1>2 DEF Serial, OneHeld, CallsFit
<1>4. StatesFit  BY <1>2 DEF StatesFit, StateFits, SetExpire
<1>5. ListInv
  <2>1. \A t \in Timers : ~ OnSchedule(t) /\ ~ InBatch(t) /\ ~ Scheduling(t) /\ ~ Linking(t)
    BY <1>2, EmptySeq DEF OnSchedule, InBatch, Scheduling, Linking, Idle
  <2>2. Injective(<<>>)  BY EmptySeq DEF Injective
  <2>3. \A t \in Timers : state[t] \notin Pending
    BY <1>2 DEF Pending, PendingScheduling, PendingStop, SetExpire
  <2> QED BY <1>2, <2>1, <2>2, <2>3 DEF ListInv, ListedPending, PendingIsQueued, Apart
<1>6. ActiveInv
  <2>1. Injective(<<>>) /\ \A t : ~ InActive(t)  BY <1>2, EmptySeq DEF Injective, InActive
  <2> QED BY <1>2, <2>1 DEF ActiveInv, CacheOK
<1>7. TimeInv  BY <1>2, BoundAssumption DEF TimeInv, Idle
<1> QED BY <1>1, <1>3, <1>4, <1>5, <1>6, <1>7 DEF KInv, KRest

LEMMA NextKInv ==
  ASSUME KInv, [Next]_vars
  PROVE  KInv' /\ (Complete => Full')
<1>1. IInv'  BY NextIInv DEF KInv
<1> SUFFICES KRest' /\ (Complete => Full')  BY <1>1 DEF KInv
<1>2. ASSUME NEW th \in Threads, Begin(th) PROVE KRest' /\ (Complete => Full')
  <2>1. active' = active
    BY <1>2 DEF Begin, TMTimerSet, TMTimerSetRelative, TMTimerStop, TMR3TimerDestroy, TMR3TimerCreate,
                Call
  <2>2. KRest' /\ \A v \in Timers : Expected(v)' <=> Expected(v)
    BY <1>2, BeginKeeps, CreateKeeps
  <2> QED BY <2>1, <2>2 DEF Complete, Full, InActive
<1>3. ASSUME NEW th \in Threads, Step(th) PROVE KRest' /\ (Complete => Full')
  BY <1>3, StepKeeps
<1>4. CASE Batch  BY <1>4, BatchKeepsRest DEF Complete
<1>5. CASE Runner  BY <1>5, RunnerKeeps DEF Complete
<1>6. CASE TimerCallback \/ Tick
  <2>1. UNCHANGED <<state, expire, schedule, batch, one, abandoned, active, queueExpire, call, run>>
    BY <1>6 DEF TimerCallback, Tick, ActiveVars, ListVars
  <2>2. now' <= MaxTime /\ run'.now <= now'
    BY <1>6, <2>1, BoundAssumption
       DEF TimerCallback, Tick, KInv, KRest, TimeInv, IInv, MiscInv, RunInv, RunType
  <2> QED BY <2>1, <2>2, RunKeeps DEF Complete
<1>7. CASE UNCHANGED vars
  <2>1. UNCHANGED <<state, expire, schedule, batch, one, abandoned, active, queueExpire, call, run, now>>
    BY <1>7 DEF vars
  <2>2. now' <= MaxTime /\ run'.now <= now'  BY <2>1 DEF KInv, KRest, TimeInv
  <2> QED BY <2>1, <2>2, RunKeeps DEF Complete
<1> QED BY <1>2, <1>3, <1>4, <1>5, <1>6, <1>7 DEF Next

(* The schedule list, the active list, the state words and what every step of
   every call remembers of them agree, whatever the timers, the threads and the
   bounds. *)
THEOREM ListsAgree == Spec => []KInv
<1>1. KInv /\ [Next]_vars => KInv'  BY NextKInv
<1> QED BY InitKInv, <1>1, PTL DEF Spec

-----------------------------------------------------------------------------
(* The schedule list. *)

(* What is apart in its places is on the way through the lists once. *)
LEMMA ApartOnce ==
  ASSUME IInv, Apart
  PROVE  LinkedOnce
<1> DEFINE all == schedule \o batch
           m == Len(schedule)
           n == Len(batch)
<1>1. /\ schedule \in Seq(Timers) /\ batch \in Seq(Timers)
      /\ m \in Nat /\ n \in Nat /\ DOMAIN schedule = 1..m /\ DOMAIN batch = 1..n
  BY LenProperties DEF IInv, ListsOK
<1>2. /\ DOMAIN all = 1..(m + n)
      /\ \A i \in 1..(m + n) : all[i] = IF i <= m THEN schedule[i] ELSE batch[i - m]
  BY <1>1, ConcatProperties, LenProperties
<1> HIDE DEF all, m, n
<1>3. \A i \in 1..(m + n) :
        \/ i \in 1..m /\ all[i] = schedule[i]
        \/ i - m \in 1..n /\ all[i] = batch[i - m]
  BY <1>1, <1>2
<1>4. \A i \in 1..(m + n) : all[i] \in Timers /\ (OnSchedule(all[i]) \/ InBatch(all[i]))
  <2>1. \A i \in 1..m : schedule[i] \in Timers  BY <1>1, ElementOfSeq
  <2>2. \A i \in 1..n : batch[i] \in Timers  BY <1>1, ElementOfSeq
  <2> QED BY <1>1, <1>3, <2>1, <2>2 DEF OnSchedule, InBatch
<1>5. ASSUME NEW i \in 1..(m + n), NEW j \in 1..(m + n), all[i] = all[j]
      PROVE  i = j
  <2>1. CASE i \in 1..m /\ all[i] = schedule[i] /\ j \in 1..m /\ all[j] = schedule[j]
    BY <1>1, <1>5, <2>1 DEF Apart, Injective
  <2>2. CASE i - m \in 1..n /\ all[i] = batch[i - m] /\ j - m \in 1..n /\ all[j] = batch[j - m]
    <3>1. i - m = j - m  BY <1>1, <1>5, <2>2 DEF Apart, Injective
    <3> QED BY <1>1, <3>1
  <2>3. CASE \/ i \in 1..m /\ all[i] = schedule[i] /\ j - m \in 1..n /\ all[j] = batch[j - m]
             \/ j \in 1..m /\ all[j] = schedule[j] /\ i - m \in 1..n /\ all[i] = batch[i - m]
    <3>1. OnSchedule(all[i]) /\ InBatch(all[i])
      BY <1>1, <1>5, <2>3 DEF OnSchedule, InBatch
    <3> QED BY <1>4, <3>1 DEF Apart
  <2> QED BY <1>3, <2>1, <2>2, <2>3
<1>6. \A i \in 1..(m + n) : ~ Scheduling(all[i]) /\ ~ Linking(all[i])  BY <1>4 DEF Apart
<1>7. \A i \in 1..(m + n) : \A th \in Threads : At(th, "link") => call[th].timer # all[i]
  BY <1>6 DEF Linking
<1> QED BY <1>2, <1>5, <1>6, <1>7 DEF LinkedOnce, all

(* Whoever pushes on the lock-free schedule list while the owner of the TM lock
   drains it, what waits to be scheduled is on its way through the list, once, and
   nothing else is. *)
THEOREM ScheduleList == Spec => []ScheduleListOK
<1>1. ASSUME KInv PROVE ScheduleListOK
  <2>1. LinkedOnce  BY <1>1, ApartOnce DEF KInv, KRest, ListInv
  <2>2. ScheduleStatesOK
    <3>1. one.pc = "read" => one.timer \in Timers /\ Scheduling(one.timer)
      BY <1>1 DEF KInv, IInv, OneInv, OneLocals, Scheduling
    <3> QED BY <1>1, <3>1 DEF KInv, KRest, ListInv, ListedPending, ScheduleStatesOK
  <2> QED BY <1>1, <2>1, <2>2 DEF KInv, KRest, ListInv, ScheduleListOK
<1> QED BY <1>1, ListsAgree, PTL

-----------------------------------------------------------------------------
(* Nothing is stale. *)

(* With the TM lock free, no step is under way that takes a timer into the active
   list or out of it. *)
LEMMA NobodyLinks ==
  ASSUME KInv, tmOwner = NoThread
  PROVE  /\ one.pc = "idle" /\ run.pc \in {"idle", "lock"}
         /\ \A th \in Threads : call[th].pc \notin OwningPcs
         /\ \A t \in Timers : Expected(t) <=> state[t] \in Linked
<1>1. /\ run.pc \in {"idle", "lock"}
      /\ \A th \in Threads : call[th].pc \notin OwningPcs
  BY OwnerIs, NoneAssumption, EmtAssumption DEF KInv
<1>2. one.pc = "idle"  BY <1>1 DEF KInv, KRest, Serial, OneHeld, OwningPcs
<1>3. \A t \in Timers : Expected(t) <=> state[t] \in Linked
  BY <1>1, <1>2 DEF Expected, OwningPcs
<1> QED BY <1>1, <1>2, <1>3

(* The cached expire time is that of the head of the active list whenever the lock
   is free and nothing is pending, and the next timer the runner read before it
   entered a critical section is still the next one when it unlinks with it: in
   every run, a destroyed timer with a half scheduled stop included. *)
THEOREM ReadsStayTrue == Spec => []NothingStale
<1>1. ASSUME KInv PROVE NothingStale
  <2>1. ASSUME tmOwner = NoThread, \A t \in Timers : state[t] \notin Pending
        PROVE  queueExpire = IF active = <<>> THEN Never ELSE expire[Head(active)]
    <3>1. CASE active = <<>>  BY <1>1, <3>1 DEF KInv, KRest, ActiveInv, CacheOK
    <3>2. CASE active # <<>>
      <4>1. Head(active) \in Timers /\ InActive(Head(active))  BY <1>1, <3>2, HeadActive DEF KInv
      <4>2. state[Head(active)] \in Linked \ Pending
        BY <1>1, <2>1, <4>1, NobodyLinks DEF KInv, KRest, ActiveInv
      <4>3. state[Head(active)] = "ACTIVE"
        BY <4>2 DEF Linked, Pending, PendingScheduling, PendingStop, SetExpire
      <4> QED BY <1>1, <3>2, <4>3 DEF KInv, KRest, ActiveInv, CacheOK
    <3> QED BY <3>1, <3>2
  <2>2. run.pc \in {"crit", "try", "unlink"} => run.next = NextOf(run.timer)
    BY <1>1 DEF KInv, KRest, ActiveInv
  <2> QED BY <2>1, <2>2 DEF NothingStale
<1> QED BY <1>1, ListsAgree, PTL

-----------------------------------------------------------------------------
(* The active list is what the state words say, given a user who does not destroy
   a timer whose stop is half scheduled. *)

(* A step that neither makes a stop half scheduled nor takes up another timer. *)
LEMMA WellKept ==
  ASSUME WellDestroyed, one' = one \/ one.pc = "idle",
         \A th \in Threads : call'[th].pc \in {"destroy", "mark"} =>
           /\ call[th].pc \in {"destroy", "mark"} /\ call'[th].timer = call[th].timer
           /\ state'[call[th].timer] = "PENDING_STOP_SCHEDULE" =>
                state[call[th].timer] = "PENDING_STOP_SCHEDULE"
  PROVE  WellDestroyed'
<1> SUFFICES ASSUME NEW th \in Threads, call'[th].pc \in {"destroy", "mark"},
                    state'[call'[th].timer] = "PENDING_STOP_SCHEDULE"
             PROVE  /\ one'.pc = "cas" /\ one'.timer = call'[th].timer
                    /\ one'.old = "PENDING_STOP_SCHEDULE"
  BY DEF WellDestroyed
<1>1. /\ call[th].pc \in {"destroy", "mark"} /\ call'[th].timer = call[th].timer
      /\ state[call[th].timer] = "PENDING_STOP_SCHEDULE"
  OBVIOUS
<1>2. /\ one.pc = "cas" /\ one.timer = call[th].timer
      /\ one.old = "PENDING_STOP_SCHEDULE"
  BY <1>1 DEF WellDestroyed
<1> QED BY <1>1, <1>2

(* A call begins with a timer, at none of the steps that own the TM lock. *)
LEMMA BeginCalls ==
  ASSUME NEW th \in Threads, Begin(th), ~ TMR3TimerCreate(th)
  PROVE  \E t \in Timers : \E op, x, l :
           /\ Call(th, op, t, x, l) /\ l # "start"
           /\ l \in {"destroy", "mark"} => state[t] \in DestroyFrom
<1>1. ASSUME NEW t \in Timers, NEW op, NEW x, NEW l, Call(th, op, t, x, l),
             l \in {"probe", "relative", "stop"} \/ (l = "destroy" /\ state[t] \in DestroyFrom)
      PROVE  \E u \in Timers : \E o, y, k :
               /\ Call(th, o, u, y, k) /\ k # "start"
               /\ k \in {"destroy", "mark"} => state[u] \in DestroyFrom
  <2>1. l # "start" /\ (l \in {"destroy", "mark"} => state[t] \in DestroyFrom)  BY <1>1
  <2> QED BY <1>1, <2>1
<1> QED BY <1>1 DEF Begin, TMTimerSet, TMTimerSetRelative, TMTimerStop, TMR3TimerDestroy

LEMMA BeginDestroys ==
  ASSUME KInv, WellDestroyed, NEW th \in Threads, Begin(th),
         "PENDING_STOP_SCHEDULE" \notin DestroyFrom
  PROVE  WellDestroyed'
<1>1. CASE TMR3TimerCreate(th)
  <2>1. PICK t \in Timers : state' = [state EXCEPT ![t] = "STOPPED"] /\ UNCHANGED <<one, call>>
    BY <1>1 DEF TMR3TimerCreate
  <2>2. \A u \in Threads : call[u].pc \in {"destroy", "mark"} => call[u].timer \in Timers
    BY CallFacts DEF KInv
  <2>3. \A v \in Timers : state'[v] = state[v] \/ state'[v] = "STOPPED"
    BY <2>1 DEF KInv, IInv, TimerInv
  <2> QED BY <2>1, <2>2, <2>3, WellKept
<1>2. CASE ~ TMR3TimerCreate(th)
  <2>0. PICK t \in Timers : \E op, x, l :
          /\ Call(th, op, t, x, l)
          /\ l \in {"destroy", "mark"} => state[t] \in DestroyFrom
    BY <1>2, BeginCalls
  <2>1. PICK op, x, l :
          /\ call' = [call EXCEPT ![th] = [pc |-> l, op |-> op, timer |-> t, arg |-> x,
                                            old |-> "STOPPED", own |-> FALSE]]
          /\ l \in {"destroy", "mark"} => state[t] \in DestroyFrom
          /\ UNCHANGED <<one, state>>
    BY <2>0 DEF Call
  <2>2. /\ \A u \in Threads : u # th => call'[u] = call[u]
        /\ call'[th].timer = t
        /\ call'[th].pc \in {"destroy", "mark"} => state[t] # "PENDING_STOP_SCHEDULE"
    <3>1. DOMAIN call = Threads  BY DEF KInv, IInv, CallInv
    <3>2. call'[th] = [pc |-> l, op |-> op, timer |-> t, arg |-> x, old |-> "STOPPED", own |-> FALSE]
          /\ \A u \in Threads : u # th => call'[u] = call[u]
      BY <2>1, <3>1, Zenon
    <3>3. call'[th].timer = t /\ call'[th].pc = l  BY <3>2
    <3> QED BY <2>1, <3>2, <3>3
  <2> QED BY <2>1, <2>2 DEF WellDestroyed
<1> QED BY <1>1, <1>2

LEMMA StepDestroys ==
  ASSUME KInv, WellDestroyed, NEW th \in Threads, Step(th)
  PROVE  WellDestroyed'
<1> USE DEF KInv, KRest
<1>1. /\ Busy(th) /\ call[th].timer \in Timers
      /\ \E d, z : /\ call' = [call EXCEPT ![th] = d]
                   /\ state' = [state EXCEPT ![call[th].timer] = z]
                   /\ d.pc \in {"destroy", "mark"} =>
                        /\ call[th].pc = "destroy" /\ d.timer = call[th].timer
                        /\ z = state[call[th].timer]
      /\ one' = one \/ one.pc = "idle"
  <2>1. CASE PlainOp(th)
    <3>1. Busy(th) /\ \E d, z : Plain(th, d, z)  BY <2>1, PlainStep
    <3>2. call[th].timer \in Timers  BY <3>1, CallFacts DEF Busy
    <3>3. one' = one  BY <3>1 DEF Plain
    <3>4. PICK d, z : Plain(th, d, z)  BY <3>1
    <3>5. d.pc \in {"destroy", "mark"} =>
            call[th].pc = "destroy" /\ d.timer = call[th].timer /\ z = state[call[th].timer]
      BY <3>4 DEF Plain, Fits, Goes, Idle
    <3> QED BY <3>1, <3>2, <3>3, <3>4, <3>5 DEF Plain
  <2>2. CASE SetOptimizedStart(th)
    <3>1. /\ call' = [call EXCEPT ![th] = Idle] /\ At(th, "start") /\ UNCHANGED <<one, state>>
      BY <2>2 DEF SetOptimizedStart, Leave, ListVars
    <3>2. call[th].timer \in Timers /\ Busy(th)  BY <3>1, CallFacts DEF Busy
    <3>3. state' = [state EXCEPT ![call[th].timer] = state[call[th].timer]]
      BY <3>1 DEF IInv, TimerInv
    <3>4. Idle.pc \notin {"destroy", "mark"}  BY DEF Idle
    <3> QED BY <3>1, <3>2, <3>3, <3>4
  <2>3. CASE SetLink(th)
    <3>1. PICK l \in {"schedule", "write"} :
            /\ call' = [call EXCEPT ![th] = [call[th] EXCEPT !.pc = l]]
            /\ At(th, "link") /\ UNCHANGED <<one, state>>
      BY <2>3 DEF SetLink, Goto
    <3>2. call[th].timer \in Timers /\ Busy(th) /\ call[th] \in CallType
      BY <3>1, CallFacts DEF Busy
    <3>3. state' = [state EXCEPT ![call[th].timer] = state[call[th].timer]]
      BY <3>1 DEF IInv, TimerInv
    <3>4. [call[th] EXCEPT !.pc = l].pc \notin {"destroy", "mark"}  BY <3>1, <3>2 DEF CallType
    <3> QED BY <3>1, <3>2, <3>3, <3>4
  <2>4. CASE Schedule(th) /\ th \in Emts /\ CanLock(th)
    <3>1. /\ call' = [call EXCEPT ![th] = [call[th] EXCEPT !.pc = "batch"]]
          /\ At(th, "schedule") /\ UNCHANGED state
      BY <2>4 DEF Schedule, Goto
    <3>2. call[th].timer \in Timers /\ Busy(th) /\ call[th] \in CallType
      BY <3>1, CallFacts DEF Busy
    <3>3. state' = [state EXCEPT ![call[th].timer] = state[call[th].timer]]
      BY <3>1 DEF IInv, TimerInv
    <3>4. [call[th] EXCEPT !.pc = "batch"].pc \notin {"destroy", "mark"}  BY <3>2 DEF CallType
    <3>5. one.pc = "idle"  BY <2>4, <3>1, <3>2, OneIdle
    <3> QED BY <3>1, <3>2, <3>3, <3>4, <3>5
  <2>5. CASE DestroyMark(th)
    <3>1. /\ call' = [call EXCEPT ![th] = [call[th] EXCEPT !.pc = "free"]]
          /\ At(th, "mark") /\ state' = [state EXCEPT ![call[th].timer] = "DESTROY"]
      BY <2>5 DEF DestroyMark, Goto
    <3>2. call[th].timer \in Timers /\ Busy(th) /\ call[th] \in CallType
      BY <3>1, CallFacts DEF Busy
    <3>3. [call[th] EXCEPT !.pc = "free"].pc \notin {"destroy", "mark"}  BY <3>2 DEF CallType
    <3>4. CanLock(th)  BY <3>1, OwnerIs DEF CanLock, OwningPcs
    <3>5. one.pc = "idle"  BY <3>1, <3>2, <3>4, OneIdle
    <3> QED BY <3>1, <3>2, <3>3, <3>5
  <2> QED BY <2>1, <2>2, <2>3, <2>4, <2>5 DEF Step, PlainOp
<1>2. PICK d, z : /\ call' = [call EXCEPT ![th] = d]
                  /\ state' = [state EXCEPT ![call[th].timer] = z]
                  /\ d.pc \in {"destroy", "mark"} =>
                       /\ call[th].pc = "destroy" /\ d.timer = call[th].timer
                       /\ z = state[call[th].timer]
  BY <1>1
<1>3. /\ call'[th] = d /\ \A u \in Threads : u # th => call'[u] = call[u]
      /\ state'[call[th].timer] = z
      /\ \A v \in Timers : v # call[th].timer => state'[v] = state[v]
  BY <1>1, <1>2 DEF IInv, CallInv, TimerInv
<1>4. \A u \in Threads : call[u].pc \in {"destroy", "mark"} /\ u # th =>
                           call[u].timer \in Timers /\ call[u].timer # call[th].timer
  BY <1>1, CallFacts DEF Serial, Busy
<1> QED BY <1>1, <1>2, <1>3, <1>4, WellKept

LEMMA BatchDestroys ==
  ASSUME KInv, WellDestroyed, Batch
  PROVE  WellDestroyed'
<1> USE DEF KInv, KRest
<1>1. CASE ScheduleOneCas
  <2>1. PICK t \in Timers :
          /\ t = one.timer /\ state[t] = one.old /\ one.old \in Pending \ SetExpire
          /\ state' = [state EXCEPT ![t] = Scheduled(state[t])] /\ one.pc = "cas"
    BY <1>1 DEF ScheduleOneCas, IInv, OneInv, OneLocals
  <2>2. call' = call  BY <1>1 DEF ScheduleOneCas
  <2>3. /\ state'[t] = Scheduled(state[t]) /\ \A v \in Timers : v # t => state'[v] = state[v]
    BY <2>1 DEF IInv, TimerInv
  <2>4. CASE state[t] = "PENDING_STOP"
    <3>1. one' = [one EXCEPT !.old = "PENDING_STOP_SCHEDULE"]
      BY <1>1, <2>1, <2>4 DEF ScheduleOneCas, Scheduled
    <3>2. one'.pc = "cas" /\ one'.timer = t /\ one'.old = "PENDING_STOP_SCHEDULE"
      BY <2>1, <3>1 DEF IInv, OneInv, OneType
    <3>3. \A v \in Timers : v # t => state[v] # "PENDING_STOP_SCHEDULE" \/
                              \A u \in Threads : call[u].timer = v =>
                                call[u].pc \notin {"destroy", "mark"}
      BY <2>1 DEF WellDestroyed
    <3>4. \A u \in Threads : call[u].pc \in {"destroy", "mark"} => call[u].timer \in Timers
      BY CallFacts
    <3> QED BY <2>2, <2>3, <3>2, <3>3, <3>4 DEF WellDestroyed
  <2>5. CASE state[t] # "PENDING_STOP"
    <3>1. state'[t] # "PENDING_STOP_SCHEDULE"
      BY <2>1, <2>3, <2>5 DEF Scheduled, Pending, PendingScheduling, PendingStop, SetExpire
    <3>2. \A u \in Threads : call[u].pc \in {"destroy", "mark"} => call[u].timer \in Timers
      BY CallFacts
    <3> QED BY <2>1, <2>2, <2>3, <3>1, <3>2 DEF WellDestroyed
  <2> QED BY <2>4, <2>5
<1>2. CASE ~ ScheduleOneCas
  <2>1. UNCHANGED <<call, state>> /\ (one.pc = "cas" => state[one.timer] # one.old)
    BY <1>2 DEF Batch, BatchNext, BatchEnd, ScheduleOneRead, ScheduleOneRetry, ScheduleOneLink
  <2> QED BY <2>1 DEF WellDestroyed
<1> QED BY <1>1, <1>2

LEMMA RunnerDestroys ==
  ASSUME KInv, WellDestroyed, Runner
  PROVE  WellDestroyed'
<1> USE DEF KInv, KRest
<1>1. one' = one \/ one.pc = "idle"
  <2>1. CASE QueuesSchedule  BY <2>1, RunnerAlone DEF QueuesSchedule
  <2>2. CASE ~ QueuesSchedule
    BY <2>2 DEF Runner, QueuesDo, QueuesLock, QueueRunHead, QueueRunCheck, QueueRunEnter, QueueRunTry,
                QueueRunUnlink, QueueRunCallbackDone, QueuesDone, ListVars
  <2> QED BY <2>1, <2>2
<1>2. call' = call
  BY DEF Runner, QueuesDo, QueuesLock, QueuesSchedule, QueueRunHead, QueueRunCheck, QueueRunEnter,
         QueueRunTry, QueueRunUnlink, QueueRunCallbackDone, QueuesDone
<1>3. \A v \in Timers : state'[v] = "PENDING_STOP_SCHEDULE" => state[v] = "PENDING_STOP_SCHEDULE"
  <2>1. CASE QueueRunTry  BY <2>1 DEF QueueRunTry, IInv, TimerInv
  <2>2. CASE QueueRunUnlink  BY <2>2 DEF QueueRunUnlink, Deliver, IInv, TimerInv
  <2>3. CASE QueueRunCallbackDone
    BY <2>3 DEF QueueRunCallbackDone, AfterCallback, IInv, TimerInv
  <2>4. CASE ~ (QueueRunTry \/ QueueRunUnlink \/ QueueRunCallbackDone)
    <3>1. state' = state
      BY <2>4 DEF Runner, QueuesDo, QueuesLock, QueuesSchedule, QueueRunHead, QueueRunCheck,
                  QueueRunEnter, QueuesDone
    <3> QED BY <3>1
  <2> QED BY <2>1, <2>2, <2>3, <2>4
<1>4. \A u \in Threads : call[u].pc \in {"destroy", "mark"} => call[u].timer \in Timers
  BY CallFacts
<1> QED BY <1>1, <1>2, <1>3, <1>4, WellKept

LEMMA NextComplete ==
  ASSUME KInv, Complete, [Next]_vars, "PENDING_STOP_SCHEDULE" \notin DestroyFrom
  PROVE  Complete'
<1>1. Full'  BY NextKInv
<1>2. WellDestroyed  BY DEF Complete
<1> SUFFICES WellDestroyed'  BY <1>1 DEF Complete
<1>3. ASSUME NEW th \in Threads, Begin(th) PROVE WellDestroyed'  BY <1>2, <1>3, BeginDestroys
<1>4. ASSUME NEW th \in Threads, Step(th) PROVE WellDestroyed'  BY <1>2, <1>4, StepDestroys
<1>5. CASE Batch  BY <1>2, <1>5, BatchDestroys
<1>6. CASE Runner  BY <1>2, <1>6, RunnerDestroys
<1>7. CASE TimerCallback \/ Tick \/ UNCHANGED vars
  <2>1. UNCHANGED <<call, state, one>>  BY <1>7 DEF TimerCallback, Tick, vars, ListVars
  <2> QED BY <1>2, <2>1 DEF WellDestroyed
<1> QED BY <1>3, <1>4, <1>5, <1>6, <1>7 DEF Next

LEMMA InitComplete == Init => Complete
<1> SUFFICES ASSUME Init PROVE Complete  OBVIOUS
<1>1. /\ \A th \in Threads : call[th].pc = "idle"
      /\ \A t \in Timers : state[t] = "STOPPED"
      /\ run.pc = "idle"
  BY DEF Init, NoRun, Idle
<1> QED BY <1>1 DEF Complete, Full, WellDestroyed, Expected, Linked

(* tmTimerQueuesSanityChecks holds whenever no thread owns the TM lock, unless a
   timer whose stop is half scheduled is handed to TMR3TimerDestroy, which run
   queue_destroy shows to break it. *)
THEOREM ListsAreSane ==
  "PENDING_STOP_SCHEDULE" \notin DestroyFrom => (Spec => []SanityCheck)
<1> SUFFICES ASSUME "PENDING_STOP_SCHEDULE" \notin DestroyFrom PROVE Spec => []SanityCheck
  OBVIOUS
<1>1. Init => KInv /\ Complete  BY InitKInv, InitComplete
<1>2. KInv /\ Complete /\ [Next]_vars => (KInv /\ Complete)'
  BY NextKInv, NextComplete
<1>3. KInv /\ Complete => SanityCheck
  <2>1. ASSUME KInv, Complete, tmOwner = NoThread, NEW t \in Timers
        PROVE  InActive(t) <=> state[t] \in Linked
    BY <2>1, NobodyLinks DEF KInv, KRest, ActiveInv, Complete, Full
  <2> QED BY <2>1 DEF SanityCheck, KInv, KRest, ActiveInv, Injective
<1> QED BY <1>1, <1>2, <1>3, PTL DEF Spec

-----------------------------------------------------------------------------
(* The queue implements the timer service. *)

\* A call on the optimized path has made the timer ACTIVE and is about to link it.
Starting(t) == \E th \in Threads : At(th, "start") /\ call[th].timer = t

PhaseRight(t) ==
  /\ Phase(t) = "setting" <=> state[t] \in SetExpire \/ (state[t] = "ACTIVE" /\ Starting(t))
  /\ Phase(t) = "armed" <=> state[t] \in Armed /\ ~ (state[t] = "ACTIVE" /\ Starting(t))
  /\ Phase(t) = "idle" <=> state[t] \in PendingStop \cup {"STOPPED"}
  /\ Phase(t) = "free" <=> state[t] \in {"DESTROY", "FREE"}
  /\ Phase(t) = "expired" <=> state[t] \in {"EXPIRED_GET_UNLINK", "EXPIRED_DELIVER"}
  /\ Phase(t) \in {"setting", "armed", "idle", "free", "expired"}

(* The phase of a timer, by its state and by whether it is being started. *)
LEMMA PhaseIs ==
  ASSUME NEW t, state[t] \in States
  PROVE  PhaseRight(t)
<1>1. Setting(t) <=> state[t] \in SetExpire \/ (state[t] = "ACTIVE" /\ Starting(t))
  BY DEF Setting, Starting
<1> HIDE DEF At
<1>2. CASE Setting(t)
  <2>1. Phase(t) = "setting"  BY <1>1, <1>2 DEF Phase, SetExpire, Armed, PendingStop
  <2> QED BY <1>1, <1>2, <2>1 DEF PhaseRight, SetExpire, Armed, PendingStop
<1>3. CASE ~ Setting(t)
  <2>1. CASE state[t] \in Armed
    <3>1. Phase(t) = "armed"  BY <1>1, <1>3, <2>1 DEF Phase, SetExpire, Armed, PendingStop
    <3> QED BY <1>1, <1>3, <2>1, <3>1 DEF PhaseRight, SetExpire, Armed, PendingStop
  <2>2. CASE state[t] \in PendingStop \cup {"STOPPED"}
    <3>1. Phase(t) = "idle"  BY <1>1, <1>3, <2>2 DEF Phase, SetExpire, Armed, PendingStop
    <3> QED BY <1>1, <1>3, <2>2, <3>1 DEF PhaseRight, SetExpire, Armed, PendingStop
  <2>3. CASE state[t] \in {"DESTROY", "FREE"}
    <3>1. Phase(t) = "free"  BY <1>1, <1>3, <2>3 DEF Phase, SetExpire, Armed, PendingStop
    <3> QED BY <1>1, <1>3, <2>3, <3>1 DEF PhaseRight, SetExpire, Armed, PendingStop
  <2>4. CASE state[t] \in {"EXPIRED_GET_UNLINK", "EXPIRED_DELIVER"}
    <3>1. Phase(t) = "expired"  BY <1>1, <1>3, <2>4 DEF Phase, SetExpire, Armed, PendingStop
    <3> QED BY <1>1, <1>3, <2>4, <3>1 DEF PhaseRight, SetExpire, Armed, PendingStop
  <2> QED BY <1>1, <1>3, <2>1, <2>2, <2>3, <2>4 DEF States, SetExpire, Armed, PendingStop
<1> QED BY <1>2, <1>3

LEMMA PhaseTable == \A t : state[t] \in States => PhaseRight(t)
BY PhaseIs

(* The phases before and after a step. *)
LEMMA PhasesAre ==
  ASSUME IInv, IInv'
  PROVE  \A t \in Timers : PhaseRight(t) /\ PhaseRight(t)'
<1>1. \A t \in Timers : state[t] \in States  BY DEF IInv, TimerInv
<1>2. \A t \in Timers : PhaseRight(t)  BY <1>1, PhaseIs
<1>3. (\A t : state[t] \in States => PhaseRight(t))'  BY PhaseTable, PTL
<1>4. \A t \in Timers : state'[t] \in States  BY DEF IInv, TimerInv
<1> QED BY <1>2, <1>3, <1>4

LEMMA PhaseSame ==
  ASSUME NEW t, PhaseRight(t), PhaseRight(t)', state'[t] = state[t], Starting(t)' <=> Starting(t)
  PROVE  Phase(t)' = Phase(t)
BY DEF PhaseRight

-----------------------------------------------------------------------------
(* The steps of the service. *)

\* Nothing changes for the users of the timers other than t.
Others(t) == \A v \in Timers : v # t => Phase(v)' = Phase(v) /\ expire'[v] = expire[v]

Stutters == UNCHANGED Service!vars

LEMMA StutterIs ==
  ASSUME \A v \in Timers : Phase(v)' = Phase(v) /\ (Phase(v) = "armed" => expire'[v] = expire[v]),
         now' = now, run' = run \/ (run.pc # "callback" /\ run'.pc # "callback")
  PROVE  Stutters
<1>1. [t \in Timers |-> Phase(t)]' = [t \in Timers |-> Phase(t)]  OBVIOUS
<1>2. [t \in Timers |-> IF Phase(t) = "armed" THEN expire[t] ELSE 0]'
        = [t \in Timers |-> IF Phase(t) = "armed" THEN expire[t] ELSE 0]
  OBVIOUS
<1>3. (IF run.pc = "callback" THEN run.timer ELSE NoTimer)'
        = IF run.pc = "callback" THEN run.timer ELSE NoTimer
  OBVIOUS
<1> QED BY <1>1, <1>2, <1>3 DEF Stutters, Service!vars

LEMMA EnterIs ==
  ASSUME NEW t \in Timers, NEW p, Others(t), Phase(t)' = p, p # "armed"
  PROVE  Service!Enter(t, p)
<1>1. [v \in Timers |-> Phase(v)]' = [[v \in Timers |-> Phase(v)] EXCEPT ![t] = p]
  BY DEF Others
<1>2. [v \in Timers |-> IF Phase(v) = "armed" THEN expire[v] ELSE 0]'
        = [[v \in Timers |-> IF Phase(v) = "armed" THEN expire[v] ELSE 0] EXCEPT ![t] = 0]
  BY DEF Others
<1> QED BY <1>1, <1>2 DEF Service!Enter

LEMMA BeginsSet ==
  ASSUME NEW t \in Timers, Others(t), Phase(t)' = "setting", UNCHANGED <<run, now>>,
         Phase(t) \in {"idle", "armed"}
           \/ (Phase(t) = "expired" /\ run.pc = "callback" /\ run.timer = t)
  PROVE  Service!BeginSet(t)
<1>1. Service!Enter(t, "setting")  BY EnterIs
<1> QED BY <1>1 DEF Service!BeginSet

LEMMA EndsSet ==
  ASSUME NEW t \in Timers, Others(t), Phase(t) = "setting", Phase(t)' = "armed",
         expire'[t] \in Times, UNCHANGED <<run, now>>
  PROVE  Service!EndSet(t)
<1>1. [v \in Timers |-> Phase(v)]' = [[v \in Timers |-> Phase(v)] EXCEPT ![t] = "armed"]
  BY DEF Others
<1>2. [v \in Timers |-> IF Phase(v) = "armed" THEN expire[v] ELSE 0]'
        = [[v \in Timers |-> IF Phase(v) = "armed" THEN expire[v] ELSE 0] EXCEPT ![t] = expire'[t]]
  BY DEF Others
<1> QED BY <1>1, <1>2 DEF Service!EndSet

LEMMA Stops ==
  ASSUME NEW t \in Timers, Others(t), Phase(t) = "armed", Phase(t)' = "idle", UNCHANGED <<run, now>>
  PROVE  Service!Stop(t)
<1>1. Service!Enter(t, "idle")  BY EnterIs
<1> QED BY <1>1 DEF Service!Stop

LEMMA Destroys ==
  ASSUME NEW t \in Timers, Others(t), Phase(t) \notin {"free", "setting"}, Phase(t)' = "free",
         UNCHANGED <<run, now>>
  PROVE  Service!Destroy(t)
<1>1. Service!Enter(t, "free")  BY EnterIs
<1> QED BY <1>1 DEF Service!Destroy

LEMMA Creates ==
  ASSUME NEW t \in Timers, Others(t), Phase(t) = "free", Phase(t)' = "idle", UNCHANGED <<run, now>>
  PROVE  Service!Create(t)
<1>1. Service!Enter(t, "idle")  BY EnterIs
<1> QED BY <1>1 DEF Service!Create

LEMMA Expires ==
  ASSUME NEW t \in Timers, Others(t), Phase(t) = "armed", Phase(t)' = "expired",
         expire[t] <= now, now' = now, run.pc # "callback", run'.pc # "callback"
  PROVE  Service!Expire(t)
<1>1. Service!Enter(t, "expired")  BY EnterIs
<1> QED BY <1>1 DEF Service!Expire

LEMMA Delivers ==
  ASSUME NEW t \in Timers, \A v \in Timers : Phase(v)' = Phase(v), expire' = expire, now' = now,
         Phase(t) = "expired", run.pc # "callback", run'.pc = "callback", run'.timer = t
  PROVE  Service!Deliver(t)
<1>1. [v \in Timers |-> Phase(v)]' = [v \in Timers |-> Phase(v)]  OBVIOUS
<1>2. [v \in Timers |-> IF Phase(v) = "armed" THEN expire[v] ELSE 0]'
        = [v \in Timers |-> IF Phase(v) = "armed" THEN expire[v] ELSE 0]
  OBVIOUS
<1> QED BY <1>1, <1>2 DEF Service!Deliver

LEMMA Returns ==
  ASSUME NEW t \in Timers, t # NoTimer, \A v \in Timers : v # t => Phase(v)' = Phase(v),
         expire' = expire, now' = now,
         Phase(t)' = IF Phase(t) = "expired" THEN "idle" ELSE Phase(t),
         run.pc = "callback", run.timer = t, run'.pc # "callback"
  PROVE  Service!Return(t)
<1>1. [v \in Timers |-> Phase(v)]'
        = IF Phase(t) = "expired" THEN [[v \in Timers |-> Phase(v)] EXCEPT ![t] = "idle"]
                                  ELSE [v \in Timers |-> Phase(v)]
  OBVIOUS
<1>2. [v \in Timers |-> IF Phase(v) = "armed" THEN expire[v] ELSE 0]'
        = [v \in Timers |-> IF Phase(v) = "armed" THEN expire[v] ELSE 0]
  <2>1. \A v \in Timers : Phase(v)' = "armed" <=> Phase(v) = "armed"  OBVIOUS
  <2> QED BY <2>1
<1> QED BY <1>1, <1>2 DEF Service!Return

(* The steps of the calls. *)

LEMMA CallPhase ==
  ASSUME IInv, IInv', Serial, NEW th \in Threads, NEW d, NEW z, Busy(th), Moves(th, d, z)
  PROVE  \E t \in Timers :
           /\ t = call[th].timer /\ call'[th] = d /\ state'[t] = z /\ run' = run
           /\ \A v \in Timers : v # t => state'[v] = state[v] /\ Phase(v)' = Phase(v)
           /\ Starting(t) <=> call[th].pc = "start"
           /\ Starting(t)' <=> d.pc = "start"
           /\ PhaseRight(t) /\ PhaseRight(t)'
<1>1. PICK t \in Timers :
        /\ t = call[th].timer /\ Goes(call[th], state[t], d, z)
        /\ call'[th] = d /\ \A u \in Threads : u # th => call'[u] = call[u]
        /\ state'[t] = z /\ \A v \in Timers : v # t => state'[v] = state[v]
        /\ \A u \in Threads : Busy(u) /\ u # th => call[u].timer # t
        /\ \A u \in Threads : call'[u].pc # "idle" =>
                                  Busy(u) /\ call'[u].timer = call[u].timer
  BY MovesEffect
<1>2. Starting(t) <=> call[th].pc = "start"  BY <1>1 DEF Starting, Busy
<1>3. Starting(t)' <=> d.pc = "start"
  <2>1. Starting(t)' <=> \E u \in Threads : call'[u].pc = "start" /\ call'[u].timer = t
    BY DEF Starting
  <2> QED BY <1>1, <2>1
<1>4. \A v \in Timers : v # t => (Starting(v)' <=> Starting(v))
  <2>1. \A v : Starting(v)' <=> \E u \in Threads : call'[u].pc = "start" /\ call'[u].timer = v
    BY DEF Starting
  <2>2. \A v : Starting(v) <=> \E u \in Threads : call[u].pc = "start" /\ call[u].timer = v
    BY DEF Starting
  <2>3. call'[th].pc = "start" => call'[th].timer = t  BY <1>1
  <2> QED BY <1>1, <2>1, <2>2, <2>3
<1>5. \A v \in Timers : PhaseRight(v) /\ PhaseRight(v)'  BY PhasesAre
<1>6. \A v \in Timers : v # t => Phase(v)' = Phase(v)  BY <1>1, <1>4, <1>5, PhaseSame
<1>7. run' = run  BY DEF Moves
<1> QED BY <1>1, <1>2, <1>3, <1>5, <1>6, <1>7

(* A step that writes the state of the timer of its call, and what the service sees
   of it. *)
LEMMA PlainImplements ==
  ASSUME KInv, IInv', NEW th \in Threads, PlainOp(th)
  PROVE  Stutters \/ Service!Next
<1> USE DEF KInv, KRest
<1>1. PICK d, z : Plain(th, d, z)  BY PlainStep
<1>2. Busy(th)  BY PlainStep
<1>3. PICK t \in Timers :
        /\ t = call[th].timer /\ call'[th] = d /\ state'[t] = z /\ run' = run
        /\ \A v \in Timers : v # t => state'[v] = state[v] /\ Phase(v)' = Phase(v)
        /\ Starting(t) <=> call[th].pc = "start"
        /\ Starting(t)' <=> d.pc = "start"
        /\ PhaseRight(t) /\ PhaseRight(t)'
  <2>1. Moves(th, d, z)  BY <1>1 DEF Plain, Fits, Moves
  <2> QED BY <1>2, <2>1, CallPhase
<1>4. /\ call[th] \in CallType /\ state[t] \in States /\ CallFits(call[th], state[t])
      /\ state[t] \in SetExpire => Sets(call[th])
      /\ state[t] = "DESTROY" => At(th, "free")
      /\ StateFits(t)
  BY <1>2, <1>3, OwnFacts DEF StatesFit
<1>5. now' = now /\ call[th].pc # "start" /\ ~ Starting(t)
  BY <1>1, <1>3 DEF Plain, Fits
<1>6. IF At(th, "write") THEN expire' = [expire EXCEPT ![t] = Wanted(th)] ELSE expire' = expire
  BY <1>3, PlainExpire
<1>7. \A v \in Timers : v # t => expire'[v] = expire[v]
  BY <1>6 DEF IInv, TimerInv
<1>8. Others(t)  BY <1>3, <1>7 DEF Others
<1> DEFINE s == state[t]
<1> HIDE DEF s
<1>9. s = state[t] /\ z = state'[t] /\ d.pc = call'[th].pc  BY <1>3 DEF s
\* Nothing happens for the users of the timer.
<1>10. CASE z = s /\ d.pc # "start"
  <2>1. Phase(t)' = Phase(t)  BY <1>3, <1>5, <1>9, <1>10, PhaseSame
  <2>2. Phase(t) = "armed" => expire'[t] = expire[t]
    <3>1. CASE At(th, "write")
      <4>1. s \in SetExpire  BY <1>4, <1>9, <3>1 DEF CallFits, Sets, Claim, SetExpire
      <4> QED BY <1>3, <1>9, <4>1 DEF PhaseRight
    <3>2. CASE ~ At(th, "write")  BY <1>6, <3>2
    <3> QED BY <3>1, <3>2
  <2>3. \A v \in Timers : Phase(v)' = Phase(v) /\ (Phase(v) = "armed" => expire'[v] = expire[v])
    BY <1>3, <1>7, <2>1, <2>2
  <2> QED BY <1>3, <1>5, <2>3, StutterIs
\* The timer is being set.
<1>11. CASE /\ z \in SetExpire \/ (z = "ACTIVE" /\ d.pc = "start")
            /\ s \notin SetExpire \cup {"EXPIRED_GET_UNLINK", "DESTROY", "FREE"}
  <2>1. Phase(t)' = "setting"  BY <1>3, <1>9, <1>11 DEF PhaseRight
  <2>2. Phase(t) \notin {"setting", "free"}  BY <1>3, <1>5, <1>9, <1>11 DEF PhaseRight
  <2>3. Phase(t) = "expired" => run.pc = "callback" /\ run.timer = t
    <3>1. Phase(t) = "expired" => s = "EXPIRED_DELIVER"  BY <1>3, <1>9, <1>11 DEF PhaseRight
    <3> QED BY <1>4, <1>9, <3>1 DEF StateFits
  <2>4. Phase(t) \in {"idle", "armed"} \/ Phase(t) = "expired"
    BY <1>3, <2>2 DEF PhaseRight
  <2>5. Service!BeginSet(t)  BY <1>3, <1>5, <1>8, <2>1, <2>3, <2>4, BeginsSet
  <2> QED BY <2>5 DEF Service!Next
\* It has been set.
<1>12. CASE /\ s \in SetExpire /\ z \in {"PENDING_SCHEDULE", "PENDING_RESCHEDULE"}
            /\ At(th, "commit")
  <2>1. Phase(t) = "setting" /\ Phase(t)' = "armed"
    BY <1>3, <1>9, <1>12 DEF PhaseRight, Armed
  <2>2. expire'[t] \in Times  BY <1>3, <1>6, <1>12 DEF TimeInv
  <2>3. Service!EndSet(t)  BY <1>3, <1>5, <1>8, <2>1, <2>2, EndsSet
  <2> QED BY <2>3 DEF Service!Next
\* It is stopped.
<1>13. CASE s \in Armed /\ z \in PendingStop
  <2>1. Phase(t) = "armed" /\ Phase(t)' = "idle"
    BY <1>3, <1>5, <1>9, <1>13 DEF PhaseRight
  <2>2. Service!Stop(t)  BY <1>3, <1>5, <1>8, <2>1, Stops
  <2> QED BY <2>2 DEF Service!Next
\* It is freed.
<1>14. CASE s = "DESTROY" /\ z = "FREE"
  <2>1. Phase(t) = "free" /\ Phase(t)' = "free"  BY <1>3, <1>9, <1>14 DEF PhaseRight
  <2>2. \A v \in Timers : Phase(v)' = Phase(v) /\ (Phase(v) = "armed" => expire'[v] = expire[v])
    BY <1>3, <1>7, <2>1
  <2> QED BY <1>3, <1>5, <2>2, StutterIs
<1> HIDE DEF KInv, KRest
<1>15. state' = state => z = s  BY <1>9
<1>16. call[th] \in CallType /\ call \in [Threads -> CallType] /\ state \in [Timers -> States]
  BY <1>4 DEF KInv, IInv, CallInv, TimerInv
<1>17. CASE \/ SetProbe(th) \/ SetTryLock(th) \/ SetRelative(th) \/ SetRead(th) \/ SetAgain(th)
            \/ SetWrite(th) \/ StopRead(th) \/ (Schedule(th) /\ ~ (th \in Emts /\ CanLock(th)))
            \/ ScheduleNotify(th) \/ ScheduleDone(th) \/ Return(th) \/ DestroyLock(th)
  <2>1. state' = state
    BY <1>17 DEF SetProbe, SetTryLock, SetRelative, SetRead, SetAgain, SetWrite, StopRead, Schedule,
                 ScheduleNotify, ScheduleDone, Return, DestroyLock
  <2>2. d.pc # "start"
    <3>1. Fits(call[th], state[t], d, z) /\ z = state[t]
      BY <1>1, <1>3, <1>9, <1>15, <2>1 DEF Plain
    <3>2. d.pc = "start" => z = "ACTIVE"  BY <3>1 DEF Fits, Goes, CallFits, Idle
    <3> QED BY <3>1, <3>2 DEF Fits, Linked
  <2> QED BY <1>10, <1>15, <2>1, <2>2
<1>18. CASE SetOptimize(th) \/ SetRelativeOptimize(th)
  <2>1. CASE state[t] \in {"EXPIRED_DELIVER", "STOPPED"} /\ z = "ACTIVE" /\ d.pc = "start"
    BY <1>9, <1>11, <2>1 DEF SetExpire
  <2>2. CASE state' = state /\ d.pc = "read"  BY <1>10, <1>15, <2>2
  <2>3. SetOptimize(th) => call[th].old \in {"EXPIRED_DELIVER", "STOPPED"}
    BY <1>4 DEF SetOptimize, CallFits
  <2>4. \/ state' = state /\ Goto(th, "read")
        \/ /\ state[t] \in {"EXPIRED_DELIVER", "STOPPED"} /\ Goto(th, "start")
           /\ state' = [state EXCEPT ![t] = "ACTIVE"]
    BY <1>3, <1>18, <2>3 DEF SetOptimize, SetRelativeOptimize
  <2>5. \A l : Goto(th, l) => d.pc = l  BY <1>9, <1>16 DEF Goto, CallType
  <2> QED BY <1>9, <1>16, <2>1, <2>2, <2>4, <2>5
<1>19. CASE SetCas(th)
  <2>1. \/ state' = state /\ Goto(th, "again")
        \/ /\ state[t] = call[th].old /\ state' = [state EXCEPT ![t] = Claim(call[th].old)]
           /\ \E l \in {"link", "write"} : Goto(th, l)
    BY <1>3, <1>19 DEF SetCas
  <2>2. \A l : Goto(th, l) => d.pc = l  BY <1>9, <1>16 DEF Goto, CallType
  <2>3. call[th].old \notin Transitional \cup {"DESTROY", "FREE"}
    BY <1>4, <1>19 DEF SetCas, CallFits
  <2>4. CASE state' = state /\ Goto(th, "again")  BY <1>10, <1>15, <2>2, <2>4
  <2>5. CASE state[t] = call[th].old /\ state' = [state EXCEPT ![t] = Claim(call[th].old)]
    <3>1. z \in SetExpire  BY <1>9, <1>16, <2>5 DEF Claim, SetExpire
    <3> QED BY <1>9, <1>11, <2>3, <2>5, <3>1 DEF Transitional
  <2> QED BY <2>1, <2>4, <2>5
<1>20. CASE SetCommit(th)
  <2>1. /\ At(th, "commit") /\ z \in {"PENDING_SCHEDULE", "PENDING_RESCHEDULE"}
    BY <1>3, <1>9, <1>16, <1>20 DEF SetCommit
  <2>2. s \in SetExpire  BY <1>4, <1>9, <2>1 DEF CallFits, Sets, Claim, SetExpire
  <2> QED BY <1>12, <2>1, <2>2
<1>21. CASE StopCas(th) \/ StopFallThrough(th)
  <2>1. \/ state' = state /\ \E l \in {"stopFallThrough", "stop"} : Goto(th, l)
        \/ /\ state[t] \in Armed
           /\ \E p \in PendingStop : state' = [state EXCEPT ![t] = p]
    <3>1. CASE StopCas(th)
      <4>1. call[th].old \in Armed  BY <1>4, <3>1 DEF StopCas, CallFits
      <4>2. Stopped(call[th].old) \in PendingStop  BY DEF Stopped, PendingStop
      <4> QED BY <1>3, <3>1, <4>1, <4>2 DEF StopCas
    <3>2. CASE StopFallThrough(th)
      <4>1. call[th].old = "PENDING_SCHEDULE"  BY <1>4, <3>2 DEF StopFallThrough, CallFits
      <4>2. "PENDING_SCHEDULE" \in Armed /\ "PENDING_STOP" \in PendingStop
        BY DEF Armed, PendingStop
      <4> QED BY <1>3, <3>2, <4>1, <4>2 DEF StopFallThrough
    <3> QED BY <1>21, <3>1, <3>2
  <2>2. \A l : Goto(th, l) => d.pc = l  BY <1>9, <1>16 DEF Goto, CallType
  <2>3. CASE state' = state /\ \E l \in {"stopFallThrough", "stop"} : Goto(th, l)
    BY <1>10, <1>15, <2>2, <2>3
  <2>4. CASE state[t] \in Armed /\ \E p \in PendingStop : state' = [state EXCEPT ![t] = p]
    <3>1. z \in PendingStop  BY <1>9, <1>16, <2>4
    <3> QED BY <1>9, <1>13, <2>4, <3>1
  <2> QED BY <2>1, <2>3, <2>4
<1>22. CASE DestroyFree(th)
  <2>1. state[t] = "DESTROY"  BY <1>4, <1>22 DEF DestroyFree, CallFits
  <2>2. z = "FREE"  BY <1>3, <1>9, <1>16, <1>22 DEF DestroyFree
  <2> QED BY <1>9, <1>14, <2>1, <2>2
<1> QED BY <1>17, <1>18, <1>19, <1>20, <1>21, <1>22 DEF PlainOp

(* tmTimerSetOptimizedStart ends a set. *)
LEMMA StartImplements ==
  ASSUME KInv, IInv', NEW th \in Threads, SetOptimizedStart(th)
  PROVE  Service!Next
<1> USE DEF KInv, KRest
<1>1. /\ call' = [call EXCEPT ![th] = Idle] /\ call[th].pc = "start"
      /\ expire' = [expire EXCEPT ![call[th].timer] = Wanted(th)]
      /\ UNCHANGED <<state, run, now>>
  BY DEF SetOptimizedStart, Leave, RunVars
<1>2. Busy(th)  BY <1>1 DEF Busy
<1>3. /\ call[th] \in CallType /\ call[th].timer \in Timers
      /\ CallFits(call[th], state[call[th].timer])
  BY <1>2, OwnFacts
<1>4. state[call[th].timer] = "ACTIVE"  BY <1>1, <1>3 DEF CallFits
<1>5. Moves(th, Idle, "ACTIVE")
  <2>1. state' = [state EXCEPT ![call[th].timer] = "ACTIVE"]
    BY <1>1, <1>4 DEF IInv, TimerInv
  <2>2. Goes(call[th], state[call[th].timer], Idle, "ACTIVE")
    BY <1>4 DEF Goes, States, SetExpire
  <2> QED BY <1>1, <2>1, <2>2 DEF Moves
<1>6. PICK t \in Timers :
        /\ t = call[th].timer /\ call'[th] = Idle /\ state'[t] = "ACTIVE" /\ run' = run
        /\ \A v \in Timers : v # t => state'[v] = state[v] /\ Phase(v)' = Phase(v)
        /\ Starting(t) <=> call[th].pc = "start"
        /\ Starting(t)' <=> Idle.pc = "start"
        /\ PhaseRight(t) /\ PhaseRight(t)'
  BY <1>2, <1>5, CallPhase
<1>7. Phase(t) = "setting"  BY <1>1, <1>4, <1>6 DEF PhaseRight
<1>8. Phase(t)' = "armed"  BY <1>6 DEF PhaseRight, Armed, Idle
<1>9. expire'[t] \in Times  BY <1>1, <1>6, WantedTimes DEF IInv, TimerInv
<1>10. Others(t)  BY <1>1, <1>6 DEF Others, IInv, TimerInv
<1>11. Service!EndSet(t)  BY <1>1, <1>7, <1>8, <1>9, <1>10, EndsSet
<1> QED BY <1>11 DEF Service!Next

(* Pushing a timer on the schedule list and draining the list are nothing to the
   users of the timers. *)
LEMMA LinkImplements ==
  ASSUME KInv, IInv', NEW th \in Threads,
         SetLink(th) \/ (Schedule(th) /\ th \in Emts /\ CanLock(th))
  PROVE  Stutters
<1>1. PICK l \in {"schedule", "write", "batch"} : Goto(th, l) /\ call[th].pc \in {"link", "schedule"}
                                                  /\ UNCHANGED <<state, expire, run, now>>
  BY DEF SetLink, Schedule, RunVars
<1>2. \A v : Starting(v)' <=> Starting(v)
  <2>1. \A v : Starting(v)' <=> \E u \in Threads : call'[u].pc = "start" /\ call'[u].timer = v
    BY DEF Starting
  <2>2. \A v : Starting(v) <=> \E u \in Threads : call[u].pc = "start" /\ call[u].timer = v
    BY DEF Starting
  <2>3. /\ call[th].pc # "start" /\ call'[th].pc # "start"
        /\ \A u \in Threads : u # th => call'[u] = call[u]
    BY <1>1 DEF Goto, KInv, IInv, CallInv, CallType
  <2> QED BY <2>1, <2>2, <2>3
<1>3. \A v \in Timers : Phase(v)' = Phase(v)
  BY <1>1, <1>2, PhasesAre, PhaseSame DEF KInv
<1> QED BY <1>1, <1>3, StutterIs

(* TMR3TimerDestroy takes effect when it marks the timer. *)
LEMMA MarkImplements ==
  ASSUME KInv, IInv', NEW th \in Threads, DestroyMark(th)
  PROVE  Stutters \/ Service!Next
<1> USE DEF KInv, KRest
<1> DEFINE d == [call[th] EXCEPT !.pc = "free"]
<1>1. /\ call' = [call EXCEPT ![th] = d] /\ call[th].pc = "mark"
      /\ state' = [state EXCEPT ![call[th].timer] = "DESTROY"]
      /\ UNCHANGED <<expire, run, now>>
  BY DEF DestroyMark, Goto, RunVars
<1>2. Busy(th)  BY <1>1 DEF Busy
<1>3. /\ call[th] \in CallType /\ call[th].timer \in Timers
      /\ state[call[th].timer] \in States
      /\ CallFits(call[th], state[call[th].timer])
      /\ state[call[th].timer] \in SetExpire => Sets(call[th])
      /\ state[call[th].timer] = "DESTROY" => At(th, "free")
  BY <1>2, OwnFacts
<1>4. d \in CallType /\ d.pc = "free" /\ d.timer = call[th].timer
  BY <1>3 DEF CallType, CallPcs
<1> HIDE DEF d
<1>5. run.pc \in {"idle", "lock", "callback"}
  <2>1. CanLock(th)  BY <1>1, OwnerIs DEF CanLock, OwningPcs
  <2> QED BY <1>1, <1>2, <2>1, OneIdle
<1>6. state[call[th].timer] \notin SetExpire \cup {"EXPIRED_GET_UNLINK"}
  BY <1>1, <1>3, <1>5 DEF Sets, StatesFit, StateFits
<1>7. \E t \in Timers :
        /\ t = call[th].timer
        /\ ~ Starting(t) /\ state'[t] = "DESTROY"
        /\ \A v \in Timers : v # t => Phase(v)' = Phase(v)
  <2>1. PICK t \in Timers :
          /\ t = call[th].timer
          /\ \A u \in Threads : Busy(u) /\ u # th => call[u].timer # t
    BY <1>2, <1>3 DEF Serial
  <2>2. /\ call'[th] = d /\ \A u \in Threads : u # th => call'[u] = call[u]
        /\ state'[t] = "DESTROY" /\ \A v \in Timers : v # t => state'[v] = state[v]
    BY <1>1, <2>1 DEF IInv, CallInv, TimerInv
  <2>3. \A v : Starting(v)' <=> \E u \in Threads : call'[u].pc = "start" /\ call'[u].timer = v
    BY DEF Starting
  <2>4. \A v : Starting(v) <=> \E u \in Threads : call[u].pc = "start" /\ call[u].timer = v
    BY DEF Starting
  <2>5. \A v : Starting(v)' <=> Starting(v)  BY <1>1, <1>4, <2>2, <2>3, <2>4
  <2>6. ~ Starting(t)  BY <1>1, <2>1, <2>4 DEF Busy
  <2>7. \A v \in Timers : v # t => Phase(v)' = Phase(v)  BY <2>2, <2>5, PhasesAre, PhaseSame
  <2> QED BY <2>1, <2>2, <2>6, <2>7
<1>8. PICK t \in Timers :
        /\ t = call[th].timer
        /\ ~ Starting(t) /\ state'[t] = "DESTROY"
        /\ \A v \in Timers : v # t => Phase(v)' = Phase(v)
  BY <1>7
<1>9. PhaseRight(t) /\ PhaseRight(t)'  BY PhasesAre
<1>10. Phase(t)' = "free" /\ Phase(t) # "setting"
  BY <1>6, <1>8, <1>9 DEF PhaseRight
<1>11. Others(t)  BY <1>1, <1>8 DEF Others
<1>12. CASE Phase(t) = "free"  BY <1>1, <1>8, <1>10, <1>12, StutterIs
<1>13. CASE Phase(t) # "free"
  <2>1. Service!Destroy(t)  BY <1>1, <1>10, <1>11, <1>13, Destroys
  <2> QED BY <2>1 DEF Service!Next
<1> QED BY <1>12, <1>13

LEMMA BeginImplements ==
  ASSUME KInv, IInv', NEW th \in Threads, Begin(th)
  PROVE  Stutters \/ Service!Next
<1> USE DEF KInv, KRest
<1>1. CASE TMR3TimerCreate(th)
  <2>1. PICK t \in Timers :
          /\ state[t] = "FREE" /\ state' = [state EXCEPT ![t] = "STOPPED"]
          /\ expire' = [expire EXCEPT ![t] = 0]
          /\ UNCHANGED <<run, call, now>>
    BY <1>1 DEF TMR3TimerCreate
  <2>2. /\ state'[t] = "STOPPED"
        /\ \A v \in Timers : v # t => state'[v] = state[v] /\ expire'[v] = expire[v]
    BY <2>1 DEF IInv, TimerInv
  <2>3. \A v : Starting(v)' <=> Starting(v)  BY <2>1 DEF Starting
  <2>4. \A v \in Timers : PhaseRight(v) /\ PhaseRight(v)'  BY PhasesAre
  <2>5. \A v \in Timers : v # t => Phase(v)' = Phase(v)  BY <2>2, <2>3, <2>4, PhaseSame
  <2>6. Phase(t) = "free" /\ Phase(t)' = "idle"  BY <2>1, <2>2, <2>4 DEF PhaseRight
  <2>7. Service!Create(t)  BY <2>1, <2>2, <2>5, <2>6, Creates DEF Others
  <2> QED BY <2>7 DEF Service!Next
<1>2. CASE ~ TMR3TimerCreate(th)
  <2>1. PICK t \in Timers :
          /\ \E op, x, l :
               /\ call' = [call EXCEPT ![th] = [pc |-> l, op |-> op, timer |-> t, arg |-> x,
                                                 old |-> "STOPPED", own |-> FALSE]]
               /\ l # "start"
          /\ ~ Busy(th) /\ UNCHANGED <<state, expire, run, now>>
    BY <1>2, BeginCalls DEF Call, Busy
  <2>2. /\ call'[th].pc # "start" /\ call[th].pc # "start"
        /\ \A u \in Threads : u # th => call'[u] = call[u]
    BY <2>1 DEF IInv, CallInv, Busy
  <2>3. \A v : Starting(v)' <=> \E u \in Threads : call'[u].pc = "start" /\ call'[u].timer = v
    BY DEF Starting
  <2>4. \A v : Starting(v) <=> \E u \in Threads : call[u].pc = "start" /\ call[u].timer = v
    BY DEF Starting
  <2>5. \A v : Starting(v)' <=> Starting(v)  BY <2>2, <2>3, <2>4
  <2>6. \A v \in Timers : Phase(v)' = Phase(v)  BY <2>1, <2>5, PhasesAre, PhaseSame
  <2> QED BY <2>1, <2>6, StutterIs
<1> QED BY <1>1, <1>2

(* The steps of the scheduling and of the runner. *)

LEMMA BatchImplements ==
  ASSUME KInv, IInv', Batch
  PROVE  Stutters
<1> USE DEF KInv, KRest
<1>1. UNCHANGED <<call, run, now, expire>> /\ \A th \in Threads : call[th].pc # "start"
  BY BatchFrame
<1>2. \A v : ~ Starting(v) /\ ~ Starting(v)'  BY <1>1 DEF Starting
<1>3. \A v \in Timers : PhaseRight(v) /\ PhaseRight(v)'  BY PhasesAre
<1>4. \A v \in Timers : Phase(v)' = Phase(v)
  <2>1. CASE ScheduleOneCas
    <3>1. PICK t \in Timers :
            /\ state[t] \in Pending \ SetExpire
            /\ state' = [state EXCEPT ![t] = Scheduled(state[t])]
      BY <2>1 DEF ScheduleOneCas, IInv, OneInv, OneLocals
    <3>2. /\ state'[t] = Scheduled(state[t]) /\ \A v \in Timers : v # t => state'[v] = state[v]
      BY <3>1 DEF IInv, TimerInv
    <3>3. \/ state[t] \in Armed /\ state'[t] \in Armed
          \/ state[t] \in PendingStop /\ state'[t] \in PendingStop \cup {"STOPPED"}
      BY <3>1, <3>2 DEF Scheduled, Pending, PendingScheduling, PendingStop, SetExpire, Armed
    <3>4. PhaseRight(t) /\ PhaseRight(t)' /\ ~ Starting(t) /\ ~ Starting(t)'  BY <1>2, <1>3
    <3>5. Phase(t)' = Phase(t)  BY <3>3, <3>4 DEF PhaseRight
    <3>6. \A v \in Timers : v # t => Phase(v)' = Phase(v)  BY <1>2, <1>3, <3>2, PhaseSame
    <3> QED BY <3>5, <3>6
  <2>2. CASE ~ ScheduleOneCas
    <3>1. state' = state
      BY <2>2 DEF Batch, BatchNext, BatchEnd, ScheduleOneRead, ScheduleOneRetry, ScheduleOneLink
    <3> QED BY <1>2, <1>3, <3>1, PhaseSame
  <2> QED BY <2>1, <2>2
<1> QED BY <1>1, <1>4, StutterIs

(* What a step that moves neither the calls nor the states keeps. *)
LEMMA SamePhases ==
  ASSUME KInv, IInv', UNCHANGED <<call, state>>
  PROVE  \A v \in Timers : Phase(v)' = Phase(v)
<1>1. \A v : Starting(v)' <=> Starting(v)  BY DEF Starting
<1> QED BY <1>1, PhasesAre, PhaseSame DEF KInv

(* A step of the runner that moves the state of its timer. *)
LEMMA RunPhase ==
  ASSUME KInv, IInv', NEW t \in Timers, NEW z, state' = [state EXCEPT ![t] = z],
         call' = call, \A th \in Threads : call[th].pc # "start"
  PROVE  /\ state'[t] = z /\ ~ Starting(t) /\ ~ Starting(t)'
         /\ PhaseRight(t) /\ PhaseRight(t)'
         /\ \A v \in Timers : v # t => Phase(v)' = Phase(v)
<1>1. state'[t] = z /\ \A v \in Timers : v # t => state'[v] = state[v]
  BY DEF KInv, IInv, TimerInv
<1>2. \A v : ~ Starting(v) /\ ~ Starting(v)'  BY DEF Starting
<1>3. \A v \in Timers : PhaseRight(v) /\ PhaseRight(v)'  BY PhasesAre DEF KInv
<1>4. \A v \in Timers : v # t => Phase(v)' = Phase(v)  BY <1>1, <1>2, <1>3, PhaseSame
<1> QED BY <1>1, <1>2, <1>3, <1>4

LEMMA RunnerImplements ==
  ASSUME KInv, IInv', Runner
  PROVE  Stutters \/ Service!Next
<1> USE DEF KInv, KRest
<1>0. run \in RunType /\ now' = now /\ call' = call /\ expire' = expire
  <2>1. run \in RunType  BY DEF IInv, RunInv
  <2>2. CASE ~ QueueRunHead
    BY <2>1, <2>2
       DEF Runner, QueuesDo, QueuesLock, QueuesSchedule, QueueRunCheck, QueueRunEnter,
           QueueRunTry, QueueRunUnlink, QueueRunCallbackDone, QueuesDone
  <2>3. CASE QueueRunHead  BY <2>1, <2>3 DEF QueueRunHead
  <2> QED BY <2>2, <2>3
<1>1. ASSUME run.pc # "callback" /\ run'.pc # "callback", state' = state
      PROVE  Stutters
  <2>1. \A v \in Timers : Phase(v)' = Phase(v)  BY <1>0, <1>1, SamePhases
  <2> QED BY <1>0, <1>1, <2>1, StutterIs
<1>2. CASE QueueRunTry /\ state[run.timer] = "ACTIVE"
  <2>1. PICK t \in Timers :
          /\ t = run.timer /\ state[t] = "ACTIVE"
          /\ state' = [state EXCEPT ![t] = "EXPIRED_GET_UNLINK"]
    BY <1>2 DEF QueueRunTry, IInv, RunInv, RunLocals
  <2>2. run.pc = "try" /\ run' = [run EXCEPT !.pc = "unlink"]
    BY <1>2 DEF QueueRunTry
  <2>3. run'.pc = "unlink"  BY <1>0, <2>2 DEF RunType
  <2>4. \A th \in Threads : call[th].pc # "start"  BY <2>2, RunnerAlone DEF OwningPcs
  <2>5. /\ state'[t] = "EXPIRED_GET_UNLINK" /\ ~ Starting(t)
        /\ PhaseRight(t) /\ PhaseRight(t)'
        /\ \A v \in Timers : v # t => Phase(v)' = Phase(v)
    BY <1>0, <2>1, <2>4, RunPhase
  <2>6. Phase(t) = "armed" /\ Phase(t)' = "expired"  BY <2>1, <2>5 DEF PhaseRight, Armed
  <2>7. expire[t] <= now
    <3>1. expire[t] <= run.now /\ run.now <= now  BY <2>1, <2>2 DEF TimeInv
    <3>2. expire[t] \in Nat /\ run.now \in Nat /\ now \in Nat
      BY <1>0 DEF IInv, TimerInv, MiscInv, RunType
    <3> QED BY <3>1, <3>2
  <2>8. Service!Expire(t)  BY <1>0, <2>2, <2>3, <2>5, <2>6, <2>7, Expires DEF Others
  <2> QED BY <2>8 DEF Service!Next
<1>3. CASE QueueRunUnlink
  <2>1. PICK t \in Timers :
          /\ t = run.timer /\ state[t] = "EXPIRED_GET_UNLINK"
          /\ state' = [state EXCEPT ![t] = "EXPIRED_DELIVER"]
    BY <1>3 DEF QueueRunUnlink, Deliver, IInv, RunInv, RunLocals, StatesFit
  <2>2. run.pc = "unlink" /\ run' = [run EXCEPT !.pc = "callback"]
    BY <1>3 DEF QueueRunUnlink
  <2>3. run'.pc = "callback" /\ run'.timer = t  BY <1>0, <2>1, <2>2 DEF RunType
  <2>4. \A th \in Threads : call[th].pc # "start"  BY <2>2, RunnerAlone DEF OwningPcs
  <2>5. /\ state'[t] = "EXPIRED_DELIVER"
        /\ PhaseRight(t) /\ PhaseRight(t)'
        /\ \A v \in Timers : v # t => Phase(v)' = Phase(v)
    BY <1>0, <2>1, <2>4, RunPhase
  <2>6. Phase(t) = "expired" /\ Phase(t)' = "expired"  BY <2>1, <2>5 DEF PhaseRight
  <2>7. \A v \in Timers : Phase(v)' = Phase(v)  BY <2>5, <2>6
  <2>8. Service!Deliver(t)  BY <1>0, <2>2, <2>3, <2>6, <2>7, Delivers
  <2> QED BY <2>8 DEF Service!Next
<1>4. CASE QueueRunCallbackDone
  <2>1. PICK t \in Timers :
          t = run.timer /\ state' = [state EXCEPT ![t] = AfterCallback(state[t])]
    BY <1>4 DEF QueueRunCallbackDone, IInv, RunInv, RunLocals
  <2>2. /\ run.pc = "callback" /\ run' = [run EXCEPT !.pc = "check", !.timer = NoTimer]
        /\ ~ Busy(TimerEmt)
    BY <1>4 DEF QueueRunCallbackDone, RunIdle, Busy
  <2>3. run'.pc = "check"  BY <1>0, <2>2 DEF RunType
  <2>4. \A th \in Threads : call[th].pc # "start"
    <3>1. tmOwner = TimerEmt  BY <2>2, OwnerIs
    <3> QED BY <2>2, <3>1, OwnerIs DEF OwningPcs, Busy
  <2>5. /\ state'[t] = AfterCallback(state[t]) /\ ~ Starting(t) /\ ~ Starting(t)'
        /\ PhaseRight(t) /\ PhaseRight(t)'
        /\ \A v \in Timers : v # t => Phase(v)' = Phase(v)
    BY <1>0, <2>1, <2>4, RunPhase
  <2>6. state[t] # "EXPIRED_GET_UNLINK"  BY <2>2 DEF StatesFit, StateFits
  <2>7. Phase(t)' = IF Phase(t) = "expired" THEN "idle" ELSE Phase(t)
    <3>1. CASE state[t] = "EXPIRED_DELIVER"
      <4>1. state'[t] = "STOPPED"  BY <2>5, <3>1 DEF AfterCallback
      <4> QED BY <2>5, <3>1, <4>1 DEF PhaseRight
    <3>2. CASE state[t] # "EXPIRED_DELIVER"
      <4>1. state'[t] = state[t]  BY <2>5, <3>2 DEF AfterCallback
      <4>2. Phase(t) # "expired"  BY <2>5, <2>6, <3>2 DEF PhaseRight
      <4>3. Phase(t)' = Phase(t)  BY <2>5, <4>1, PhaseSame
      <4> QED BY <4>2, <4>3
    <3> QED BY <3>1, <3>2
  <2>8. t # NoTimer  BY NoneAssumption
  <2>9. Service!Return(t)  BY <1>0, <2>1, <2>2, <2>3, <2>5, <2>7, <2>8, Returns
  <2> QED BY <2>9 DEF Service!Next
<1>5. CASE ~ \/ QueueRunTry /\ state[run.timer] = "ACTIVE"
             \/ QueueRunUnlink \/ QueueRunCallbackDone
  <2>1. state' = state
    BY <1>5 DEF Runner, QueuesDo, QueuesLock, QueuesSchedule, QueueRunHead, QueueRunCheck,
                QueueRunEnter, QueueRunTry, QueuesDone
  <2>2. /\ run.pc # "callback"
        /\ \/ \E l \in {"lock", "schedule", "try", "idle"} : run' = [run EXCEPT !.pc = l]
           \/ run' = [run EXCEPT !.pc = "head"]
           \/ \E x, y : run' = [run EXCEPT !.pc = "check", !.now = x, !.next = y]
           \/ \E x, y : run' = [run EXCEPT !.pc = "crit", !.timer = x, !.next = y]
           \/ run' = NoRun("done")
           \/ \E x : run' = [run EXCEPT !.pc = "check", !.timer = x]
    <3>1. CASE QueuesDo \/ QueuesLock \/ QueuesSchedule \/ QueueRunEnter \/ QueuesDone
      BY <3>1 DEF QueuesDo, QueuesLock, QueuesSchedule, QueueRunEnter, QueuesDone
    <3>2. CASE QueueRunHead  BY <3>2 DEF QueueRunHead
    <3>3. CASE QueueRunCheck  BY <3>3 DEF QueueRunCheck
    <3>4. CASE QueueRunTry  BY <1>5, <3>4 DEF QueueRunTry
    <3> QED BY <1>5, <3>1, <3>2, <3>3, <3>4 DEF Runner
  <2>3. run'.pc # "callback"
    <3>1. (\A l : [run EXCEPT !.pc = l].pc = l) /\ NoRun("done").pc = "done"
      BY <1>0 DEF RunType, NoRun
    <3>2. CASE \E l \in {"lock", "schedule", "try", "idle"} : run' = [run EXCEPT !.pc = l]
      <4>1. PICK l \in {"lock", "schedule", "try", "idle"} : run' = [run EXCEPT !.pc = l]  BY <3>2
      <4>2. run'.pc = l  BY <3>1, <4>1, Zenon
      <4> QED BY <4>1, <4>2
    <3>3. CASE run' = [run EXCEPT !.pc = "head"]
      <4>1. run'.pc = "head"  BY <3>1, <3>3, Zenon
      <4> QED BY <4>1
    <3>4. CASE \E x, y : run' = [run EXCEPT !.pc = "check", !.now = x, !.next = y]
      <4>1. PICK x, y : run' = [run EXCEPT !.pc = "check", !.now = x, !.next = y]  BY <3>4
      <4>2. run'.pc = "check"  BY <1>0, <4>1 DEF RunType
      <4> QED BY <4>2
    <3>5. CASE \E x, y : run' = [run EXCEPT !.pc = "crit", !.timer = x, !.next = y]
      <4>1. PICK x, y : run' = [run EXCEPT !.pc = "crit", !.timer = x, !.next = y]  BY <3>5
      <4>2. run'.pc = "crit"  BY <1>0, <4>1 DEF RunType
      <4> QED BY <4>2
    <3>7. CASE \E x : run' = [run EXCEPT !.pc = "check", !.timer = x]
      <4>1. PICK x : run' = [run EXCEPT !.pc = "check", !.timer = x]  BY <3>7
      <4>2. run'.pc = "check"  BY <1>0, <4>1 DEF RunType
      <4> QED BY <4>2
    <3>6. CASE run' = NoRun("done")
      <4>1. run'.pc = "done"  BY <3>1, <3>6, Zenon
      <4> QED BY <4>1
    <3> QED BY <2>2, <3>2, <3>3, <3>4, <3>5, <3>6, <3>7
  <2> QED BY <1>1, <2>1, <2>2, <2>3
<1> QED BY <1>2, <1>3, <1>4, <1>5

LEMMA NextImplements ==
  ASSUME KInv, IInv', [Next]_vars
  PROVE  [Service!Next]_(Service!vars)
<1> SUFFICES Stutters \/ Service!Next  BY DEF Stutters
<1>1. ASSUME NEW th \in Threads, Begin(th) PROVE Stutters \/ Service!Next
  BY <1>1, BeginImplements
<1>2. ASSUME NEW th \in Threads, Step(th) PROVE Stutters \/ Service!Next
  BY <1>2, PlainImplements, StartImplements, LinkImplements, MarkImplements DEF Step, PlainOp
<1>3. CASE Batch  BY <1>3, BatchImplements
<1>4. CASE Runner  BY <1>4, RunnerImplements
<1>5. CASE Tick
  <2>1. UNCHANGED <<call, state, expire, run>> /\ now' = now + 1  BY <1>5 DEF Tick
  <2>2. \A v \in Timers : Phase(v)' = Phase(v)  BY <2>1, SamePhases
  <2>3. UNCHANGED <<[t \in Timers |-> Phase(t)],
                    [t \in Timers |-> IF Phase(t) = "armed" THEN expire[t] ELSE 0],
                    IF run.pc = "callback" THEN run.timer ELSE NoTimer>>
    BY <2>1, <2>2
  <2>4. Service!Tick  BY <2>1, <2>3 DEF Service!Tick
  <2> QED BY <2>4 DEF Service!Next
<1>6. CASE TimerCallback \/ UNCHANGED vars
  <2>1. UNCHANGED <<call, state, expire, run, now>>  BY <1>6 DEF TimerCallback, vars
  <2>2. \A v \in Timers : Phase(v)' = Phase(v)  BY <2>1, SamePhases
  <2> QED BY <2>1, <2>2, StutterIs
<1> QED BY <1>1, <1>2, <1>3, <1>4, <1>5, <1>6 DEF Next

(* However the calls interleave with the scheduling and the running of the queue,
   TM behaves as the timer service: a timer fires only for its last set, not before
   it is due, one callback at a time, and never once it was stopped or destroyed. *)
THEOREM ImplementsTimers == Spec => ImplementsService
<1>1. Init => Service!Init
  <2> SUFFICES ASSUME Init PROVE Service!Init  OBVIOUS
  <2>1. IInv  BY InitIInv
  <2>2. \A t \in Timers : state[t] = "STOPPED"  BY DEF Init
  <2>3. \A t \in Timers : Phase(t) = "idle"
    <3>1. \A t \in Timers : PhaseRight(t)  BY <2>1, PhaseIs DEF IInv, TimerInv
    <3> QED BY <2>2, <3>1 DEF PhaseRight
  <2>4. [t \in Timers |-> Phase(t)] = [t \in Timers |-> "idle"]  BY <2>3
  <2>5. [t \in Timers |-> IF Phase(t) = "armed" THEN expire[t] ELSE 0] = [t \in Timers |-> 0]
    BY <2>3
  <2>6. run.pc = "idle" /\ now = 0  BY DEF Init, NoRun
  <2> QED BY <2>4, <2>5, <2>6 DEF Service!Init
<1>2. KInv /\ KInv' /\ [Next]_vars => [Service!Next]_(Service!vars)
  BY NextImplements DEF KInv
<1> QED BY <1>1, <1>2, ListsAgree, PTL DEF Spec, ImplementsService, Service!Spec
=============================================================================
