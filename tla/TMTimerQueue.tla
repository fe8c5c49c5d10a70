---------------------------- MODULE TMTimerQueue ----------------------------
(***************************************************************************)
(* The timer queues of the time manager (TM), for one clock other than the *)
(* virtual sync one: VBox/VMM/VMMAll/TMAll.cpp, VBox/VMM/VMMR3/TM.cpp,     *)
(* VBox/VMM/include/TMInternal.h and TMInline.h.                           *)
(*                                                                         *)
(* Any thread may arm, re-arm, stop or destroy a timer.  A thread that     *)
(* does not own the TM lock changes only the state and the expire time of  *)
(* the timer, with compare-and-swap, and pushes the timer on the lock-free *)
(* schedule list; whoever owns the TM lock drains that list and edits the  *)
(* active list, which the dedicated timer EMT walks to fire what is due.   *)
(* Each action is one step between two points where another thread can     *)
(* see or change what the step touches.                                    *)
(***************************************************************************)
EXTENDS Integers, Sequences, FiniteSets

CONSTANTS
  Timers,      \* the timers of the queue
  Threads,     \* the threads that call the timer API
  Emts,        \* those that are emulation threads (VM_IS_EMT)
  TimerEmt,    \* the EMT of idTimerCpu, the only one that runs the queue
  NoThread,
  NoTimer,
  NoCrit,
  CritOf,      \* TMTIMER::pCritSect of each timer, NoCrit when it has none
  Does,        \* the API calls each thread makes
  DestroyFrom, \* the states in which a timer is handed to TMR3TimerDestroy
  Retries,     \* cRetries of tmTimerQueueScheduleOne
  MaxTime,     \* bound on the clock
  ExpireTimes, \* expire times passed to TMTimerSet
  Ticks,       \* deltas passed to TMTimerSetRelative
  MaxOps       \* bound on the number of API calls

Calls == {"Set", "SetRelative", "Stop", "Destroy", "Create"}

ASSUME EmtAssumption == Emts \subseteq Threads /\ TimerEmt \in Emts
ASSUME NoneAssumption == NoThread \notin Threads /\ NoTimer \notin Timers
ASSUME CallAssumption == Does \in [Threads -> SUBSET Calls]
ASSUME CritAssumption == DOMAIN CritOf = Timers
ASSUME BoundAssumption == /\ Retries \in Nat /\ MaxTime \in Nat /\ MaxOps \in Nat
                          /\ ExpireTimes \subseteq Nat /\ Ticks \subseteq Nat

Never == -1    \* INT64_MAX, the expire time of a queue with an empty active list

VARIABLES
  state,       \* TMTIMER::enmState
  expire,      \* TMTIMER::u64Expire
  schedule,    \* TMTIMERQUEUE::offSchedule and offScheduleNext, newest first
  batch,       \* what tmTimerQueueSchedule took off it and has yet to process
  one,         \* the locals of tmTimerQueueScheduleOne
  active,      \* TMTIMERQUEUE::offActive, the doubly linked list of offNext
  queueExpire, \* TMTIMERQUEUE::u64Expire
  tmOwner,     \* owner of TM::TimerCritSect
  tmNest,      \* and how many times it has entered it
  ff,          \* VMCPU_FF_TIMER of the timer EMT
  running,     \* TM::fRunningQueues
  run,         \* the locals of tmR3TimerQueueRun
  call,        \* the API call each thread is in, and its locals
  now,         \* the clock
  ops,         \* number of API calls made
  abandoned    \* history: timers tmTimerQueueScheduleOne gave up on

vars == <<state, expire, schedule, batch, one, active, queueExpire, tmOwner,
          tmNest, ff, running, run, call, now, ops, abandoned>>

States == {"STOPPED", "ACTIVE", "EXPIRED_GET_UNLINK", "EXPIRED_DELIVER",
           "PENDING_STOP", "PENDING_STOP_SCHEDULE", "PENDING_SCHEDULE_SET_EXPIRE",
           "PENDING_SCHEDULE", "PENDING_RESCHEDULE_SET_EXPIRE",
           "PENDING_RESCHEDULE", "DESTROY", "FREE"}

SetExpire == {"PENDING_SCHEDULE_SET_EXPIRE", "PENDING_RESCHEDULE_SET_EXPIRE"}
\* States a call waits out, yielding the CPU
Transitional == SetExpire \cup {"EXPIRED_GET_UNLINK"}
Armed == {"ACTIVE", "PENDING_SCHEDULE", "PENDING_RESCHEDULE"}
\* TMTIMERSTATE_IS_PENDING_SCHEDULING
PendingScheduling == SetExpire \cup {"PENDING_SCHEDULE", "PENDING_RESCHEDULE"}
PendingStop == {"PENDING_STOP", "PENDING_STOP_SCHEDULE"}
\* "Currently in the ScheduleTimers list"
Pending == PendingScheduling \cup PendingStop
\* "Currently in ... the active list"
Linked == {"ACTIVE", "PENDING_STOP", "PENDING_RESCHEDULE", "PENDING_RESCHEDULE_SET_EXPIRE"}

\* pc: the step the call is at; old: enmState, the timer state last read;
\* own: fOwnTMLock.
Idle == [pc |-> "idle", op |-> "none", timer |-> NoTimer, arg |-> 0,
         old |-> "STOPPED", own |-> FALSE]

NoOne(l) == [pc |-> l, timer |-> NoTimer, old |-> "STOPPED", tries |-> 0]
NoRun(l) == [pc |-> l, timer |-> NoTimer, next |-> NoTimer, now |-> 0]

Init ==
  /\ state = [t \in Timers |-> "STOPPED"]
  /\ expire = [t \in Timers |-> 0]
  /\ schedule = <<>> /\ batch = <<>> /\ active = <<>>
  /\ one = NoOne("idle")
  /\ queueExpire = Never
  /\ tmOwner = NoThread /\ tmNest = 0
  /\ ff = FALSE /\ running = FALSE
  /\ run = NoRun("idle")
  /\ call = [th \in Threads |-> Idle]
  /\ now = 0 /\ ops = 0 /\ abandoned = {}

At(th, l) == call[th].pc = l
Goto(th, l) == call' = [call EXCEPT ![th].pc = l]
\* Remember the state just read, or having got the TM lock, and go on.
GotoWith(th, l, s) == call' = [call EXCEPT ![th].pc = l, ![th].old = s]
GotoOwning(th, l) == call' = [call EXCEPT ![th].pc = l, ![th].own = TRUE]
Leave(th) == call' = [call EXCEPT ![th] = Idle]

-----------------------------------------------------------------------------
(* The TM lock and the critical sections of the timers. *)

CanLock(th) == tmOwner \in {NoThread, th}

Lock(th) == CanLock(th) /\ tmOwner' = th /\ tmNest' = tmNest + 1

Unlock == /\ tmNest' = tmNest - 1
          /\ tmOwner' = IF tmNest = 1 THEN NoThread ELSE tmOwner

\* A caller owns the timer's critical section for the whole call
\* (TMTIMER_ASSERT_CRITSECT); the runner from the "try" step to the end of the
\* callback.
OwnsCrit(th, c) ==
  \/ ~ At(th, "idle") /\ CritOf[call[th].timer] = c
  \/ th = TimerEmt /\ run.pc \in {"try", "unlink", "callback"} /\ CritOf[run.timer] = c

CanEnterCrit(th, t) ==
  CritOf[t] # NoCrit => \A u \in Threads \ {th} : ~ OwnsCrit(u, CritOf[t])

-----------------------------------------------------------------------------
(* The active list. *)

InActive(t) == \E i \in DOMAIN active : active[i] = t

\* Where tmTimerQueueLinkActive links a timer: before the first one that
\* expires later, else last.
LinkPos(e) ==
  LET later == {i \in DOMAIN active : expire[active[i]] > e}
  IN  IF later = {} THEN Len(active) + 1
      ELSE CHOOSE i \in later : \A j \in later : i <= j

\* Mutant: the cached expire time is set for the first timer only.
LinkActiveNoCache(t, e) ==
  /\ active' = SubSeq(active, 1, LinkPos(e) - 1) \o <<t>>
                 \o SubSeq(active, LinkPos(e), Len(active))
  /\ queueExpire' = IF active = <<>> THEN e ELSE queueExpire

LinkActive(t, e) ==
  /\ active' = SubSeq(active, 1, LinkPos(e) - 1) \o <<t>>
                 \o SubSeq(active, LinkPos(e), Len(active))
  /\ queueExpire' = IF LinkPos(e) = 1 THEN e ELSE queueExpire

\* TMTIMER_GET_NEXT
NextOf(t) ==
  IF \E i \in 1..(Len(active) - 1) : active[i] = t
  THEN active[(CHOOSE i \in 1..(Len(active) - 1) : active[i] = t) + 1]
  ELSE NoTimer

ExpireOf(t) == IF t = NoTimer THEN Never ELSE expire[t]

\* What is linked before a timer, and from a timer on.
Index(t) == CHOOSE i \in DOMAIN active : active[i] = t
Before(t) == IF InActive(t) THEN SubSeq(active, 1, Index(t) - 1) ELSE <<>>
From(t) == IF InActive(t) THEN SubSeq(active, Index(t), Len(active)) ELSE <<>>

\* Unlinks a timer, given its next one.  A timer with no previous one is taken
\* to be the head: if it is not in the list at all, the head becomes NULL.
Unlink(t, next) ==
  /\ active' = Before(t) \o From(next)
  /\ queueExpire' = IF Before(t) = <<>> THEN ExpireOf(next) ELSE queueExpire

\* tmTimerQueueUnlinkActive
UnlinkActive(t) == Unlink(t, NextOf(t))

-----------------------------------------------------------------------------
(* Making an API call. *)

\* The guest or device code that calls: the timer is alive, no other call on it
\* is in progress ("this isn't supported for any timers, critsect or not"), and
\* the timer EMT calls either outside TMR3TimerQueuesDo or from a callback.
Call(th, op, t, x, l) ==
  /\ At(th, "idle") /\ op \in Does[th] /\ ops < MaxOps
  /\ th = TimerEmt => run.pc \in {"idle", "callback"}
  /\ \A u \in Threads : ~ At(u, "idle") => call[u].timer # t
  /\ CanEnterCrit(th, t)
  /\ ops' = ops + 1
  /\ call' = [call EXCEPT ![th] = [pc |-> l, op |-> op, timer |-> t, arg |-> x,
                                    old |-> "STOPPED", own |-> FALSE]]
  /\ UNCHANGED <<state, expire, schedule, batch, one, active, queueExpire, tmOwner,
                 tmNest, ff, running, run, now, abandoned>>

Alive(t) == state[t] \notin {"DESTROY", "FREE"}

TMTimerSet(th) == \E t \in Timers, e \in ExpireTimes :
  Alive(t) /\ Call(th, "Set", t, e, "probe")

TMTimerSetRelative(th) == \E t \in Timers, d \in Ticks :
  Alive(t) /\ Call(th, "SetRelative", t, d, "relative")

TMTimerStop(th) == \E t \in Timers :
  Alive(t) /\ Call(th, "Stop", t, 0, "stop")

TMR3TimerDestroy(th) == \E t \in Timers :
  state[t] \in DestroyFrom /\ Call(th, "Destroy", t, 0, "destroy")

\* tmr3TimerCreate, which takes a timer off the free list.
TMR3TimerCreate(th) == \E t \in Timers :
  /\ th \in Emts /\ state[t] = "FREE" /\ CanLock(th)
  /\ At(th, "idle") /\ "Create" \in Does[th] /\ ops < MaxOps
  /\ th = TimerEmt => run.pc \in {"idle", "callback"}
  /\ state' = [state EXCEPT ![t] = "STOPPED"]
  /\ expire' = [expire EXCEPT ![t] = 0]
  /\ ops' = ops + 1
  /\ abandoned' = abandoned \ {t}
  /\ UNCHANGED <<schedule, batch, one, active, queueExpire, tmOwner, tmNest, ff,
                 running, run, call, now>>

-----------------------------------------------------------------------------
(* TMTimerSet and TMTimerSetRelative. *)

RunVars == <<ff, running, run, now>>
LockVars == <<tmOwner, tmNest>>
ActiveVars == <<active, queueExpire>>
ListVars == <<schedule, batch, one, abandoned>>

\* TMTimerSet: the common cases, a callback that sets its timer again and the
\* start of a stopped timer.
SetProbe(th) ==
  LET t == call[th].timer
      common == state[t] = "EXPIRED_DELIVER" \/ (state[t] = "STOPPED" /\ CritOf[t] # NoCrit)
  IN  /\ At(th, "probe")
      /\ GotoWith(th, IF common THEN "trylock" ELSE "read", state[t])
      /\ UNCHANGED <<state, expire, ops, RunVars, LockVars, ActiveVars, ListVars>>

SetTryLock(th) ==
  /\ At(th, "trylock")
  /\ IF CanLock(th) THEN Lock(th) /\ Goto(th, "optimize")
                    ELSE UNCHANGED LockVars /\ Goto(th, "read")
  /\ UNCHANGED <<state, expire, ops, RunVars, ActiveVars, ListVars>>

SetOptimize(th) ==
  LET t == call[th].timer
  IN  /\ At(th, "optimize")
      /\ IF state[t] = call[th].old
         THEN /\ state' = [state EXCEPT ![t] = "ACTIVE"]
              /\ Goto(th, "start") /\ UNCHANGED LockVars
         ELSE Unlock /\ Goto(th, "read") /\ UNCHANGED state
      /\ UNCHANGED <<expire, ops, RunVars, ActiveVars, ListVars>>

\* TMTimerSetRelative tries for the TM lock first and keeps it to the end.
SetRelative(th) ==
  /\ At(th, "relative")
  /\ IF CanLock(th)
     THEN /\ Lock(th)
          /\ GotoOwning(th, IF CritOf[call[th].timer] # NoCrit THEN "optimizeRelative" ELSE "read")
     ELSE UNCHANGED LockVars /\ Goto(th, "read")
  /\ UNCHANGED <<state, expire, ops, RunVars, ActiveVars, ListVars>>

SetRelativeOptimize(th) ==
  LET t == call[th].timer
  IN  /\ At(th, "optimizeRelative")
      /\ IF state[t] \in {"EXPIRED_DELIVER", "STOPPED"}
         THEN state' = [state EXCEPT ![t] = "ACTIVE"] /\ Goto(th, "start")
         ELSE Goto(th, "read") /\ UNCHANGED state
      /\ UNCHANGED <<expire, ops, RunVars, LockVars, ActiveVars, ListVars>>

\* The expire time asked for, computed from the clock for a relative one.
Wanted(th) == IF call[th].op = "Set" THEN call[th].arg ELSE now + call[th].arg

\* tmTimerSetOptimizedStart, tmTimerSetRelativeOptimizedStart
SetOptimizedStart(th) ==
  LET t == call[th].timer
  IN  /\ At(th, "start")
      /\ expire' = [expire EXCEPT ![t] = Wanted(th)]
      /\ LinkActive(t, Wanted(th))
      /\ Unlock
      /\ Leave(th)
      /\ UNCHANGED <<state, ops, RunVars, ListVars>>

\* The unoptimized path: read the state, wait out the transitional ones.
SetRead(th) ==
  LET t == call[th].timer
  IN  /\ At(th, "read")
      /\ GotoWith(th, IF state[t] \in Transitional THEN "again" ELSE "cas", state[t])
      /\ UNCHANGED <<state, expire, ops, RunVars, LockVars, ActiveVars, ListVars>>

\* Mutant: a timer that is about to be unlinked is taken to be unlinked.
ClaimStopIsUnlinked(s) == IF s \in {"ACTIVE", "PENDING_RESCHEDULE"}
                          THEN "PENDING_RESCHEDULE_SET_EXPIRE"
                          ELSE "PENDING_SCHEDULE_SET_EXPIRE"

\* The state TMTimerSet claims the timer with.
Claim(s) == IF s \in Linked THEN "PENDING_RESCHEDULE_SET_EXPIRE"
                            ELSE "PENDING_SCHEDULE_SET_EXPIRE"

\* Mutant: setting a timer from its callback does not link it.
PushesNotExpired(s) == s \in {"STOPPED", "ACTIVE"}

\* The states from which tmTimerTryWithLink is used rather than tmTimerTry.
Pushes(s) == s \in {"EXPIRED_DELIVER", "STOPPED", "ACTIVE"}

SetCas(th) ==
  LET t == call[th].timer
  IN  /\ At(th, "cas")
      /\ IF state[t] = call[th].old
         THEN /\ state' = [state EXCEPT ![t] = Claim(call[th].old)]
              /\ Goto(th, IF Pushes(call[th].old) THEN "link" ELSE "write")
         ELSE Goto(th, "again") /\ UNCHANGED state
      /\ UNCHANGED <<expire, ops, RunVars, LockVars, ActiveVars, ListVars>>

\* TMTimerSetRelative retries to gain the lock before the next attempt.
SetAgain(th) ==
  /\ At(th, "again")
  /\ IF call[th].op = "SetRelative" /\ ~ call[th].own /\ CanLock(th)
     THEN Lock(th) /\ GotoOwning(th, "read")
     ELSE UNCHANGED LockVars /\ Goto(th, "read")
  /\ UNCHANGED <<state, expire, ops, RunVars, ActiveVars, ListVars>>

\* tmTimerLinkSchedule
LinkSchedule(t) == schedule' = <<t>> \o schedule

\* The second half of tmTimerTryWithLink.
SetLink(th) ==
  /\ At(th, "link")
  /\ LinkSchedule(call[th].timer)
  /\ Goto(th, IF call[th].op = "Stop" THEN "schedule" ELSE "write")
  /\ UNCHANGED <<state, expire, batch, one, abandoned, ops, RunVars, LockVars, ActiveVars>>

SetWrite(th) ==
  /\ At(th, "write")
  /\ expire' = [expire EXCEPT ![call[th].timer] = Wanted(th)]
  /\ Goto(th, "commit")
  /\ UNCHANGED <<state, ops, RunVars, LockVars, ActiveVars, ListVars>>

SetCommit(th) ==
  /\ At(th, "commit")
  /\ state' = [state EXCEPT ![call[th].timer] =
                 IF Claim(call[th].old) = "PENDING_SCHEDULE_SET_EXPIRE"
                 THEN "PENDING_SCHEDULE" ELSE "PENDING_RESCHEDULE"]
  /\ Goto(th, "schedule")
  /\ UNCHANGED <<expire, ops, RunVars, LockVars, ActiveVars, ListVars>>

-----------------------------------------------------------------------------
(* TMTimerStop. *)

StopRead(th) ==
  LET t == call[th].timer
      done == state[t] \in PendingStop \cup {"EXPIRED_DELIVER", "STOPPED"}
  IN  /\ At(th, "stop") /\ state[t] \notin Transitional
      /\ IF done THEN Leave(th) ELSE GotoWith(th, "stopCas", state[t])
      /\ UNCHANGED <<state, expire, ops, RunVars, LockVars, ActiveVars, ListVars>>

Stopped(s) == IF s = "PENDING_SCHEDULE" THEN "PENDING_STOP_SCHEDULE" ELSE "PENDING_STOP"

StopCas(th) ==
  LET t == call[th].timer
  IN  /\ At(th, "stopCas")
      /\ IF state[t] = call[th].old
         THEN /\ state' = [state EXCEPT ![t] = Stopped(call[th].old)]
              /\ Goto(th, IF call[th].old = "ACTIVE" THEN "link" ELSE "schedule")
         ELSE /\ Goto(th, IF call[th].old = "PENDING_SCHEDULE" THEN "stopFallThrough" ELSE "stop")
              /\ UNCHANGED state
      /\ UNCHANGED <<expire, ops, RunVars, LockVars, ActiveVars, ListVars>>

\* "case TMTIMERSTATE_PENDING_SCHEDULE" has no break: when its compare-and-swap
\* fails, the one of PENDING_RESCHEDULE is tried with the same old state.
StopFallThrough(th) ==
  LET t == call[th].timer
  IN  /\ At(th, "stopFallThrough")
      /\ IF state[t] = call[th].old
         THEN state' = [state EXCEPT ![t] = "PENDING_STOP"] /\ Goto(th, "schedule")
         ELSE Goto(th, "stop") /\ UNCHANGED state
      /\ UNCHANGED <<expire, ops, RunVars, LockVars, ActiveVars, ListVars>>

-----------------------------------------------------------------------------
(* tmSchedule, and tmTimerQueueSchedule for the owner of the TM lock. *)

\* tmTimerQueueSchedule takes the whole list.
TakeBatch ==
  /\ batch' = schedule /\ schedule' = <<>>
  /\ one' = NoOne("next")
  /\ UNCHANGED abandoned

Schedule(th) ==
  /\ At(th, "schedule")
  /\ IF th \in Emts /\ CanLock(th)
     THEN Lock(th) /\ TakeBatch /\ Goto(th, "batch")
     ELSE UNCHANGED <<LockVars, ListVars>> /\ Goto(th, "notify")
  /\ UNCHANGED <<state, expire, ops, RunVars, ActiveVars>>

\* tmScheduleNotify, for a timer that is still to be scheduled.
ScheduleNotify(th) ==
  /\ At(th, "notify")
  /\ ff' = (ff \/ state[call[th].timer] \in PendingScheduling)
  /\ Goto(th, "return")
  /\ UNCHANGED <<state, expire, ops, running, run, now, LockVars, ActiveVars, ListVars>>

ScheduleDone(th) ==
  /\ At(th, "batch") /\ one.pc = "idle"
  /\ Unlock
  /\ Goto(th, "return")
  /\ UNCHANGED <<state, expire, ops, RunVars, ActiveVars, ListVars>>

\* Mutant: TMTimerSetRelative forgets the lock it got.
ReturnOwning(th) ==
  /\ At(th, "return")
  /\ Leave(th)
  /\ UNCHANGED <<state, expire, now, ops, RunVars, LockVars, ActiveVars, ListVars>>

\* Mutant: it leaves the lock whether it got it or not.
ReturnUnlocking(th) ==
  /\ At(th, "return")
  /\ Unlock /\ Leave(th)
  /\ UNCHANGED <<state, expire, ops, RunVars, ActiveVars, ListVars>>

\* TMTimerSetRelative gives up the TM lock it got at the start.
Return(th) ==
  /\ At(th, "return")
  /\ IF call[th].own THEN Unlock ELSE UNCHANGED LockVars
  /\ Leave(th)
  /\ UNCHANGED <<state, expire, ops, RunVars, ActiveVars, ListVars>>

BatchNext ==
  /\ one.pc = "next" /\ batch # <<>>
  /\ one' = [pc |-> "read", timer |-> Head(batch), old |-> "STOPPED", tries |-> Retries]
  /\ batch' = Tail(batch)
  /\ UNCHANGED <<state, expire, schedule, abandoned, call, ops, RunVars, LockVars, ActiveVars>>

BatchEnd ==
  /\ one.pc = "next" /\ batch = <<>>
  /\ one' = NoOne("idle")
  /\ UNCHANGED <<state, expire, schedule, batch, abandoned, call, ops, RunVars, LockVars, ActiveVars>>

\* tmTimerQueueScheduleOne: look at the state.  A timer whose expire time is
\* being set goes back on the list; one being destroyed is left alone.
ScheduleOneRead ==
  LET t == one.timer
  IN  /\ one.pc = "read"
      /\ IF state[t] \in Pending \ SetExpire
         THEN /\ one' = [one EXCEPT !.pc = "cas", !.old = state[t]]
              /\ UNCHANGED schedule
         ELSE /\ one' = NoOne("next")
              /\ IF state[t] \in SetExpire THEN LinkSchedule(t) ELSE UNCHANGED schedule
      /\ UNCHANGED <<state, expire, batch, abandoned, call, ops, RunVars, LockVars, ActiveVars>>

\* What the compare-and-swap changes the state to.
Scheduled(s) == CASE s = "PENDING_RESCHEDULE"    -> "PENDING_SCHEDULE"
                  [] s = "PENDING_SCHEDULE"      -> "ACTIVE"
                  [] s = "PENDING_STOP"          -> "PENDING_STOP_SCHEDULE"
                  [] s = "PENDING_STOP_SCHEDULE" -> "STOPPED"

ScheduleOneCas ==
  LET t == one.timer
  IN  /\ one.pc = "cas" /\ state[t] = one.old
      /\ state' = [state EXCEPT ![t] = Scheduled(one.old)]
      /\ IF one.old \in {"PENDING_RESCHEDULE", "PENDING_STOP"}
         THEN UnlinkActive(t) /\ one' = [one EXCEPT !.old = Scheduled(one.old)]
         ELSE /\ UNCHANGED ActiveVars
              /\ one' = IF one.old = "PENDING_SCHEDULE" THEN [one EXCEPT !.pc = "link"]
                        ELSE NoOne("next")
      /\ UNCHANGED <<expire, schedule, batch, abandoned, call, ops, RunVars, LockVars>>

MoreTries(n) == n > 0

\* The compare-and-swap failed: try again, up to Retries times.
ScheduleOneRetry ==
  /\ one.pc = "cas" /\ state[one.timer] # one.old
  /\ IF MoreTries(one.tries)
     THEN one' = [one EXCEPT !.pc = "read", !.tries = @ - 1] /\ UNCHANGED abandoned
     ELSE /\ one' = NoOne("next")
          /\ abandoned' = abandoned \cup {one.timer}
  /\ UNCHANGED <<state, expire, schedule, batch, call, ops, RunVars, LockVars, ActiveVars>>

ScheduleOneLink ==
  /\ one.pc = "link"
  /\ LinkActive(one.timer, expire[one.timer])
  /\ one' = NoOne("next")
  /\ UNCHANGED <<state, expire, schedule, batch, abandoned, call, ops, RunVars, LockVars>>

-----------------------------------------------------------------------------
(* TMR3TimerDestroy. *)

DestroyLock(th) ==
  /\ At(th, "destroy")
  /\ Lock(th)
  /\ Goto(th, "mark")
  /\ UNCHANGED <<state, expire, ops, RunVars, ActiveVars, ListVars>>

DestroyMark(th) ==
  LET t == call[th].timer
      fActive == state[t] \in {"ACTIVE", "PENDING_RESCHEDULE"} \cup PendingStop
      fPending == state[t] \in Pending
  IN  /\ At(th, "mark")
      /\ state' = [state EXCEPT ![t] = "DESTROY"]
      /\ IF fActive THEN UnlinkActive(t) ELSE UNCHANGED ActiveVars
      /\ IF fPending THEN TakeBatch ELSE UNCHANGED ListVars
      /\ Goto(th, "free")
      /\ UNCHANGED <<expire, ops, RunVars, LockVars>>

DestroyFree(th) ==
  /\ At(th, "free") /\ one.pc = "idle"
  /\ state' = [state EXCEPT ![call[th].timer] = "FREE"]
  /\ Unlock
  /\ Leave(th)
  /\ UNCHANGED <<expire, ops, RunVars, ActiveVars, ListVars>>

-----------------------------------------------------------------------------
(* TMR3TimerQueuesDo and tmR3TimerQueueRun, on the timer EMT. *)

RunIdle == At(TimerEmt, "idle")    \* the timer EMT is not inside an API call

QueuesDo ==
  /\ run.pc = "idle" /\ RunIdle /\ ff
  /\ running' = TRUE
  /\ run' = [run EXCEPT !.pc = "lock"]
  /\ UNCHANGED <<state, expire, call, ff, now, ops, LockVars, ActiveVars, ListVars>>

\* The force flag is cleared "once we started working for real".
QueuesLock ==
  /\ run.pc = "lock"
  /\ Lock(TimerEmt)
  /\ ff' = FALSE
  /\ run' = [run EXCEPT !.pc = "schedule"]
  /\ UNCHANGED <<state, expire, call, running, now, ops, ActiveVars, ListVars>>

QueuesSchedule ==
  /\ run.pc = "schedule"
  /\ IF schedule # <<>> THEN TakeBatch ELSE UNCHANGED ListVars
  /\ run' = [run EXCEPT !.pc = "head"]
  /\ UNCHANGED <<state, expire, call, ff, running, now, ops, LockVars, ActiveVars>>

QueueRunHead ==
  /\ run.pc = "head" /\ one.pc = "idle"
  /\ run' = [run EXCEPT !.pc = "check", !.now = now,
                        !.next = IF active = <<>> THEN NoTimer ELSE Head(active)]
  /\ UNCHANGED <<state, expire, call, ff, running, now, ops, LockVars, ActiveVars, ListVars>>

Due(t) == t # NoTimer /\ ExpireOf(t) <= run.now

\* The loop condition; the next timer is read before the critical section is
\* entered.
QueueRunCheck ==
  /\ run.pc = "check"
  /\ run' = IF Due(run.next)
            THEN [run EXCEPT !.pc = "crit", !.timer = run.next, !.next = NextOf(run.next)]
            ELSE NoRun("done")
  /\ UNCHANGED <<state, expire, call, ff, running, now, ops, LockVars, ActiveVars, ListVars>>

QueueRunEnter ==
  /\ run.pc = "crit" /\ CanEnterCrit(TimerEmt, run.timer)
  /\ run' = [run EXCEPT !.pc = "try"]
  /\ UNCHANGED <<state, expire, call, ff, running, now, ops, LockVars, ActiveVars, ListVars>>

QueueRunTry ==
  LET t == run.timer
  IN  /\ run.pc = "try"
      /\ IF state[t] = "ACTIVE"
         THEN /\ state' = [state EXCEPT ![t] = "EXPIRED_GET_UNLINK"]
              /\ run' = [run EXCEPT !.pc = "unlink"]
         ELSE run' = [run EXCEPT !.pc = "check", !.timer = NoTimer] /\ UNCHANGED state
      /\ UNCHANGED <<expire, call, ff, running, now, ops, LockVars, ActiveVars, ListVars>>

\* Mutant: the state is left at EXPIRED_GET_UNLINK.
DeliverNot(t) == UNCHANGED state

Deliver(t) == state' = [state EXCEPT ![t] = "EXPIRED_DELIVER"]

\* Unlinks the timer with the next one read earlier, and calls it back.
QueueRunUnlink ==
  /\ run.pc = "unlink"
  /\ Unlink(run.timer, run.next)
  /\ Deliver(run.timer)
  /\ run' = [run EXCEPT !.pc = "callback"]
  /\ UNCHANGED <<expire, call, ff, running, now, ops, LockVars, ListVars>>

\* Mutant: the timer is stopped whatever the callback did.
AfterCallbackStopped(s) == "STOPPED"

AfterCallback(s) == IF s = "EXPIRED_DELIVER" THEN "STOPPED" ELSE s

\* The callback returns: the timer is stopped unless it was set again.
QueueRunCallbackDone ==
  LET t == run.timer
  IN  /\ run.pc = "callback" /\ RunIdle
      /\ state' = [state EXCEPT ![t] = AfterCallback(state[t])]
      /\ run' = [run EXCEPT !.pc = "check", !.timer = NoTimer]
      /\ UNCHANGED <<expire, call, ff, running, now, ops, LockVars, ActiveVars, ListVars>>

QueuesDone ==
  /\ run.pc = "done"
  /\ running' = FALSE
  /\ Unlock
  /\ run' = [run EXCEPT !.pc = "idle"]
  /\ UNCHANGED <<state, expire, call, ff, now, ops, ActiveVars, ListVars>>

\* tmR3TimerCallback, on the periodic host timer thread.
TimerCallback ==
  /\ ~ ff /\ ~ running
  /\ schedule # <<>> \/ (queueExpire # Never /\ queueExpire <= now)
  /\ ff' = TRUE
  /\ UNCHANGED <<state, expire, call, running, run, now, ops, LockVars, ActiveVars, ListVars>>

Tick ==
  /\ now < MaxTime
  /\ now' = now + 1
  /\ UNCHANGED <<state, expire, call, ff, running, run, ops, LockVars, ActiveVars, ListVars>>

-----------------------------------------------------------------------------
Begin(th) ==
  \/ TMTimerSet(th) \/ TMTimerSetRelative(th) \/ TMTimerStop(th)
  \/ TMR3TimerDestroy(th) \/ TMR3TimerCreate(th)

Step(th) ==
  \/ SetProbe(th) \/ SetTryLock(th) \/ SetOptimize(th) \/ SetRelative(th)
  \/ SetRelativeOptimize(th) \/ SetOptimizedStart(th) \/ SetRead(th) \/ SetCas(th)
  \/ SetAgain(th) \/ SetLink(th) \/ SetWrite(th) \/ SetCommit(th)
  \/ StopRead(th) \/ StopCas(th) \/ StopFallThrough(th)
  \/ Schedule(th) \/ ScheduleNotify(th) \/ ScheduleDone(th) \/ Return(th)
  \/ DestroyLock(th) \/ DestroyMark(th) \/ DestroyFree(th)

Batch == BatchNext \/ BatchEnd \/ ScheduleOneRead \/ ScheduleOneCas
           \/ ScheduleOneRetry \/ ScheduleOneLink

Runner == QueuesDo \/ QueuesLock \/ QueuesSchedule \/ QueueRunHead \/ QueueRunCheck
            \/ QueueRunEnter \/ QueueRunTry \/ QueueRunUnlink \/ QueueRunCallbackDone
            \/ QueuesDone

Next == \/ \E th \in Threads : Begin(th) \/ Step(th)
        \/ Batch \/ Runner \/ TimerCallback \/ Tick

Spec == Init /\ [][Next]_vars

\* A thread in a call goes on; the timer EMT handles its force flag and ends its
\* callbacks; the host timer is periodic.  Nobody has to make a call.
Fairness == /\ \A th \in Threads : WF_vars(Step(th))
            /\ WF_vars(Batch) /\ WF_vars(Runner) /\ WF_vars(TimerCallback)

LiveSpec == Spec /\ Fairness

-----------------------------------------------------------------------------
(* Properties. *)

TimerOrNone == Timers \cup {NoTimer}

CallPcs == {"idle", "probe", "trylock", "optimize", "relative", "optimizeRelative", "start",
            "read", "cas", "again", "link", "write", "commit", "stop", "stopCas",
            "stopFallThrough", "schedule", "notify", "batch", "return", "destroy", "mark", "free"}

CallType == [pc : CallPcs, op : Calls \cup {"none"}, timer : TimerOrNone, arg : Nat,
             old : States, own : BOOLEAN]
OneType == [pc : {"idle", "next", "read", "cas", "link"}, timer : TimerOrNone,
            old : States, tries : Nat]
RunType == [pc : {"idle", "lock", "schedule", "head", "check", "crit", "try", "unlink",
                  "callback", "done"},
            timer : TimerOrNone, next : TimerOrNone, now : Nat]

ListsOK == /\ schedule \in Seq(Timers) /\ batch \in Seq(Timers) /\ active \in Seq(Timers)
           /\ queueExpire \in Nat \cup {Never}
           /\ abandoned \subseteq Timers

\* The variables have the types of the fields and locals they stand for.
TypeOK ==
  /\ state \in [Timers -> States] /\ expire \in [Timers -> Nat]
  /\ ListsOK
  /\ tmOwner \in Threads \cup {NoThread} /\ tmNest \in Nat
  /\ ff \in BOOLEAN /\ running \in BOOLEAN
  /\ one \in OneType /\ run \in RunType /\ call \in [Threads -> CallType]
  /\ now \in Nat /\ ops \in Nat

\* How many times a thread has entered the TM lock, going by where it is.
Depth(l, own) == (IF own \/ l \in {"optimize", "start"} THEN 1 ELSE 0)
                   + (IF l \in {"batch", "mark", "free"} THEN 1 ELSE 0)
Entered(th) == Depth(call[th].pc, call[th].own)
                 + (IF th = TimerEmt /\ run.pc \notin {"idle", "lock"} THEN 1 ELSE 0)

\* No path through the API or the runner leaks the TM lock or leaves it once too
\* often: its owner has entered it exactly as often as the code it is in says,
\* and nobody else is in code that owns it.
LockBalanced ==
  /\ tmOwner = NoThread => tmNest = 0
  /\ \A th \in Threads : IF tmOwner = th THEN tmNest = Entered(th) /\ tmNest > 0
                          ELSE Entered(th) = 0

\* tmTimerQueuesSanityChecks: whenever no thread owns the TM lock, exactly the
\* timers whose state says so are in the active list, and none twice.
SanityCheck ==
  tmOwner = NoThread =>
    /\ \A t \in Timers : InActive(t) <=> state[t] \in Linked
    /\ \A i, j \in DOMAIN active : active[i] = active[j] => i = j

Scheduling(t) == one.pc \in {"read", "cas"} /\ one.timer = t

\* The places from which tmTimerQueueSchedule will still process a timer.
Queued(t) ==
  \/ \E i \in DOMAIN schedule : schedule[i] = t
  \/ \E i \in DOMAIN batch : batch[i] = t
  \/ Scheduling(t)
  \/ \E th \in Threads : At(th, "link") /\ call[th].timer = t

\* "Currently in the ScheduleTimers list" (TMTIMERSTATE): a timer in a pending
\* state is queued for scheduling, or tmTimerQueueScheduleOne ran out of
\* retries on it.
PendingIsQueued ==
  \A t \in Timers : state[t] \in Pending => Queued(t) \/ t \in abandoned

\* The "potential race" of tmTimerLinkSchedule: no interleaving links a timer
\* that is already on the schedule list or in the batch being processed.
LinkedOnce ==
  LET all == schedule \o batch
  IN  /\ \A i, j \in DOMAIN all : all[i] = all[j] => i = j
      /\ \A i \in DOMAIN all :
           /\ ~ Scheduling(all[i])
           /\ \A th \in Threads : At(th, "link") => call[th].timer # all[i]

\* "None of these can be in the schedule": the assertion of
\* tmTimerQueueScheduleOne never fails.
ScheduleStatesOK ==
  one.pc = "read" => state[one.timer] \in Pending \cup {"DESTROY"}

\* The lock-free schedule list and the state words agree, whoever pushes while
\* the owner of the TM lock drains it: what waits to be scheduled is on its way
\* through the list, once, and nothing else is.
ScheduleListOK == PendingIsQueued /\ LinkedOnce /\ ScheduleStatesOK

\* Values read or cached earlier are still true when they are used.  With the
\* lock free and nothing pending the cached expire time, all the timer thread
\* and TMTimerPoll look at, is that of the head of the active list; and the next
\* timer tmR3TimerQueueRun read before it entered the critical section is still
\* the next one when it unlinks the expired timer.
NothingStale ==
  /\ tmOwner = NoThread /\ (\A t \in Timers : state[t] \notin Pending) =>
       queueExpire = IF active = <<>> THEN Never ELSE expire[Head(active)]
  /\ run.pc \in {"crit", "try", "unlink"} => run.next = NextOf(run.timer)

\* tmTimerQueueLinkActive compares with expire times that sets have changed in timers
\* still linked where they were, so a timer can be linked before one that expires
\* earlier, where the runner does not get until the first of the two expires.
Overtaken(t) ==
  \E i, j \in DOMAIN active : i < j /\ active[j] = t /\ expire[active[i]] > now

\* A due timer eventually fires, or somebody stops, re-arms or destroys it, or
\* tmTimerQueueScheduleOne runs out of retries on it.  It is late only behind a timer
\* that is not due, and no longer than until that one is due or gone.
DueFires ==
  \A t \in Timers :
    state[t] \in Armed /\ expire[t] <= now
      ~> state[t] \notin Armed \/ expire[t] > now \/ t \in abandoned \/ Overtaken(t)

\* Every API call returns: no thread spins or waits for ever.
CallsReturn == \A th \in Threads : ~ At(th, "idle") ~> At(th, "idle")

-----------------------------------------------------------------------------
(* The queue implements the timer service. *)

\* A set on the optimized path makes the timer ACTIVE before it has its expire
\* time.
Setting(t) ==
  \/ state[t] \in SetExpire
  \/ state[t] = "ACTIVE" /\ \E th \in Threads : At(th, "start") /\ call[th].timer = t

Phase(t) == CASE Setting(t)                               -> "setting"
              [] state[t] \in Armed /\ ~ Setting(t)       -> "armed"
              [] state[t] \in PendingStop \cup {"STOPPED"} -> "idle"
              [] state[t] \in {"DESTROY", "FREE"}         -> "free"
              [] state[t] \in {"EXPIRED_GET_UNLINK", "EXPIRED_DELIVER"} -> "expired"

Times == ExpireTimes \cup {n + d : n \in 0..MaxTime, d \in Ticks}

Service == INSTANCE TMTimerService WITH
  phase    <- [t \in Timers |-> Phase(t)],
  due      <- [t \in Timers |-> IF Phase(t) = "armed" THEN expire[t] ELSE 0],
  callback <- IF run.pc = "callback" THEN run.timer ELSE NoTimer

\* However the calls interleave with the scheduling and the running of the
\* queue, TM behaves as the timer service: in particular a timer whose stop or
\* set has taken effect never fires for the earlier set.
ImplementsService == Service!Spec
=============================================================================
