--------------------------- MODULE MCTMTimerQueue ---------------------------
(* Instances of TMTimerQueue for TLC. *)
EXTENDS TMTimerQueue

CONSTANTS t1, t2, t3, emt, dev, crit1

\* t1 has a critical section, the others have none.
CritOfMC == [t \in Timers |-> IF t = t1 THEN crit1 ELSE NoCrit]

\* Everybody arms and stops, but only the timer EMT creates and destroys.
DoesMC == [th \in Threads |-> IF th = emt THEN Calls ELSE {"Set", "SetRelative", "Stop"}]
\* Everybody arms and stops.
DoesArm == [th \in Threads |-> {"Set", "Stop"}]

\* The states in which TMR3TimerDestroy finds the timer where it expects it.
DestroyMC == {"STOPPED", "ACTIVE", "EXPIRED_DELIVER", "PENDING_SCHEDULE", "PENDING_STOP",
              "PENDING_RESCHEDULE"}
DestroyAny == DestroyMC \cup {"PENDING_STOP_SCHEDULE"}

\* Two of three timers have been armed for the time 1, scheduled by an EMT, and it is
\* 1 now: a state Init leads to in two calls, from which two more get the active list
\* out of order.
ArmedInit ==
  /\ state = [t \in Timers |-> IF t = t1 THEN "STOPPED" ELSE "ACTIVE"]
  /\ expire = [t \in Timers |-> IF t = t1 THEN 0 ELSE 1]
  /\ schedule = <<>> /\ batch = <<>> /\ active = <<t2, t3>>
  /\ one = NoOne("idle")
  /\ queueExpire = 1
  /\ tmOwner = NoThread /\ tmNest = 0
  /\ ff = FALSE /\ running = FALSE
  /\ run = NoRun("idle")
  /\ call = [th \in Threads |-> Idle]
  /\ now = 1 /\ ops = 0 /\ abandoned = {}

ArmedSpec == ArmedInit /\ [][Next]_vars /\ Fairness
=============================================================================
