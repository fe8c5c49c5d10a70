--------------------------- MODULE TMTimerService ---------------------------
(***************************************************************************)
(* What the time manager promises to the users of one timer queue, without *)
(* threads, lists or locks: a timer that was armed fires, not before it is *)
(* due, unless it is stopped, armed anew or destroyed first; and callbacks *)
(* run one at a time.                                                      *)
(***************************************************************************)
EXTENDS Naturals

CONSTANTS Timers, NoTimer,
          Times    \* the expire times that can be asked for

VARIABLES phase,    \* "free", "idle", "setting", "armed" or "expired"
          due,      \* the expire time of an armed timer, else 0
          callback, \* the timer whose callback is running
          now

vars == <<phase, due, callback, now>>

Init == /\ phase = [t \in Timers |-> "idle"]
        /\ due = [t \in Timers |-> 0]
        /\ callback = NoTimer
        /\ now = 0

Enter(t, p) == phase' = [phase EXCEPT ![t] = p] /\ due' = [due EXCEPT ![t] = 0]

\* Arming takes two steps, between which the timer cannot fire.  A timer that
\* has expired can be armed anew from the moment its callback runs.
BeginSet(t) ==
  /\ phase[t] \in {"idle", "armed"} \/ (phase[t] = "expired" /\ callback = t)
  /\ Enter(t, "setting") /\ UNCHANGED <<callback, now>>

EndSet(t) == \E e \in Times :
  /\ phase[t] = "setting"
  /\ phase' = [phase EXCEPT ![t] = "armed"] /\ due' = [due EXCEPT ![t] = e]
  /\ UNCHANGED <<callback, now>>

Stop(t) == phase[t] = "armed" /\ Enter(t, "idle") /\ UNCHANGED <<callback, now>>

Expire(t) == /\ phase[t] = "armed" /\ due[t] <= now /\ callback = NoTimer
             /\ Enter(t, "expired") /\ UNCHANGED <<callback, now>>

Deliver(t) == /\ phase[t] = "expired" /\ callback = NoTimer
              /\ callback' = t /\ UNCHANGED <<phase, due, now>>

\* The timer is idle again unless the callback, or another thread meanwhile,
\* armed or destroyed it.
Return(t) ==
  /\ callback = t /\ callback' = NoTimer
  /\ phase' = IF phase[t] = "expired" THEN [phase EXCEPT ![t] = "idle"] ELSE phase
  /\ UNCHANGED <<due, now>>

Destroy(t) == phase[t] \notin {"free", "setting"} /\ Enter(t, "free") /\ UNCHANGED <<callback, now>>

Create(t) == phase[t] = "free" /\ Enter(t, "idle") /\ UNCHANGED <<callback, now>>

Tick == now' = now + 1 /\ UNCHANGED <<phase, due, callback>>

Next == \/ \E t \in Timers : \/ BeginSet(t) \/ EndSet(t) \/ Stop(t) \/ Expire(t)
                             \/ Deliver(t) \/ Return(t) \/ Destroy(t) \/ Create(t)
        \/ Tick

Spec == Init /\ [][Next]_vars
=============================================================================
