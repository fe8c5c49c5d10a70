---------------------------- MODULE ReentrantLock ----------------------------
(***************************************************************************)
(* What the users of the PDM critical sections may rely on.  A section has *)
(* at most one user; the user may enter it as often as it likes, and when  *)
(* it has left it as often the section is given up, though not necessarily *)
(* at once: until then the same thread, and nobody else, may enter again.  *)
(***************************************************************************)
EXTENDS Naturals

CONSTANTS Threads, Sects, NoThread

VARIABLES user,  \* the thread that has a section, or NoThread
          held   \* how often each thread has entered each section and not left

vars == <<user, held>>

Init == /\ user = [s \in Sects |-> NoThread]
        /\ held = [th \in Threads |-> [s \in Sects |-> 0]]

Enter(th, s) ==
  /\ user[s] \in {NoThread, th}
  /\ user' = [user EXCEPT ![s] = th]
  /\ held' = [held EXCEPT ![th][s] = @ + 1]

Leave(th, s) ==
  /\ user[s] = th /\ held[th][s] > 0
  /\ held' = [held EXCEPT ![th][s] = @ - 1]
  /\ UNCHANGED user

GiveUp(th, s) ==
  /\ user[s] = th /\ held[th][s] = 0
  /\ user' = [user EXCEPT ![s] = NoThread]
  /\ UNCHANGED held

Next == \E th \in Threads, s \in Sects : Enter(th, s) \/ Leave(th, s) \/ GiveUp(th, s)

Spec == Init /\ [][Next]_vars
=============================================================================
