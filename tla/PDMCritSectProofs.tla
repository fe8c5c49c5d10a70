------------------------- MODULE PDMCritSectProofs -------------------------
(***************************************************************************)
(* Theorems about PDMCritSect, for every set of threads and sections,      *)
(* every lock order and every bound.                                       *)
(*                                                                         *)
(* The argument: a section is either free (cLockers = -1) or exactly one   *)
(* of three things stands for it: its owner, its signalled semaphore, or a *)
(* thread between two steps of entering or leaving it.  The owner's code   *)
(* may be done with the section while the section is still queued, so that *)
(* the nesting count is what the code holds plus what is still to be left. *)
(***************************************************************************)
EXTENDS PDMCritSect, SequenceTheorems, FiniteSetTheorems, TLAPS

-----------------------------------------------------------------------------
(* The inductive invariant. *)

\* The thread stands for the section, without being its owner.
Token(th, s) == call[th].pc \in {"first", "lockers", "cas", "signal"} /\ Sect(th) = s

\* The thread is at a leave that is still to be counted.
Leaving(th, s) == call[th].pc \in {"leave", "queue"} /\ Sect(th) = s

\* The section is queued and ring-3 has not come to it yet.
Queued(th, s) == \E j \in DOMAIN queue[th] : j > call[th].i /\ queue[th][j] = s

One(b) == IF b THEN 1 ELSE 0

\* What the step a thread is at says of its locals.
CallOK(th) ==
  LET c == call[th]
  IN  /\ c.pc \notin {"leave", "lockers", "signal", "ff"} => c.i = 0
      /\ c.i <= Len(queue[th])
      /\ c.op \in {"Enter", "TryEnter", "CallEnter", "Leave", "Yield"} => c.sect \in Sects
      /\ c.op = "CallEnter" => ctx[th] = "Call" /\ c.pc # "idle"
      /\ c.pc \notin {"idle", "ff"} => Sect(th) \in Sects
      /\ c.pc = "ff" \/ c.i > 0 => ctx[th] # "RZ"
      /\ c.pc \in {"cas", "queue"} => ctx[th] = "RZ"
      /\ c.pc = "queue" => cNestings[Sect(th)] = 1

TokenOK(th, s) ==
  Token(th, s) => /\ owner[s] = NoThread /\ ~ event[s] /\ cLockers[s] >= 0
                  /\ \A u \in Threads : Token(u, s) => u = th

SectOK(s) ==
  /\ event[s] => owner[s] = NoThread /\ cLockers[s] >= 0
  /\ IF owner[s] = NoThread
     THEN cNestings[s] = 0 /\ ~ pendingUnlock[s] /\ ~ eventToSignal[s]
     ELSE cNestings[s] >= 1 /\ cLockers[s] >= cNestings[s] - 1
  /\ eventToSignal[s] => ctx[owner[s]] = "R3"

NestOK(th, s) ==
  /\ owner[s] = th => cNestings[s] = held[th][s] + One(Queued(th, s)) + One(Leaving(th, s))
  /\ owner[s] # th => held[th][s] = 0 /\ ~ Queued(th, s) /\ ~ Leaving(th, s)
  /\ Queued(th, s) => pendingUnlock[s]

IInv ==
  /\ TypeOK /\ QueuedOnce
  /\ \A th \in Threads : CallOK(th)
  /\ \A s \in Sects : SectOK(s)
  /\ \A th \in Threads, s \in Sects : TokenOK(th, s) /\ NestOK(th, s)

-----------------------------------------------------------------------------
(* How a step of one thread is taken apart. *)

\* Nothing changes for the other threads.
Others(th) ==
  \A u \in Threads \ {th} :
    call'[u] = call[u] /\ queue'[u] = queue[u] /\ held'[u] = held[u] /\ ctx'[u] = ctx[u]

\* The thread stands to the section as before.
SameFor(th, s) ==
  /\ Token(th, s)' <=> Token(th, s)
  /\ Leaving(th, s)' <=> Leaving(th, s)
  /\ Queued(th, s)' <=> Queued(th, s)
  /\ held'[th][s] = held[th][s]

\* The section stays as it is, but for the number of threads that wait for it.
SameSect(s) ==
  /\ cLockers'[s] >= cLockers[s] /\ cNestings'[s] = cNestings[s] /\ owner'[s] = owner[s]
  /\ pendingUnlock'[s] = pendingUnlock[s] /\ event'[s] = event[s]
  /\ eventToSignal'[s] = eventToSignal[s]

\* A thread that leaves ring-3 to run the guest owns nothing.
ContextOK(th) == ctx'[th] = ctx[th] \/ ctx[th] # "R3" \/ \A s \in Sects : owner[s] # th

\* What the step establishes of the thread's own locals.
OwnOK(th) ==
  /\ TypeOK' /\ CallOK(th)' /\ ContextOK(th) /\ Others(th)
  /\ \A i, j \in DOMAIN queue'[th] : queue'[th][i] = queue'[th][j] => i = j

\* Nobody but the thread owns or stands for the section, before and after.
Mine(th, s) ==
  /\ owner[s] \in {th, NoThread} /\ owner'[s] \in {th, NoThread}
  /\ \A u \in Threads \ {th} : ~ Token(u, s)

LEMMA Unchanged ==
  ASSUME NEW u \in Threads, call'[u] = call[u], queue'[u] = queue[u]
  PROVE  /\ Sect(u)' = Sect(u)
         /\ \A s \in Sects : /\ Token(u, s)' <=> Token(u, s)
                             /\ Leaving(u, s)' <=> Leaving(u, s)
                             /\ Queued(u, s)' <=> Queued(u, s)
BY DEF Sect, Token, Leaving, Queued

LEMMA OthersSame ==
  ASSUME IInv, NEW th \in Threads, OwnOK(th)
  PROVE  /\ TypeOK' /\ QueuedOnce'
         /\ \A u \in Threads \ {th} :
              /\ call'[u] = call[u] /\ queue'[u] = queue[u] /\ held'[u] = held[u]
              /\ ctx'[u] = ctx[u] /\ Sect(u)' = Sect(u)
              /\ \A s \in Sects : SameFor(u, s)
<1>1. \A u \in Threads \ {th} :
        /\ call'[u] = call[u] /\ queue'[u] = queue[u] /\ held'[u] = held[u]
        /\ ctx'[u] = ctx[u] /\ Sect(u)' = Sect(u)
        /\ \A s \in Sects : SameFor(u, s)
  BY Unchanged DEF OwnOK, Others, SameFor
<1> QED BY <1>1 DEF OwnOK, IInv, QueuedOnce

(* What a step keeps of a section it is not about. *)
LEMMA SectKeeps ==
  ASSUME IInv, NEW th \in Threads, OwnOK(th), NEW s \in Sects, SameFor(th, s), SameSect(s)
  PROVE  SectOK(s)' /\ \A u \in Threads : TokenOK(u, s)' /\ NestOK(u, s)'
<1>1. \A v \in Threads : SameFor(v, s)  BY OthersSame
<1>2. TypeOK /\ TypeOK' /\ SectOK(s) /\ \A u \in Threads : TokenOK(u, s) /\ NestOK(u, s)
  BY DEF IInv, OwnOK
<1>3. /\ cLockers[s] \in Int /\ cLockers'[s] \in Int /\ cNestings[s] \in Nat
      /\ owner[s] \in Threads \cup {NoThread}
  BY <1>2 DEF TypeOK
<1>4. \A u \in Threads : TokenOK(u, s)'
  BY <1>1, <1>2, <1>3 DEF SameFor, SameSect, TokenOK
<1>5. \A u \in Threads : NestOK(u, s)'
  BY <1>1, <1>2 DEF SameFor, SameSect, NestOK, One
<1>6. eventToSignal[s] => ctx'[owner[s]] = "R3"
  <2> SUFFICES ASSUME eventToSignal[s] PROVE ctx'[owner[s]] = "R3"  OBVIOUS
  <2>1. ctx[owner[s]] = "R3" /\ owner[s] \in Threads  BY <1>2, <1>3 DEF SectOK
  <2>2. CASE owner[s] = th  BY <2>1, <2>2 DEF OwnOK, ContextOK
  <2>3. CASE owner[s] # th  BY <2>1, <2>3 DEF OwnOK, Others
  <2> QED BY <2>2, <2>3
<1>7. SectOK(s)'  BY <1>2, <1>3, <1>6 DEF SectOK, SameSect
<1> QED BY <1>4, <1>5, <1>7

(* A step after which the thread stands to every section as before. *)
LEMMA KeepsAll ==
  ASSUME IInv, NEW th \in Threads, OwnOK(th),
         \A s \in Sects : SameFor(th, s) /\ SameSect(s)
  PROVE  IInv'
<1>1. \A s \in Sects : SectOK(s)' /\ \A u \in Threads : TokenOK(u, s)' /\ NestOK(u, s)'
  BY SectKeeps
<1>2. \A u \in Threads : CallOK(u)'
  <2> SUFFICES ASSUME NEW u \in Threads, u # th PROVE CallOK(u)'  BY DEF OwnOK
  <2>1. /\ call'[u] = call[u] /\ queue'[u] = queue[u] /\ ctx'[u] = ctx[u]
        /\ Sect(u)' = Sect(u) /\ CallOK(u)
    BY OthersSame DEF IInv
  <2>2. Sect(u) \in Sects => cNestings'[Sect(u)] = cNestings[Sect(u)]  BY DEF SameSect
  <2> QED BY <2>1, <2>2 DEF CallOK
<1> QED BY <1>1, <1>2, OthersSame DEF IInv

(* A step after which all other sections stand as before keeps the invariant
   if it does so for the thread and the section it is about. *)
LEMMA Keeps ==
  ASSUME IInv, NEW th \in Threads, NEW z \in Sects, OwnOK(th), Mine(th, z),
         \A s \in Sects \ {z} : SameFor(th, s) /\ SameSect(s),
         SectOK(z)', NestOK(th, z)',
         Token(th, z)' => owner'[z] = NoThread /\ ~ event'[z] /\ cLockers'[z] >= 0
  PROVE  IInv'
<1>1. \A s \in Sects \ {z} : SectOK(s)' /\ \A u \in Threads : TokenOK(u, s)' /\ NestOK(u, s)'
  BY SectKeeps
<1>2. \A u \in Threads : TokenOK(u, z)' /\ NestOK(u, z)'
  <2> SUFFICES ASSUME NEW u \in Threads PROVE TokenOK(u, z)' /\ NestOK(u, z)'  OBVIOUS
  <2>1. \A v \in Threads \ {th} : ~ Token(v, z)'  BY OthersSame DEF Mine, SameFor
  <2>2. TokenOK(u, z)'  BY <2>1 DEF TokenOK
  <2>3. CASE u # th
    <3>1. owner[z] # u /\ owner'[z] # u  BY <2>3, NoneAssumption DEF Mine
    <3>2. held[u][z] = 0 /\ ~ Queued(u, z) /\ ~ Leaving(u, z)  BY <3>1 DEF IInv, NestOK
    <3>3. held'[u][z] = 0 /\ ~ Queued(u, z)' /\ ~ Leaving(u, z)'
      BY OthersSame, <2>3, <3>2 DEF SameFor
    <3> QED BY <2>2, <3>1, <3>3 DEF NestOK
  <2> QED BY <2>2, <2>3
<1>3. \A u \in Threads : CallOK(u)'
  <2> SUFFICES ASSUME NEW u \in Threads, u # th PROVE CallOK(u)'  BY DEF OwnOK
  <2>1. /\ call'[u] = call[u] /\ queue'[u] = queue[u] /\ ctx'[u] = ctx[u]
        /\ Sect(u)' = Sect(u) /\ CallOK(u)
    BY OthersSame DEF IInv
  <2>2. call[u].pc = "queue" => cNestings'[Sect(u)] = cNestings[Sect(u)]
    <3> SUFFICES ASSUME call[u].pc = "queue"
                 PROVE  cNestings'[Sect(u)] = cNestings[Sect(u)]
      OBVIOUS
    <3>1. Sect(u) \in Sects /\ Leaving(u, Sect(u))  BY <2>1 DEF CallOK, Leaving
    <3>2. owner[Sect(u)] = u  BY <3>1 DEF IInv, NestOK
    <3>3. Sect(u) # z  BY <3>2, NoneAssumption DEF Mine
    <3> QED BY <3>1, <3>3 DEF SameSect
  <2> QED BY <2>1, <2>2 DEF CallOK
<1> QED BY <1>1, <1>2, <1>3, OthersSame DEF IInv

-----------------------------------------------------------------------------
(* Steps that change nothing but where a thread is. *)

\* Where a thread neither stands for a section nor is about to leave one.
Outside == {"idle", "try", "spin", "wait", "ff"}

\* The operations that are about one section.
OneSect == {"Enter", "TryEnter", "CallEnter", "Leave", "Yield"}

LEMMA OutsideKeeps ==
  ASSUME IInv, NEW th \in Threads, NEW c \in OneCall, NEW x \in Contexts,
         call[th].pc \in Outside, call[th].i = 0, c.pc \in Outside, c.i = 0,
         c.pc \notin {"idle", "ff"} \/ c.op \in OneSect => c.sect \in Sects,
         c.pc = "ff" => x # "RZ", c.op = "CallEnter" => x = "Call" /\ c.pc # "idle",
         ctx[th] \in {x, "RZ", "Call"} \/ \A s \in Sects : owner[s] # th,
         call' = [call EXCEPT ![th] = c], ctx' = [ctx EXCEPT ![th] = x],
         UNCHANGED cLockers \/ \E s \in Sects : cLockers' = [cLockers EXCEPT ![s] = @ + 1],
         UNCHANGED <<cNestings, owner, pendingUnlock, event, eventToSignal, queue, held>>,
         ops' \in Nat
  PROVE  IInv'
<1>1. TypeOK /\ QueuedOnce /\ CallOK(th)  BY DEF IInv
<1>2. call'[th] = c /\ ctx'[th] = x /\ queue'[th] = queue[th]  BY <1>1 DEF TypeOK
<1>0. /\ cLockers' \in [Sects -> Nat \cup {-1}]
      /\ \A s \in Sects : cLockers'[s] \in Int /\ cLockers[s] \in Int /\ cLockers'[s] >= cLockers[s]
  <2>1. \A s \in Sects : cLockers[s] \in Int /\ cLockers[s] + 1 \in Nat  BY <1>1 DEF TypeOK
  <2>2. CASE UNCHANGED cLockers  BY <1>1, <2>1, <2>2 DEF TypeOK
  <2>3. ASSUME NEW s \in Sects, cLockers' = [cLockers EXCEPT ![s] = @ + 1]
        PROVE  /\ cLockers' \in [Sects -> Nat \cup {-1}]
               /\ \A z \in Sects : cLockers'[z] = cLockers[z] \/ cLockers'[z] = cLockers[z] + 1
    BY <1>1, <2>1, <2>3 DEF TypeOK
  <2> QED BY <2>1, <2>2, <2>3
<1>3. TypeOK'  BY <1>0, <1>1 DEF TypeOK
<1>4. Others(th)  BY <1>1 DEF TypeOK, Others
<1>5. ContextOK(th)  BY <1>2 DEF ContextOK
<1>6. Len(queue[th]) \in Nat  BY <1>1, LenProperties DEF TypeOK
<1>7. CallOK(th)'  BY <1>2, <1>6 DEF CallOK, Sect, Outside, OneSect
<1>8. OwnOK(th)  BY <1>1, <1>3, <1>4, <1>5, <1>7 DEF OwnOK, QueuedOnce
<1>9. \A s \in Sects : SameFor(th, s)
  BY <1>2 DEF SameFor, Token, Leaving, Queued, Outside
<1>10. \A s \in Sects : SameSect(s)  BY <1>0 DEF SameSect
<1> QED BY <1>8, <1>9, <1>10, KeepsAll

(* The locals of a thread that is doing nothing. *)
LEMMA IdleType == Idle \in OneCall  BY DEF Idle, OneCall

LEMMA BeginsToEnter ==
  ASSUME IInv, NEW th \in Threads, PDMCritSectEnter(th) \/ PDMCritSectTryEnter(th)
  PROVE  IInv'
<1>1. PICK s \in Sects, op \in {"Enter", "TryEnter"} :
        Begin(th, op, s, "try") /\ Bounded /\ UNCHANGED <<LockVars, ctx, queue, held>>
  BY DEF PDMCritSectEnter, PDMCritSectTryEnter
<1> DEFINE c == [pc |-> "try", op |-> op, sect |-> s, i |-> 0]
<1>2. TypeOK /\ CallOK(th)  BY DEF IInv
<1>3. c \in OneCall  BY DEF OneCall
<1>4. call[th].pc \in Outside /\ call[th].i = 0 /\ call' = [call EXCEPT ![th] = c]
  BY <1>1, <1>2 DEF Begin, Ready, At, Outside, CallOK
<1>5. c.pc \in Outside /\ c.pc # "ff" /\ c.i = 0 /\ c.sect \in Sects /\ c.op # "CallEnter"
  BY DEF Outside
<1>6. ctx[th] \in Contexts /\ ctx' = [ctx EXCEPT ![th] = ctx[th]] /\ ops' \in Nat
  BY <1>1, <1>2 DEF TypeOK, Bounded
<1> HIDE DEF c
<1> QED BY <1>1, <1>3, <1>4, <1>5, <1>6, OutsideKeeps DEF LockVars

LEMMA EntersOutside ==
  ASSUME IInv, NEW th \in Threads,
         \/ EnterBusy(th) \/ EnterReturnBusy(th) \/ EnterCallRing3(th)
         \/ EnterContended(th) /\ cLockers[Sect(th)] # -1
  PROVE  IInv'
<1>1. TypeOK /\ CallOK(th)  BY DEF IInv
<1>2. call[th].pc \in {"try", "spin"}
  BY DEF EnterBusy, EnterReturnBusy, EnterCallRing3, EnterContended, At
<1>3. call[th].pc \in Outside /\ call[th].i = 0 /\ call[th].sect \in Sects /\ Sect(th) = call[th].sect
  BY <1>1, <1>2 DEF Outside, CallOK, Sect
<1>4. call[th] \in OneCall /\ ctx[th] \in Contexts  BY <1>1 DEF TypeOK
<1>5. CASE EnterBusy(th) \/ EnterReturnBusy(th)
  <2> DEFINE d == [call[th] EXCEPT !.pc = "spin"]
  <2>1. /\ call' = [call EXCEPT ![th] = Idle] \/ call' = [call EXCEPT ![th] = d]
        /\ UNCHANGED <<LockVars, ctx, queue, held, ops>>
    BY <1>1, <1>5 DEF EnterBusy, EnterReturnBusy, Goto, TypeOK
  <2>2. d \in OneCall /\ d.pc = "spin" /\ d.i = 0 /\ d.sect \in Sects
    BY <1>3, <1>4 DEF OneCall
  <2>3. ctx' = [ctx EXCEPT ![th] = ctx[th]] /\ ops' \in Nat  BY <1>1, <2>1 DEF TypeOK
  <2>4. CASE call' = [call EXCEPT ![th] = Idle]
    <3>1. Idle.pc = "idle" /\ Idle.i = 0 /\ Idle.op = "none" /\ Idle.op # "CallEnter"  BY DEF Idle
    <3> QED BY <1>3, <1>4, <2>1, <2>3, <2>4, <3>1, IdleType, OutsideKeeps DEF LockVars, Outside, OneSect
  <2>5. CASE call' = [call EXCEPT ![th] = d]
    <3>1. d.op = "CallEnter" => ctx[th] = "Call"  BY <1>1, <1>4 DEF CallOK
    <3> HIDE DEF d
    <3> QED BY <1>3, <1>4, <2>1, <2>2, <2>3, <2>5, <3>1, OutsideKeeps DEF LockVars, Outside
  <2> QED BY <2>1, <2>4, <2>5
<1>6. CASE EnterCallRing3(th)
  <2> DEFINE c == [call[th] EXCEPT !.pc = "ff", !.op = "CallEnter"]
  <2>1. /\ call' = [call EXCEPT ![th] = c] /\ ctx' = [ctx EXCEPT ![th] = "Call"] /\ ctx[th] = "RZ"
        /\ UNCHANGED <<LockVars, queue, held, ops>>
    BY <1>1, <1>6 DEF EnterCallRing3, ServiceFirst, TypeOK
  <2>2. c \in OneCall /\ c.pc = "ff" /\ c.i = 0 /\ c.sect \in Sects  BY <1>3, <1>4 DEF OneCall
  <2>3. ops' \in Nat /\ "Call" \in Contexts  BY <1>1, <2>1 DEF TypeOK, Contexts
  <2> HIDE DEF c
  <2> QED BY <1>3, <2>1, <2>2, <2>3, OutsideKeeps DEF LockVars, Outside
<1>7. CASE EnterContended(th) /\ cLockers[Sect(th)] # -1
  <2> DEFINE c == [call[th] EXCEPT !.pc = "wait"]
  <2>1. cLockers[Sect(th)] + 1 # 0  BY <1>1, <1>3, <1>7 DEF TypeOK
  <2>2. /\ call' = [call EXCEPT ![th] = c]
        /\ cLockers' = [cLockers EXCEPT ![Sect(th)] = @ + 1]
        /\ UNCHANGED <<cNestings, owner, pendingUnlock, event, eventToSignal, ctx, queue, held, ops>>
    BY <1>1, <1>7, <2>1 DEF EnterContended, Won, Goto, TypeOK
  <2>3. c \in OneCall /\ c.pc = "wait" /\ c.i = 0 /\ c.sect \in Sects  BY <1>3, <1>4 DEF OneCall
  <2>4. ctx' = [ctx EXCEPT ![th] = ctx[th]] /\ ops' \in Nat  BY <1>1, <2>2 DEF TypeOK
  <2>5. c.op = "CallEnter" => ctx[th] = "Call"  BY <1>1, <1>4 DEF CallOK
  <2> HIDE DEF c
  <2> QED BY <1>3, <1>4, <2>2, <2>3, <2>4, <2>5, OutsideKeeps DEF Outside
<1> QED BY <1>5, <1>6, <1>7

LEMMA ChangesContext ==
  ASSUME IInv, NEW th \in Threads,
         RunGuest(th) \/ ReturnToRing3(th) \/ CallRing3(th) \/ ResumeRZ(th)
  PROVE  IInv'
<1>1. TypeOK /\ CallOK(th)  BY DEF IInv
<1>2. PICK x \in Contexts :
        /\ ctx' = [ctx EXCEPT ![th] = x]
        /\ ctx[th] \in {"RZ", "Call"} \/ RunGuest(th)
  BY DEF RunGuest, ReturnToRing3, CallRing3, ResumeRZ, Contexts
<1>3. At(th, "idle") /\ UNCHANGED <<LockVars, queue, call, held, ops>>
  BY DEF RunGuest, ReturnToRing3, CallRing3, ResumeRZ, Ready
<1>4. /\ call[th].pc = "idle" /\ call[th].i = 0 /\ call[th] \in OneCall
      /\ call' = [call EXCEPT ![th] = call[th]] /\ ops' \in Nat
      /\ call[th].op \in OneSect => call[th].sect \in Sects
      /\ call[th].op # "CallEnter"
  BY <1>1, <1>3 DEF At, CallOK, TypeOK, OneSect
<1>5. RunGuest(th) => \A s \in Sects : owner[s] # th
  <2> SUFFICES ASSUME RunGuest(th), NEW s \in Sects, owner[s] = th PROVE FALSE  OBVIOUS
  <2>1. held[th][s] = 0 /\ queue[th] = <<>>
    BY <1>1 DEF RunGuest, Ready, Holds, TypeOK
  <2>2. ~ Queued(th, s) /\ ~ Leaving(th, s)
    BY <1>4, <2>1 DEF Queued, Leaving
  <2>3. cNestings[s] = 0  BY <2>1, <2>2 DEF IInv, NestOK, One
  <2>4. cNestings[s] >= 1  BY NoneAssumption DEF IInv, SectOK
  <2> QED BY <2>3, <2>4
<1>6. ctx[th] \in {x, "RZ", "Call"} \/ \A s \in Sects : owner[s] # th  BY <1>2, <1>5
<1> QED BY <1>2, <1>3, <1>4, <1>6, OutsideKeeps DEF LockVars, Outside

LEMMA StartsForcedActions ==
  ASSUME IInv, NEW th \in Threads, ForcedActions(th)
  PROVE  IInv'
<1> DEFINE c == [Idle EXCEPT !.pc = "ff", !.op = "FF"]
<1>1. TypeOK /\ CallOK(th)  BY DEF IInv
<1>2. /\ call[th].pc = "idle" /\ call[th].i = 0 /\ ctx[th] # "RZ" /\ ctx[th] \in Contexts
      /\ call' = [call EXCEPT ![th] = c] /\ UNCHANGED <<LockVars, ctx, queue, held, ops>>
  BY <1>1 DEF ForcedActions, At, CallOK, TypeOK
<1>3. c \in OneCall /\ c.pc = "ff" /\ c.op = "FF" /\ c.i = 0  BY DEF Idle, OneCall
<1>4. ctx' = [ctx EXCEPT ![th] = ctx[th]] /\ ops' \in Nat  BY <1>1, <1>2 DEF TypeOK
<1> HIDE DEF c
<1> QED BY <1>2, <1>3, <1>4, OutsideKeeps DEF LockVars, Outside, OneSect

(* Emptying the queue when everything on it is left. *)
LEMMA EndsForcedActions ==
  ASSUME IInv, NEW th \in Threads, FFDone(th)
  PROVE  IInv'
<1> DEFINE c == IF call[th].op = "CallEnter" THEN [call[th] EXCEPT !.pc = "try", !.i = 0] ELSE Idle
<1>1. TypeOK /\ CallOK(th)  BY DEF IInv
<1>2. /\ call[th].pc = "ff" /\ call[th].i = Len(queue[th])
      /\ call' = [call EXCEPT ![th] = c] /\ queue' = [queue EXCEPT ![th] = <<>>]
      /\ UNCHANGED <<LockVars, ctx, held, ops>>
  BY <1>1 DEF FFDone, At, TypeOK
<1>3. /\ c \in OneCall /\ c.pc \in {"idle", "try"} /\ c.i = 0
      /\ c.pc = "try" \/ c.op \in OneSect => c.sect \in Sects
      /\ c.op = "CallEnter" => ctx[th] = "Call" /\ c.pc # "idle"
  <2>1. call[th] \in OneCall  BY <1>1 DEF TypeOK
  <2> QED BY <1>1, <2>1, IdleType DEF CallOK, OneCall, OneSect, Idle
<1> HIDE DEF c
<1>4. call'[th] = c /\ queue'[th] = <<>> /\ Len(<<>>) = 0 /\ DOMAIN <<>> = {} /\ <<>> \in Seq(Sects)
  BY <1>1, <1>2, EmptySeq DEF TypeOK
<1>5. TypeOK'  BY <1>1, <1>2, <1>3, <1>4 DEF TypeOK, LockVars
<1>6. Others(th) /\ ContextOK(th)  BY <1>1, <1>2 DEF Others, ContextOK, TypeOK
<1>7. CallOK(th)'  BY <1>2, <1>3, <1>4 DEF CallOK, Sect, OneSect
<1>8. OwnOK(th)  BY <1>4, <1>5, <1>6, <1>7 DEF OwnOK
<1>9. \A s \in Sects : SameFor(th, s)
  <2>1. \A j \in DOMAIN queue[th] : ~ (j > call[th].i)
    BY <1>1, <1>2, LenProperties DEF TypeOK
  <2>2. \A s \in Sects : ~ Queued(th, s) /\ ~ Queued(th, s)'  BY <1>4, <2>1 DEF Queued
  <2> QED BY <1>2, <1>3, <1>4, <2>2 DEF SameFor, Token, Leaving
<1>10. \A s \in Sects : SameSect(s)
  <2>1. \A s \in Sects : cLockers[s] \in Int  BY <1>1 DEF TypeOK
  <2> QED BY <1>2, <2>1 DEF SameSect, LockVars
<1> QED BY <1>8, <1>9, <1>10, KeepsAll

-----------------------------------------------------------------------------
(* Steps of a thread in or about one section. *)

TokenPcs == {"first", "lockers", "cas", "signal"}
LeavePcs == {"leave", "queue"}

\* The section's fields and the thread's count change for this section only.
Only(th, z) ==
  /\ \A s \in Sects \ {z} :
       /\ cLockers'[s] = cLockers[s] /\ cNestings'[s] = cNestings[s] /\ owner'[s] = owner[s]
       /\ pendingUnlock'[s] = pendingUnlock[s] /\ event'[s] = event[s]
       /\ eventToSignal'[s] = eventToSignal[s] /\ held'[th][s] = held[th][s]
  /\ \A u \in Threads \ {th} : held'[u] = held[u] /\ ctx'[u] = ctx[u]

\* The section and the thread fit together when the thread has gone to l.
FitsAt(th, z, l) ==
  /\ l \in TokenPcs => owner'[z] = NoThread /\ ~ event'[z] /\ cLockers'[z] >= 0
  /\ SectOK(z)'
  /\ owner'[z] = th =>
       cNestings'[z] = held'[th][z] + One(Queued(th, z)) + One(l \in LeavePcs)
  /\ owner'[z] # th => held'[th][z] = 0 /\ ~ Queued(th, z) /\ l \notin LeavePcs
  /\ Queued(th, z) => pendingUnlock'[z]
  /\ l \in {"cas", "queue"} => ctx'[th] = "RZ"
  /\ l = "queue" => cNestings'[z] = 1

LEMMA MoveKeeps ==
  ASSUME IInv, TypeOK', NEW th \in Threads, NEW z \in Sects, NEW c \in OneCall,
         call' = [call EXCEPT ![th] = c], UNCHANGED queue, c.i = call[th].i,
         call[th].pc = "idle" \/ Sect(th) = z,
         c.i > 0 => c.pc \in {"ff", "leave", "lockers", "signal"} /\ ctx'[th] = ctx[th],
         c.i = 0 => c.pc # "ff" /\ (c.pc # "idle" => c.sect = z),
         c.op \in OneSect => c.sect \in Sects,
         c.op = "CallEnter" => ctx'[th] = "Call" /\ c.pc # "idle",
         Only(th, z), ContextOK(th), Mine(th, z), FitsAt(th, z, c.pc)
  PROVE  IInv'
<1>1. TypeOK /\ QueuedOnce /\ CallOK(th)  BY DEF IInv
<1>2. call'[th] = c /\ queue'[th] = queue[th] /\ c.i \in Nat /\ call[th] \in OneCall
  BY <1>1 DEF TypeOK, OneCall
<1>3. Others(th)  BY <1>1 DEF TypeOK, Others, Only
<1>4. c.pc # "idle" /\ c.pc # "ff" => Sect(th)' = z
  <2>1. c.i > 0 => Sect(th) = z  BY <1>1, <1>2 DEF CallOK
  <2> QED BY <1>2, <2>1 DEF Sect
<1>5. /\ Token(th, z)' <=> c.pc \in TokenPcs
      /\ Leaving(th, z)' <=> c.pc \in LeavePcs
      /\ \A s \in Sects : Queued(th, s)' <=> Queued(th, s)
  BY <1>2, <1>4 DEF Token, Leaving, Queued, TokenPcs, LeavePcs
<1>6. \A s \in Sects \ {z} : SameFor(th, s)
  BY <1>2, <1>4, <1>5 DEF SameFor, Token, Leaving, Only
<1>7. \A s \in Sects \ {z} : SameSect(s)
  <2>1. \A s \in Sects : cLockers[s] \in Int  BY <1>1 DEF TypeOK
  <2> QED BY <2>1 DEF SameSect, Only
<1>8. CallOK(th)'
  <2>1. c.pc \notin {"idle", "ff"} => Sect(th)' \in Sects  BY <1>4
  <2>2. c.pc = "ff" \/ c.i > 0 => ctx'[th] # "RZ"  BY <1>1, <1>2 DEF CallOK
  <2>3. c.pc \in {"cas", "queue"} => ctx'[th] = "RZ"  BY DEF FitsAt
  <2>4. c.pc = "queue" => cNestings'[Sect(th)'] = 1  BY <1>4 DEF FitsAt
  <2>5. c.pc \notin {"leave", "lockers", "signal", "ff"} => c.i = 0  BY <1>2
  <2>6. c.i <= Len(queue[th])  BY <1>1 DEF CallOK
  <2> QED BY <1>2, <2>1, <2>2, <2>3, <2>4, <2>5, <2>6 DEF CallOK, OneSect
<1>9. OwnOK(th)  BY <1>1, <1>2, <1>3, <1>8 DEF OwnOK, QueuedOnce
<1>10. SectOK(z)' /\ (Token(th, z)' => owner'[z] = NoThread /\ ~ event'[z] /\ cLockers'[z] >= 0)
  BY <1>5 DEF FitsAt
<1>11. NestOK(th, z)'  BY <1>5 DEF FitsAt, NestOK, One
<1> QED BY <1>6, <1>7, <1>9, <1>10, <1>11, Keeps

(* What the invariant says of the section of a thread. *)
NoToken(s) == \A u \in Threads : ~ Token(u, s)

NobodyOwns(s) ==
  /\ owner[s] = NoThread /\ cNestings[s] = 0 /\ ~ pendingUnlock[s] /\ ~ eventToSignal[s]
  /\ \A u \in Threads : held[u][s] = 0 /\ ~ Queued(u, s) /\ ~ Leaving(u, s)

LEMMA UnownedFacts ==
  ASSUME IInv, NEW s \in Sects, owner[s] = NoThread
  PROVE  NobodyOwns(s)
BY NoneAssumption DEF IInv, SectOK, NestOK, NobodyOwns

LEMMA FreeFacts ==
  ASSUME IInv, NEW s \in Sects, cLockers[s] = -1
  PROVE  NobodyOwns(s) /\ ~ event[s] /\ NoToken(s)
<1>1. SectOK(s) /\ cNestings[s] \in Nat /\ \A u \in Threads : TokenOK(u, s)
  BY DEF IInv, TypeOK
<1>2. owner[s] = NoThread /\ ~ event[s]  BY <1>1 DEF SectOK
<1> QED BY <1>1, <1>2, UnownedFacts DEF NoToken, TokenOK

LEMMA SignalledFacts ==
  ASSUME IInv, NEW s \in Sects, event[s]
  PROVE  NobodyOwns(s) /\ cLockers[s] >= 0 /\ NoToken(s)
<1>1. SectOK(s) /\ \A u \in Threads : TokenOK(u, s)  BY DEF IInv
<1> QED BY <1>1, UnownedFacts DEF SectOK, NoToken, TokenOK

LEMMA TokenFacts ==
  ASSUME IInv, NEW th \in Threads, NEW s \in Sects, Token(th, s)
  PROVE  /\ NobodyOwns(s) /\ ~ event[s] /\ cLockers[s] >= 0
         /\ \A u \in Threads \ {th} : ~ Token(u, s)
<1>1. TokenOK(th, s)  BY DEF IInv
<1> QED BY <1>1, UnownedFacts DEF TokenOK

LEMMA OwnerFacts ==
  ASSUME IInv, NEW th \in Threads, NEW s \in Sects, owner[s] = th
  PROVE  /\ NoToken(s) /\ ~ event[s] /\ cNestings[s] >= 1 /\ cLockers[s] >= cNestings[s] - 1
         /\ cNestings[s] = held[th][s] + One(Queued(th, s)) + One(Leaving(th, s))
         /\ Queued(th, s) => pendingUnlock[s]
         /\ eventToSignal[s] => ctx[th] = "R3"
<1>1. SectOK(s) /\ NestOK(th, s) /\ \A u \in Threads : TokenOK(u, s)  BY DEF IInv
<1> QED BY <1>1, NoneAssumption DEF SectOK, NoToken, TokenOK, NestOK

LEMMA LeavingFacts ==
  ASSUME IInv, NEW th \in Threads, call[th].pc \in LeavePcs
  PROVE  Sect(th) \in Sects /\ owner[Sect(th)] = th /\ Leaving(th, Sect(th))
<1>1. CallOK(th)  BY DEF IInv
<1>2. Sect(th) \in Sects /\ Leaving(th, Sect(th))  BY <1>1 DEF CallOK, LeavePcs, Leaving
<1> QED BY <1>2 DEF IInv, NestOK

(* Beginning to leave a section, for good or to enter it again. *)
LEMMA BeginsToLeave ==
  ASSUME IInv, NEW th \in Threads, PDMCritSectLeave(th) \/ PDMR3CritSectYield(th)
  PROVE  IInv'
<1>1. PICK s \in Sects, op \in {"Leave", "Yield"} :
        /\ held[th][s] > 0 /\ Begin(th, op, s, "leave")
        /\ held' = [held EXCEPT ![th][s] = @ - 1]
        /\ ops' = ops \/ ops' = ops + 1
        /\ UNCHANGED <<LockVars, ctx, queue>>
  BY DEF PDMCritSectLeave, PDMR3CritSectYield, Holds, Bounded
<1> DEFINE c == [pc |-> "leave", op |-> op, sect |-> s, i |-> 0]
<1>2. TypeOK /\ CallOK(th) /\ NestOK(th, s)  BY DEF IInv
<1>3. /\ call[th].pc = "idle" /\ call[th].i = 0 /\ call' = [call EXCEPT ![th] = c]
      /\ held[th][s] \in Nat
  BY <1>1, <1>2 DEF Begin, Ready, At, CallOK, TypeOK
<1>4. c \in OneCall /\ c.i = 0 /\ c.pc = "leave" /\ c.sect = s /\ c.op \in {"Leave", "Yield"}
  BY DEF OneCall
<1> HIDE DEF c
<1>5. TypeOK'
  <2>1. held[th][s] - 1 \in Nat  BY <1>1, <1>3
  <2>2. held' \in [Threads -> [Sects -> Nat]]  BY <1>1, <1>2, <2>1 DEF TypeOK
  <2> QED BY <1>1, <1>2, <1>3, <1>4, <2>2 DEF TypeOK, LockVars
<1>6. owner[s] = th  BY <1>1, <1>2 DEF NestOK
<1>7. ~ Leaving(th, s)  BY <1>3 DEF Leaving
<1>8. Mine(th, s)  BY <1>1, <1>6, OwnerFacts DEF Mine, NoToken, LockVars
<1>9. Only(th, s) /\ ContextOK(th) /\ held'[th][s] = held[th][s] - 1
  BY <1>1, <1>2 DEF Only, ContextOK, LockVars, TypeOK
<1>10. FitsAt(th, s, c.pc)
  <2>1. SectOK(s)'  BY <1>1 DEF IInv, SectOK, LockVars
  <2>2. cNestings[s] = held[th][s] + One(Queued(th, s)) + 0
    BY <1>6, <1>7, OwnerFacts DEF One
  <2>3. One(Queued(th, s)) \in Nat /\ One(c.pc \in LeavePcs) = 1  BY <1>4 DEF One, LeavePcs
  <2>4. cNestings[s] = held'[th][s] + One(Queued(th, s)) + One(c.pc \in LeavePcs)
    BY <1>3, <1>9, <2>2, <2>3
  <2> QED BY <1>1, <1>4, <1>6, <2>1, <2>4, OwnerFacts DEF FitsAt, LockVars, TokenPcs
<1> QED BY <1>1, <1>3, <1>4, <1>5, <1>8, <1>9, <1>10, MoveKeeps DEF OneSect

LEMMA SchedulesExitEvent ==
  ASSUME IInv, NEW th \in Threads, PDMR3CritSectScheduleExitEvent(th)
  PROVE  IInv'
<1>1. PICK s \in Sects :
        /\ Ready(th) /\ ctx[th] = "R3" /\ owner[s] = th
        /\ eventToSignal' = [eventToSignal EXCEPT ![s] = TRUE]
        /\ UNCHANGED <<cLockers, cNestings, owner, pendingUnlock, event, ctx, queue, call, held, ops>>
  BY DEF PDMR3CritSectScheduleExitEvent
<1>2. TypeOK /\ CallOK(th)  BY DEF IInv
<1>3. TypeOK'  BY <1>1, <1>2 DEF TypeOK
<1>4. PICK c \in OneCall :
        /\ call[th] = c /\ call' = [call EXCEPT ![th] = c] /\ c.pc = "idle" /\ c.i = 0
        /\ c.op \in OneSect => c.sect \in Sects
        /\ c.op # "CallEnter"
  BY <1>1, <1>2 DEF TypeOK, Ready, At, CallOK, OneSect
<1>5. Mine(th, s)  BY <1>1, OwnerFacts DEF Mine, NoToken
<1>6. Only(th, s) /\ ContextOK(th)  BY <1>1, <1>2 DEF Only, ContextOK, TypeOK
<1>7. FitsAt(th, s, c.pc)
  <2>1. SectOK(s)'  BY <1>1, NoneAssumption DEF IInv, SectOK
  <2>2. ~ Leaving(th, s) /\ "idle" \notin LeavePcs  BY <1>4 DEF Leaving, LeavePcs
  <2>3. cNestings[s] = held[th][s] + One(Queued(th, s)) + One("idle" \in LeavePcs)
    BY <1>1, <2>2, OwnerFacts DEF One
  <2> QED BY <1>1, <1>4, <2>1, <2>3, OwnerFacts DEF FitsAt, TokenPcs
<1>8. /\ UNCHANGED queue /\ c.i = call[th].i /\ call[th].pc = "idle"
      /\ ~ (c.i > 0) /\ c.pc # "ff"
  BY <1>1, <1>4
<1> QED BY <1>3, <1>4, <1>5, <1>6, <1>7, <1>8, MoveKeeps

-----------------------------------------------------------------------------
(* Entering. *)

(* Winning a section: by the compare-and-swap, by the increment of the slow
   path, or by being woken. *)
LEMMA WinKeeps ==
  ASSUME IInv, NEW th \in Threads,
         \/ EnterGrab(th) \/ EnterWait(th)
         \/ EnterContended(th) /\ cLockers[Sect(th)] = -1
  PROVE  IInv'
<1> DEFINE c == [call[th] EXCEPT !.pc = "first"]
<1>1. TypeOK /\ CallOK(th)  BY DEF IInv
<1>2. PICK s \in Sects : /\ s = Sect(th) /\ call[th].sect = s
                       /\ call[th].pc \in {"try", "spin", "wait"} /\ call[th].i = 0
  <2>1. call[th].pc \in {"try", "spin", "wait"}
    BY DEF EnterGrab, EnterWait, EnterContended, At
  <2> QED BY <1>1, <2>1 DEF CallOK, Sect
<1>3. /\ call' = [call EXCEPT ![th] = c]
      /\ UNCHANGED <<cNestings, owner, pendingUnlock, eventToSignal, ctx, queue, held, ops>>
  <2>1. call \in [Threads -> OneCall]  BY <1>1 DEF TypeOK
  <2>2. call' = [call EXCEPT ![th].pc = "first"]
        /\ UNCHANGED <<cNestings, owner, pendingUnlock, eventToSignal, ctx, queue, held, ops>>
    <3>1. CASE EnterGrab(th)  BY <3>1 DEF EnterGrab, Goto
    <3>2. CASE EnterWait(th)  BY <3>2 DEF EnterWait, Goto
    <3>3. CASE EnterContended(th) /\ cLockers[Sect(th)] = -1
      BY <3>3 DEF EnterContended, Goto, Won
    <3> QED BY <3>1, <3>2, <3>3
  <2> QED BY <2>1, <2>2
<1>4. NobodyOwns(s) /\ NoToken(s)
  BY <1>2, FreeFacts, SignalledFacts DEF EnterGrab, EnterWait, EnterContended, Grab
<1>5. /\ cLockers' \in [Sects -> Nat \cup {-1}] /\ cLockers'[s] \in Nat
      /\ \A z \in Sects \ {s} : cLockers'[z] = cLockers[z]
  <2>1. CASE EnterGrab(th)  BY <1>1, <1>2, <2>1 DEF EnterGrab, Grab, TypeOK
  <2>2. CASE EnterWait(th)
    <3>1. cLockers[s] >= 0  BY <1>2, <2>2, SignalledFacts DEF EnterWait
    <3> QED BY <1>1, <1>2, <2>2, <3>1 DEF EnterWait, TypeOK
  <2>3. CASE EnterContended(th) /\ cLockers[s] = -1
    BY <1>1, <1>2, <2>3 DEF EnterContended, TypeOK
  <2> QED BY <1>2, <2>1, <2>2, <2>3
<1>6. /\ event' \in [Sects -> BOOLEAN] /\ ~ event'[s]
      /\ \A z \in Sects \ {s} : event'[z] = event[z]
  <2>1. CASE EnterGrab(th) \/ (EnterContended(th) /\ cLockers[s] = -1)
    BY <1>1, <1>2, <2>1, FreeFacts DEF EnterGrab, Grab, EnterContended, TypeOK
  <2>2. CASE EnterWait(th)
    BY <1>1, <1>2, <2>2 DEF EnterWait, TypeOK
  <2> QED BY <1>2, <2>1, <2>2
<1>7. c \in OneCall /\ c.pc = "first" /\ c.i = 0 /\ c.sect = s /\ c.op = call[th].op
  BY <1>1, <1>2 DEF TypeOK, OneCall
<1> HIDE DEF c
<1>8. TypeOK'  BY <1>1, <1>3, <1>5, <1>6, <1>7 DEF TypeOK
<1>9. Only(th, s) /\ ContextOK(th)  BY <1>3, <1>5, <1>6 DEF Only, ContextOK
<1>10. Mine(th, s)  BY <1>3, <1>4 DEF Mine, NobodyOwns, NoToken
<1>11. c.op = "CallEnter" => ctx'[th] = "Call"  BY <1>1, <1>3, <1>7 DEF CallOK
<1>12. FitsAt(th, s, c.pc)
  <2>1. SectOK(s)'  BY <1>3, <1>4, <1>6 DEF SectOK, NobodyOwns
  <2>2. "first" \notin LeavePcs  BY DEF LeavePcs
  <2> QED BY <1>3, <1>4, <1>5, <1>6, <1>7, <2>1, <2>2, NoneAssumption DEF FitsAt, NobodyOwns
<1>13. call[th].i = 0 /\ Sect(th) = s /\ queue' = queue /\ ~ (c.i > 0)
       /\ call' = [call EXCEPT ![th] = c]
  BY <1>2, <1>3, <1>7
<1> QED BY <1>7, <1>8, <1>9, <1>10, <1>11, <1>12, <1>13, MoveKeeps

(* The tail that the first and the nested enter have in common. *)
LEMMA EnteredFacts ==
  ASSUME IInv, NEW th \in Threads, Entered(th), Sect(th) \in Sects, call[th].i = 0, call[th].pc # "idle"
  PROVE  /\ call' = [call EXCEPT ![th] = Idle]
         /\ ctx' \in [Threads -> Contexts] /\ ContextOK(th)
         /\ \A u \in Threads \ {th} : held'[u] = held[u] /\ ctx'[u] = ctx[u]
         /\ held' \in [Threads -> [Sects -> Nat]]
         /\ held'[th][Sect(th)] = held[th][Sect(th)] + 1
         /\ \A z \in Sects \ {Sect(th)} : held'[th][z] = held[th][z]
         /\ ctx[th] = "R3" => ctx'[th] = "R3"
<1>1. TypeOK /\ CallOK(th)  BY DEF IInv
<1>2. held' = [held EXCEPT ![th][Sect(th)] = @ + 1] /\ call' = [call EXCEPT ![th] = Idle]
  BY DEF Entered
<1>3. held[th][Sect(th)] \in Nat  BY <1>1 DEF TypeOK
<1>4. /\ held' \in [Threads -> [Sects -> Nat]]
      /\ held'[th][Sect(th)] = held[th][Sect(th)] + 1
      /\ \A z \in Sects \ {Sect(th)} : held'[th][z] = held[th][z]
      /\ \A u \in Threads \ {th} : held'[u] = held[u]
  BY <1>1, <1>2, <1>3 DEF TypeOK
<1>5. CASE call[th].op = "CallEnter"
  <2>1. ctx[th] = "Call" /\ ctx' = [ctx EXCEPT ![th] = "RZ"]
    BY <1>1, <1>5 DEF CallOK, Entered
  <2> QED BY <1>1, <1>2, <1>4, <2>1 DEF ContextOK, TypeOK, Contexts
<1>6. CASE call[th].op # "CallEnter"
  <2>1. ctx' = ctx  BY <1>6 DEF Entered
  <2> QED BY <1>1, <1>2, <1>4, <2>1 DEF ContextOK, TypeOK
<1> QED BY <1>5, <1>6

LEMMA EnterFirstKeeps ==
  ASSUME IInv, NEW th \in Threads, EnterFirst(th)
  PROVE  IInv'
<1>1. TypeOK /\ CallOK(th)  BY DEF IInv
<1>2. PICK s \in Sects :
        /\ s = Sect(th) /\ call[th].pc = "first" /\ call[th].i = 0 /\ call[th].pc # "idle"
        /\ Token(th, s) /\ Entered(th)
  BY <1>1 DEF EnterFirst, At, CallOK, Token
<1>3. /\ cNestings' = [cNestings EXCEPT ![s] = 1] /\ owner' = [owner EXCEPT ![s] = th]
      /\ UNCHANGED <<cLockers, pendingUnlock, event, eventToSignal, queue, ops>>
  BY <1>2 DEF EnterFirst
<1>4. /\ NobodyOwns(s) /\ ~ event[s] /\ cLockers[s] >= 0
      /\ \A u \in Threads \ {th} : ~ Token(u, s)
  BY <1>2, TokenFacts
<1>5. Idle \in OneCall /\ Idle.pc = "idle" /\ Idle.i = 0 /\ Idle.op = "none"
  BY IdleType DEF Idle
<1>6. TypeOK'
  <2>1. cNestings' \in [Sects -> Nat] /\ owner' \in [Sects -> Threads \cup {NoThread}]
    BY <1>1, <1>3 DEF TypeOK
  <2>2. call' \in [Threads -> OneCall]
    <3>1. call' = [call EXCEPT ![th] = Idle]  BY <1>2 DEF Entered
    <3>2. call \in [Threads -> OneCall]  BY <1>1 DEF TypeOK
    <3> QED BY <1>5, <3>1, <3>2
  <2>3. ctx' \in [Threads -> Contexts] /\ held' \in [Threads -> [Sects -> Nat]]
    BY <1>2, EnteredFacts
  <2> QED BY <1>1, <1>3, <2>1, <2>2, <2>3 DEF TypeOK
<1>7. Only(th, s) /\ ContextOK(th)
  BY <1>1, <1>2, <1>3, EnteredFacts DEF Only, TypeOK
<1>8. owner'[s] = th /\ cNestings'[s] = 1  BY <1>1, <1>2, <1>3 DEF TypeOK
<1>9. Mine(th, s)  BY <1>4, <1>8 DEF Mine, NobodyOwns
<1>10. FitsAt(th, s, Idle.pc)
  <2>1. SectOK(s)'  BY <1>3, <1>4, <1>8, NoneAssumption DEF SectOK, NobodyOwns
  <2>2. held'[th][s] = 1 /\ One(Queued(th, s)) = 0 /\ One("idle" \in LeavePcs) = 0
    BY <1>2, <1>4, EnteredFacts DEF NobodyOwns, One, LeavePcs
  <2> QED BY <1>4, <1>5, <1>8, <2>1, <2>2 DEF FitsAt, NobodyOwns, TokenPcs, LeavePcs
<1>11. call' = [call EXCEPT ![th] = Idle]  BY <1>2, EnteredFacts
<1>12. call[th].i = 0 /\ Sect(th) = s /\ queue' = queue /\ Idle.op \notin OneSect /\ ~ (Idle.i > 0)
  BY <1>2, <1>3, <1>5 DEF OneSect
<1> QED BY <1>5, <1>6, <1>7, <1>9, <1>10, <1>11, <1>12, MoveKeeps

LEMMA EnterNestedKeeps ==
  ASSUME IInv, NEW th \in Threads, EnterNested(th)
  PROVE  IInv'
<1>1. TypeOK /\ CallOK(th)  BY DEF IInv
<1>2. PICK s \in Sects :
        /\ s = Sect(th) /\ call[th].pc = "try" /\ call[th].i = 0 /\ call[th].pc # "idle"
        /\ ~ Leaving(th, s) /\ Entered(th) /\ owner[s] = th
  BY <1>1 DEF EnterNested, At, CallOK, Leaving
<1>3. /\ cLockers' = [cLockers EXCEPT ![s] = @ + 1]
      /\ cNestings' = [cNestings EXCEPT ![s] = @ + 1]
      /\ UNCHANGED <<owner, pendingUnlock, event, eventToSignal, queue, ops>>
  BY <1>2 DEF EnterNested
<1>4. /\ NoToken(s) /\ ~ event[s] /\ cNestings[s] >= 1 /\ cLockers[s] >= cNestings[s] - 1
      /\ cNestings[s] = held[th][s] + One(Queued(th, s)) + One(Leaving(th, s))
      /\ Queued(th, s) => pendingUnlock[s]
      /\ eventToSignal[s] => ctx[th] = "R3"
  BY <1>2, OwnerFacts
<1>5. Idle \in OneCall /\ Idle.pc = "idle" /\ Idle.i = 0 /\ Idle.op = "none"
  BY IdleType DEF Idle
<1>6. /\ cLockers[s] \in Int /\ cNestings[s] \in Nat /\ held[th][s] \in Nat
      /\ cLockers[s] + 1 \in Nat /\ cNestings[s] + 1 \in Nat
      /\ cLockers'[s] = cLockers[s] + 1 /\ cNestings'[s] = cNestings[s] + 1
  BY <1>1, <1>2, <1>3, <1>4 DEF TypeOK
<1>7. cLockers' \in [Sects -> Nat \cup {-1}] /\ cNestings' \in [Sects -> Nat]
  BY <1>1, <1>2, <1>3, <1>6 DEF TypeOK
<1>0. /\ call' = [call EXCEPT ![th] = Idle] /\ ctx' \in [Threads -> Contexts]
      /\ held' \in [Threads -> [Sects -> Nat]]
  BY <1>2, EnteredFacts
<1>8. TypeOK'  BY <1>0, <1>1, <1>3, <1>5, <1>7 DEF TypeOK
<1>9. Only(th, s) /\ ContextOK(th)
  BY <1>1, <1>2, <1>3, EnteredFacts DEF Only, TypeOK
<1>10. Mine(th, s)  BY <1>2, <1>3, <1>4 DEF Mine, NoToken
<1>11. FitsAt(th, s, Idle.pc)
  <2>1. eventToSignal[s] => ctx'[th] = "R3"  BY <1>2, <1>4, EnteredFacts
  <2>2. SectOK(s)'
    <3>1. cNestings[s] + 1 >= 1 /\ cLockers[s] + 1 >= cNestings[s] + 1 - 1  BY <1>4, <1>6
    <3> QED BY <1>2, <1>3, <1>4, <1>6, <2>1, <3>1, NoneAssumption DEF SectOK
  <2>3. /\ held'[th][s] = held[th][s] + 1 /\ One(Leaving(th, s)) = 0
        /\ One("idle" \in LeavePcs) = 0 /\ One(Queued(th, s)) \in Nat
    BY <1>2, EnteredFacts DEF One, LeavePcs
  <2>4. cNestings'[s] = held'[th][s] + One(Queued(th, s)) + One("idle" \in LeavePcs)
    BY <1>4, <1>6, <2>3
  <2> QED BY <1>2, <1>3, <1>4, <1>5, <2>2, <2>4 DEF FitsAt, TokenPcs, LeavePcs
<1>12. call[th].i = 0 /\ Sect(th) = s /\ queue' = queue /\ Idle.op \notin OneSect /\ ~ (Idle.i > 0)
  BY <1>2, <1>3, <1>5 DEF OneSect
<1> QED BY <1>0, <1>5, <1>8, <1>9, <1>10, <1>11, <1>12, MoveKeeps

-----------------------------------------------------------------------------
(* Leaving. *)

\* Where a thread is once its leave is done.
LeftTo(th, s, c) ==
  /\ call' = [call EXCEPT ![th] = c] /\ c.i = call[th].i
  /\ c.pc \in {"ff", "try", "idle"}
  /\ c.i > 0 => c.pc = "ff"
  /\ c.i = 0 => c.pc # "ff" /\ (c.pc # "idle" => c.sect = s)
  /\ c.op \in OneSect => c.sect \in Sects
  /\ c.op = "CallEnter" => ctx[th] = "Call" /\ c.pc # "idle"

LEMMA LeftFacts ==
  ASSUME IInv, NEW th \in Threads, NEW s \in Sects, Sect(th) = s, Left(th)
  PROVE  \E c \in OneCall : LeftTo(th, s, c)
<1>1. TypeOK /\ CallOK(th) /\ call[th] \in OneCall /\ call[th].i \in Nat
  BY DEF IInv, TypeOK, OneCall
<1>2. CASE call[th].i > 0
  <2> DEFINE c == [call[th] EXCEPT !.pc = "ff"]
  <2>1. call' = [call EXCEPT ![th] = c]  BY <1>1, <1>2 DEF Left, TypeOK
  <2>2. c \in OneCall /\ LeftTo(th, s, c)
    BY <1>1, <1>2, <2>1 DEF LeftTo, OneCall, CallOK, OneSect
  <2> QED BY <2>2
<1>3. CASE call[th].i = 0 /\ call[th].op = "Yield"
  <2> DEFINE c == [call[th] EXCEPT !.pc = "try"]
  <2>1. call' = [call EXCEPT ![th] = c]  BY <1>1, <1>3 DEF Left, TypeOK
  <2>2. c \in OneCall /\ LeftTo(th, s, c)
    BY <1>1, <1>3, <2>1 DEF LeftTo, OneCall, Sect
  <2> QED BY <2>2
<1>4. CASE call[th].i = 0 /\ call[th].op # "Yield"
  <2>1. call' = [call EXCEPT ![th] = Idle]  BY <1>1, <1>4 DEF Left, TypeOK
  <2>2. Idle \in OneCall /\ Idle.i = 0 /\ Idle.pc = "idle" /\ Idle.op = "none"
    BY IdleType DEF Idle
  <2>3. LeftTo(th, s, Idle)  BY <1>4, <2>1, <2>2 DEF LeftTo, OneSect
  <2> QED BY <2>2, <2>3
<1> QED BY <1>1, <1>2, <1>3, <1>4

(* A step that ends a leave in a section that the thread is not about to leave
   once more keeps the invariant if it does so for the section. *)
LEMMA LeftKeeps ==
  ASSUME IInv, TypeOK', NEW th \in Threads, NEW s \in Sects, Sect(th) = s,
         NEW c \in OneCall, LeftTo(th, s, c), UNCHANGED <<ctx, queue>>,
         Only(th, s), Mine(th, s), SectOK(s)',
         owner'[s] = th => cNestings'[s] = held'[th][s] + One(Queued(th, s)),
         owner'[s] # th => held'[th][s] = 0 /\ ~ Queued(th, s),
         Queued(th, s) => pendingUnlock'[s]
  PROVE  IInv'
<1>1. TypeOK  BY DEF IInv
<1>2. c.pc \notin TokenPcs /\ c.pc \notin LeavePcs /\ c.pc \notin {"cas", "queue"}
  BY DEF LeftTo, TokenPcs, LeavePcs
<1>3. owner'[s] = th => cNestings'[s] = held'[th][s] + One(Queued(th, s)) + One(c.pc \in LeavePcs)
  <2>1. One(c.pc \in LeavePcs) = 0 /\ One(Queued(th, s)) \in Nat  BY <1>2 DEF One
  <2>2. held'[th][s] \in Nat  BY DEF TypeOK
  <2> QED BY <2>1, <2>2
<1>4. FitsAt(th, s, c.pc)  BY <1>2, <1>3 DEF FitsAt
<1>5. ContextOK(th)  BY DEF ContextOK
<1>6. /\ call' = [call EXCEPT ![th] = c] /\ queue' = queue /\ c.i = call[th].i
      /\ c.i > 0 => c.pc \in {"ff", "leave", "lockers", "signal"} /\ ctx'[th] = ctx[th]
      /\ c.i = 0 => c.pc # "ff" /\ (c.pc # "idle" => c.sect = s)
      /\ c.op \in OneSect => c.sect \in Sects
      /\ c.op = "CallEnter" => ctx'[th] = "Call" /\ c.pc # "idle"
  BY DEF LeftTo
<1> QED BY <1>4, <1>5, <1>6, MoveKeeps

LEMMA LeaveNestedKeeps ==
  ASSUME IInv, NEW th \in Threads, LeaveNested(th)
  PROVE  IInv'
<1>1. TypeOK /\ call[th].pc \in LeavePcs  BY DEF IInv, LeaveNested, At, LeavePcs
<1>2. PICK s \in Sects : s = Sect(th) /\ owner[s] = th /\ Leaving(th, s)  BY <1>1, LeavingFacts
<1>3. /\ cNestings[s] > 1 /\ Left(th)
      /\ cLockers' = [cLockers EXCEPT ![s] = @ - 1]
      /\ cNestings' = [cNestings EXCEPT ![s] = @ - 1]
      /\ UNCHANGED <<owner, pendingUnlock, event, eventToSignal, ctx, queue, held, ops>>
  BY <1>2 DEF LeaveNested, Nested
<1>4. /\ NoToken(s) /\ ~ event[s] /\ cNestings[s] >= 1 /\ cLockers[s] >= cNestings[s] - 1
      /\ cNestings[s] = held[th][s] + One(Queued(th, s)) + One(Leaving(th, s))
      /\ Queued(th, s) => pendingUnlock[s]
      /\ eventToSignal[s] => ctx[th] = "R3"
  BY <1>2, OwnerFacts
<1>5. PICK c \in OneCall : LeftTo(th, s, c)  BY <1>2, <1>3, LeftFacts
<1>6. /\ cLockers[s] \in Int /\ cNestings[s] \in Nat /\ held[th][s] \in Nat
      /\ cLockers[s] - 1 \in Nat /\ cNestings[s] - 1 \in Nat
      /\ cLockers'[s] = cLockers[s] - 1 /\ cNestings'[s] = cNestings[s] - 1
  BY <1>1, <1>3, <1>4 DEF TypeOK
<1>7. cLockers' \in [Sects -> Nat \cup {-1}] /\ cNestings' \in [Sects -> Nat]
  BY <1>1, <1>3, <1>6 DEF TypeOK
<1>8. TypeOK'  BY <1>1, <1>3, <1>5, <1>7 DEF TypeOK, LeftTo
<1>9. Only(th, s)  BY <1>1, <1>3 DEF Only, TypeOK
<1>10. Mine(th, s)  BY <1>2, <1>3, <1>4 DEF Mine, NoToken
<1>11. SectOK(s)'
  <2>1. cNestings[s] - 1 >= 1 /\ cLockers[s] - 1 >= cNestings[s] - 1 - 1
    BY <1>3, <1>4, <1>6
  <2> QED BY <1>2, <1>3, <1>4, <1>6, <2>1, NoneAssumption DEF SectOK
<1>12. cNestings'[s] = held'[th][s] + One(Queued(th, s))
  <2>1. One(Leaving(th, s)) = 1 /\ One(Queued(th, s)) \in Nat  BY <1>2 DEF One
  <2> QED BY <1>3, <1>4, <1>6, <2>1
<1>13. /\ owner'[s] = th /\ (Queued(th, s) => pendingUnlock'[s])
       /\ UNCHANGED <<ctx, queue>> /\ Sect(th) = s
  BY <1>2, <1>3, <1>4
<1> QED BY <1>5, <1>8, <1>9, <1>10, <1>11, <1>12, <1>13, LeftKeeps

(* A leaving thread whose section is not nested holds it no more and has not
   queued it. *)
LEMMA LastLeave ==
  ASSUME IInv, NEW th \in Threads, call[th].pc \in LeavePcs, cNestings[Sect(th)] <= 1
  PROVE  /\ cNestings[Sect(th)] = 1
         /\ held[th][Sect(th)] = 0 /\ ~ Queued(th, Sect(th))
<1>1. PICK s \in Sects : s = Sect(th) /\ owner[s] = th /\ Leaving(th, s)  BY LeavingFacts
<1>2. /\ cNestings[s] >= 1
      /\ cNestings[s] = held[th][s] + One(Queued(th, s)) + One(Leaving(th, s))
  BY <1>1, OwnerFacts
<1>3. held[th][s] \in Nat /\ cNestings[s] \in Nat  BY DEF IInv, TypeOK
<1>4. One(Leaving(th, s)) = 1 /\ One(Queued(th, s)) \in {0, 1}  BY <1>1 DEF One
<1>5. held[th][s] = 0 /\ One(Queued(th, s)) = 0 /\ cNestings[s] = 1
  BY <1>1, <1>2, <1>3, <1>4
<1> QED BY <1>1, <1>5 DEF One

LEMMA LeaveReleaseKeeps ==
  ASSUME IInv, NEW th \in Threads, LeaveRelease(th)
  PROVE  IInv'
<1> DEFINE c == [call[th] EXCEPT !.pc = "lockers"]
<1>1. /\ TypeOK /\ CallOK(th) /\ call[th].pc = "leave" /\ call[th].pc \in LeavePcs
      /\ cNestings[Sect(th)] \in Nat
  BY LeavingFacts DEF IInv, LeaveRelease, At, LeavePcs, TypeOK
<1>2. PICK s \in Sects : s = Sect(th) /\ owner[s] = th  BY <1>1, LeavingFacts
<1>3. /\ ~ (cNestings[s] > 1) /\ TakeEvent(th) /\ call' = [call EXCEPT ![th] = c]
      /\ pendingUnlock' = [pendingUnlock EXCEPT ![s] = FALSE]
      /\ owner' = [owner EXCEPT ![s] = NoThread]
      /\ cNestings' = [cNestings EXCEPT ![s] = @ - 1]
      /\ UNCHANGED <<cLockers, event, ctx, queue, held, ops>>
  BY <1>1, <1>2 DEF LeaveRelease, Nested, Unflag, Goto, TypeOK
<1>4. cNestings[s] = 1 /\ held[th][s] = 0 /\ ~ Queued(th, s)
  BY <1>1, <1>2, <1>3, LastLeave
<1>5. /\ NoToken(s) /\ ~ event[s] /\ cLockers[s] >= 0 /\ (eventToSignal[s] => ctx[th] = "R3")
  <2>1. cLockers[s] >= cNestings[s] - 1 /\ cLockers[s] \in Int
    BY <1>1, <1>2, OwnerFacts DEF TypeOK
  <2> QED BY <1>2, <1>4, <2>1, OwnerFacts
<1>6. /\ eventToSignal' \in [Sects -> BOOLEAN] /\ ~ eventToSignal'[s]
      /\ \A z \in Sects \ {s} : eventToSignal'[z] = eventToSignal[z]
  <2>1. CASE ctx[th] = "RZ"  BY <1>1, <1>2, <1>3, <1>5, <2>1 DEF TakeEvent, TypeOK
  <2>2. CASE ctx[th] # "RZ"  BY <1>1, <1>2, <1>3, <2>2 DEF TakeEvent, TypeOK
  <2> QED BY <2>1, <2>2
<1>7. c \in OneCall /\ c.pc = "lockers" /\ c.i = call[th].i /\ c.op = call[th].op /\ c.sect = call[th].sect
  BY <1>1 DEF TypeOK, OneCall
<1>8. c.i = 0 => c.sect = s  BY <1>1, <1>2, <1>7 DEF Sect, TypeOK, OneCall
<1> HIDE DEF c
<1>9. owner'[s] = NoThread /\ cNestings'[s] = 0 /\ ~ pendingUnlock'[s]
  BY <1>1, <1>3, <1>4 DEF TypeOK
<1>10. cNestings' \in [Sects -> Nat]  BY <1>1, <1>3, <1>4 DEF TypeOK
<1>11. TypeOK'  BY <1>1, <1>3, <1>6, <1>7, <1>10 DEF TypeOK
<1>12. Only(th, s) /\ ContextOK(th)  BY <1>1, <1>3, <1>6 DEF Only, ContextOK, TypeOK
<1>13. Mine(th, s)  BY <1>2, <1>5, <1>9 DEF Mine, NoToken
<1>14. FitsAt(th, s, c.pc)
  <2>1. SectOK(s)'  BY <1>3, <1>5, <1>6, <1>9 DEF SectOK
  <2> QED BY <1>3, <1>4, <1>5, <1>7, <1>9, <2>1, NoneAssumption DEF FitsAt, LeavePcs
<1>15. /\ Sect(th) = s /\ queue' = queue /\ ctx' = ctx /\ call' = [call EXCEPT ![th] = c]
       /\ c.op \in OneSect => c.sect \in Sects
       /\ c.op = "CallEnter" => ctx[th] = "Call"
  BY <1>1, <1>2, <1>3, <1>7 DEF CallOK, OneSect
<1> QED BY <1>7, <1>8, <1>11, <1>12, <1>13, <1>14, <1>15, MoveKeeps

(* Finding out whether somebody waits; what is left to do if so. *)
LEMMA LeaveLockersKeeps ==
  ASSUME IInv, NEW th \in Threads, LeaveLockers(th)
  PROVE  IInv'
<1>1. TypeOK /\ CallOK(th) /\ call[th].pc = "lockers"  BY DEF IInv, LeaveLockers, At
<1>2. PICK s \in Sects : s = Sect(th) /\ Token(th, s)  BY <1>1 DEF CallOK, Token
<1>3. /\ NobodyOwns(s) /\ ~ event[s] /\ cLockers[s] >= 0
      /\ \A u \in Threads \ {th} : ~ Token(u, s)
  BY <1>2, TokenFacts
<1>4. /\ cLockers' = [cLockers EXCEPT ![s] = cLockers[s] - 1]
      /\ UNCHANGED <<cNestings, owner, pendingUnlock, event, eventToSignal, ctx, queue, held, ops>>
  BY <1>2 DEF LeaveLockers
<1>5. /\ cLockers' \in [Sects -> Nat \cup {-1}] /\ cLockers'[s] = cLockers[s] - 1
      /\ cLockers[s] \in Int
  BY <1>1, <1>3, <1>4 DEF TypeOK
<1>6. Only(th, s) /\ ContextOK(th)  BY <1>1, <1>4 DEF Only, ContextOK, TypeOK
<1>7. Mine(th, s)  BY <1>3, <1>4 DEF Mine, NobodyOwns
<1>8. SectOK(s)'  BY <1>3, <1>4 DEF SectOK, NobodyOwns
<1>9. CASE cLockers[s] - 1 >= 0
  <2> DEFINE c == [call[th] EXCEPT !.pc = "signal"]
  <2>1. call' = [call EXCEPT ![th] = c]
    BY <1>1, <1>2, <1>9 DEF LeaveLockers, WaitersLeft, Goto, TypeOK
  <2>2. /\ c \in OneCall /\ c.pc = "signal" /\ c.i = call[th].i /\ c.op = call[th].op
        /\ c.sect = call[th].sect
    BY <1>1 DEF TypeOK, OneCall
  <2>3. c.i = 0 => c.sect = s  BY <1>1, <1>2, <2>2 DEF Sect, TypeOK, OneCall
  <2> HIDE DEF c
  <2>4. TypeOK'  BY <1>1, <1>4, <1>5, <2>1, <2>2 DEF TypeOK
  <2>5. FitsAt(th, s, c.pc)
    BY <1>3, <1>4, <1>5, <1>8, <1>9, <2>2, NoneAssumption DEF FitsAt, NobodyOwns, LeavePcs
  <2>6. /\ Sect(th) = s /\ queue' = queue /\ ctx' = ctx
        /\ c.op \in OneSect => c.sect \in Sects
        /\ c.op = "CallEnter" => ctx[th] = "Call"
    BY <1>1, <1>2, <1>4, <2>2 DEF CallOK, OneSect
  <2> QED BY <1>6, <1>7, <2>1, <2>2, <2>3, <2>4, <2>5, <2>6, MoveKeeps
<1>10. CASE ~ (cLockers[s] - 1 >= 0)
  <2>1. Left(th)  BY <1>2, <1>10 DEF LeaveLockers, WaitersLeft
  <2>2. PICK c \in OneCall : LeftTo(th, s, c)  BY <1>2, <2>1, LeftFacts
  <2>3. TypeOK'  BY <1>1, <1>4, <1>5, <2>2 DEF TypeOK, LeftTo
  <2>4. /\ owner'[s] # th /\ held'[th][s] = 0 /\ ~ Queued(th, s) /\ Sect(th) = s
        /\ UNCHANGED <<ctx, queue>>
    BY <1>2, <1>3, <1>4, NoneAssumption DEF NobodyOwns
  <2> QED BY <1>6, <1>7, <1>8, <2>2, <2>3, <2>4, LeftKeeps
<1> QED BY <1>9, <1>10

LEMMA LeaveSignalKeeps ==
  ASSUME IInv, NEW th \in Threads, LeaveSignal(th)
  PROVE  IInv'
<1>1. TypeOK /\ CallOK(th) /\ call[th].pc = "signal"  BY DEF IInv, LeaveSignal, At
<1>2. PICK s \in Sects : s = Sect(th) /\ Token(th, s)  BY <1>1 DEF CallOK, Token
<1>3. /\ NobodyOwns(s) /\ cLockers[s] >= 0 /\ \A u \in Threads \ {th} : ~ Token(u, s)
  BY <1>2, TokenFacts
<1>4. /\ event' = [event EXCEPT ![s] = TRUE] /\ Left(th)
      /\ UNCHANGED <<cLockers, cNestings, owner, pendingUnlock, eventToSignal, ctx, queue, held, ops>>
  BY <1>2 DEF LeaveSignal
<1>5. PICK c \in OneCall : LeftTo(th, s, c)  BY <1>2, <1>4, LeftFacts
<1>6. TypeOK'  BY <1>1, <1>4, <1>5 DEF TypeOK, LeftTo
<1>7. Only(th, s)  BY <1>1, <1>4 DEF Only, TypeOK
<1>8. Mine(th, s)  BY <1>3, <1>4 DEF Mine, NobodyOwns
<1>9. SectOK(s)'  BY <1>3, <1>4 DEF SectOK, NobodyOwns
<1>10. /\ owner'[s] # th /\ held'[th][s] = 0 /\ ~ Queued(th, s) /\ Sect(th) = s
       /\ UNCHANGED <<ctx, queue>>
  BY <1>2, <1>3, <1>4, NoneAssumption DEF NobodyOwns
<1> QED BY <1>5, <1>6, <1>7, <1>8, <1>9, <1>10, LeftKeeps

(* Leaving where the semaphore cannot be signalled. *)
LEMMA LeaveTryKeeps ==
  ASSUME IInv, NEW th \in Threads, LeaveTry(th)
  PROVE  IInv'
<1>1. /\ TypeOK /\ CallOK(th) /\ call[th].pc = "leave" /\ call[th].pc \in LeavePcs
      /\ ctx[th] = "RZ" /\ cNestings[Sect(th)] \in Nat /\ ~ (cNestings[Sect(th)] > 1)
  BY LeavingFacts DEF IInv, LeaveTry, Nested, At, LeavePcs, TypeOK
<1>2. PICK s \in Sects : s = Sect(th) /\ owner[s] = th /\ Leaving(th, s)  BY <1>1, LeavingFacts
<1>3. call[th].i = 0 /\ call[th].sect = s
  BY <1>1, <1>2 DEF CallOK, Sect, TypeOK, OneCall
<1>4. cNestings[s] = 1 /\ held[th][s] = 0 /\ ~ Queued(th, s)
  BY <1>1, <1>2, LastLeave
<1>5. /\ NoToken(s) /\ ~ event[s] /\ cLockers[s] >= 0 /\ ~ eventToSignal[s]
  <2>1. cLockers[s] >= cNestings[s] - 1 /\ cLockers[s] \in Int
    BY <1>1, <1>2, OwnerFacts DEF TypeOK
  <2> QED BY <1>1, <1>2, <1>4, <2>1, OwnerFacts
<1>6. UNCHANGED <<cLockers, event, eventToSignal, ctx, queue, held, ops>>  BY DEF LeaveTry
<1>7. CASE cLockers[s] = 0
  <2> DEFINE c == [call[th] EXCEPT !.pc = "cas"]
  <2>1. /\ call' = [call EXCEPT ![th] = c]
        /\ cNestings' = [cNestings EXCEPT ![s] = 0]
        /\ pendingUnlock' = [pendingUnlock EXCEPT ![s] = FALSE]
        /\ owner' = [owner EXCEPT ![s] = NoThread]
    BY <1>1, <1>2, <1>7 DEF LeaveTry, Unflag, Goto, TypeOK
  <2>2. /\ c \in OneCall /\ c.pc = "cas" /\ c.i = 0 /\ c.op = call[th].op /\ c.sect = s
    BY <1>1, <1>3 DEF TypeOK, OneCall
  <2> HIDE DEF c
  <2>3. TypeOK'  BY <1>1, <1>6, <2>1, <2>2 DEF TypeOK
  <2>4. owner'[s] = NoThread /\ cNestings'[s] = 0 /\ ~ pendingUnlock'[s]
    BY <1>1, <2>1 DEF TypeOK
  <2>5. Only(th, s) /\ ContextOK(th)  BY <1>1, <1>6, <2>1 DEF Only, ContextOK, TypeOK
  <2>6. Mine(th, s)  BY <1>2, <1>5, <2>4 DEF Mine, NoToken
  <2>7. FitsAt(th, s, c.pc)
    <3>1. SectOK(s)'  BY <1>5, <1>6, <2>4 DEF SectOK
    <3> QED BY <1>1, <1>4, <1>5, <1>6, <2>2, <2>4, <3>1, NoneAssumption DEF FitsAt, LeavePcs
  <2>8. /\ Sect(th) = s /\ queue' = queue /\ ~ (c.i > 0) /\ call[th].i = 0
        /\ c.op = "CallEnter" => ctx'[th] = "Call"
    BY <1>1, <1>2, <1>3, <1>6, <2>2 DEF CallOK
  <2> QED BY <2>1, <2>2, <2>3, <2>5, <2>6, <2>7, <2>8, MoveKeeps
<1>8. CASE cLockers[s] # 0
  <2> DEFINE c == [call[th] EXCEPT !.pc = "queue"]
  <2>1. call' = [call EXCEPT ![th] = c] /\ UNCHANGED <<cNestings, pendingUnlock, owner>>
    BY <1>1, <1>2, <1>8 DEF LeaveTry, Goto, TypeOK
  <2>2. /\ c \in OneCall /\ c.pc = "queue" /\ c.i = 0 /\ c.op = call[th].op /\ c.sect = s
    BY <1>1, <1>3 DEF TypeOK, OneCall
  <2> HIDE DEF c
  <2>3. TypeOK'  BY <1>1, <1>6, <2>1, <2>2 DEF TypeOK
  <2>4. Only(th, s) /\ ContextOK(th)  BY <1>1, <1>6, <2>1 DEF Only, ContextOK, TypeOK
  <2>5. Mine(th, s)  BY <1>2, <1>5, <2>1 DEF Mine, NoToken
  <2>6. FitsAt(th, s, c.pc)
    <3>1. SectOK(s)'  BY <1>6, <2>1 DEF IInv, SectOK
    <3>2. One(c.pc \in LeavePcs) = 1 /\ One(Queued(th, s)) = 0  BY <1>4, <2>2 DEF One, LeavePcs
    <3> QED BY <1>1, <1>2, <1>4, <1>6, <2>1, <2>2, <3>1, <3>2 DEF FitsAt, TokenPcs
  <2>7. /\ Sect(th) = s /\ queue' = queue /\ ~ (c.i > 0) /\ call[th].i = 0
        /\ c.op = "CallEnter" => ctx'[th] = "Call"
    BY <1>1, <1>2, <1>3, <1>6, <2>2 DEF CallOK
  <2> QED BY <2>1, <2>2, <2>3, <2>4, <2>5, <2>6, <2>7, MoveKeeps
<1> QED BY <1>7, <1>8

(* The compare-and-swap of that leave, and putting the owner back. *)
LEMMA LeaveCasKeeps ==
  ASSUME IInv, NEW th \in Threads, LeaveCas(th)
  PROVE  IInv'
<1>1. /\ TypeOK /\ CallOK(th) /\ call[th].pc = "cas" /\ ctx[th] = "RZ" /\ call[th].i = 0
  BY DEF IInv, LeaveCas, At, CallOK
<1>2. PICK s \in Sects : s = Sect(th) /\ Token(th, s) /\ call[th].sect = s
  BY <1>1 DEF CallOK, Token, Sect
<1>3. /\ NobodyOwns(s) /\ ~ event[s] /\ cLockers[s] >= 0
      /\ \A u \in Threads \ {th} : ~ Token(u, s)
  BY <1>2, TokenFacts
<1>4. UNCHANGED <<pendingUnlock, event, eventToSignal, ctx, queue, held, ops>>  BY DEF LeaveCas
<1>5. CASE cLockers[s] = 0
  <2>1. cLockers' = [cLockers EXCEPT ![s] = -1] /\ Left(th) /\ UNCHANGED <<owner, cNestings>>
    BY <1>2, <1>5 DEF LeaveCas, LeaveCasOK
  <2>2. PICK c \in OneCall : LeftTo(th, s, c)  BY <1>2, <2>1, LeftFacts
  <2>3. TypeOK'  BY <1>1, <1>4, <2>1, <2>2 DEF TypeOK, LeftTo
  <2>4. Only(th, s)  BY <1>1, <1>4, <2>1 DEF Only, TypeOK
  <2>5. Mine(th, s)  BY <1>3, <2>1 DEF Mine, NobodyOwns
  <2>6. SectOK(s)'  BY <1>3, <1>4, <2>1 DEF SectOK, NobodyOwns
  <2>7. /\ owner'[s] # th /\ held'[th][s] = 0 /\ ~ Queued(th, s) /\ Sect(th) = s
        /\ UNCHANGED <<ctx, queue>>
    BY <1>2, <1>3, <1>4, <2>1, NoneAssumption DEF NobodyOwns
  <2> QED BY <2>2, <2>3, <2>4, <2>5, <2>6, <2>7, LeftKeeps
<1>6. CASE cLockers[s] # 0
  <2> DEFINE c == [call[th] EXCEPT !.pc = "queue"]
  <2>1. /\ call' = [call EXCEPT ![th] = c] /\ UNCHANGED cLockers
        /\ owner' = [owner EXCEPT ![s] = th]
        /\ cNestings' = [cNestings EXCEPT ![s] = 1]
    BY <1>1, <1>2, <1>6 DEF LeaveCas, LeaveCasOK, Restore, Goto, TypeOK
  <2>2. /\ c \in OneCall /\ c.pc = "queue" /\ c.i = 0 /\ c.op = call[th].op /\ c.sect = s
    BY <1>1, <1>2 DEF TypeOK, OneCall
  <2> HIDE DEF c
  <2>3. TypeOK'  BY <1>1, <1>4, <2>1, <2>2 DEF TypeOK
  <2>4. owner'[s] = th /\ cNestings'[s] = 1  BY <1>1, <2>1 DEF TypeOK
  <2>5. Only(th, s) /\ ContextOK(th)  BY <1>1, <1>4, <2>1 DEF Only, ContextOK, TypeOK
  <2>6. Mine(th, s)  BY <1>3, <2>4 DEF Mine, NobodyOwns
  <2>7. FitsAt(th, s, c.pc)
    <3>1. SectOK(s)'  BY <1>3, <1>4, <2>1, <2>4, NoneAssumption DEF SectOK, NobodyOwns
    <3>2. One(c.pc \in LeavePcs) = 1 /\ One(Queued(th, s)) = 0 /\ held'[th][s] = 0
      BY <1>3, <1>4, <2>2 DEF One, LeavePcs, NobodyOwns
    <3> QED BY <1>1, <1>3, <1>4, <2>2, <2>4, <3>1, <3>2 DEF FitsAt, TokenPcs, NobodyOwns
  <2>8. /\ Sect(th) = s /\ queue' = queue /\ ~ (c.i > 0) /\ call[th].i = 0
        /\ c.op = "CallEnter" => ctx'[th] = "Call"
    BY <1>1, <1>2, <1>4, <2>2 DEF CallOK
  <2> QED BY <2>1, <2>2, <2>3, <2>5, <2>6, <2>7, <2>8, MoveKeeps
<1> QED BY <1>5, <1>6

(* Queueing the section for ring-3. *)
LEMMA LeaveQueueKeeps ==
  ASSUME IInv, NEW th \in Threads, LeaveQueue(th)
  PROVE  IInv'
<1>1. /\ TypeOK /\ QueuedOnce /\ CallOK(th) /\ call[th].pc = "queue" /\ call[th].pc \in LeavePcs
      /\ call[th].i = 0
  BY DEF IInv, LeaveQueue, At, LeavePcs, CallOK
<1>2. PICK s \in Sects : s = Sect(th) /\ owner[s] = th /\ Leaving(th, s)  BY <1>1, LeavingFacts
<1>3. cNestings[s] = 1 /\ held[th][s] = 0 /\ ~ Queued(th, s)
  <2>1. cNestings[s] = 1  BY <1>1, <1>2 DEF CallOK
  <2> QED BY <1>1, <1>2, <2>1, LastLeave
<1>4. NoToken(s) /\ ~ event[s]  BY <1>2, OwnerFacts
<1>5. /\ pendingUnlock' = [pendingUnlock EXCEPT ![s] = TRUE]
      /\ queue' = [queue EXCEPT ![th] = Append(queue[th], s)] /\ Left(th)
      /\ UNCHANGED <<cLockers, cNestings, owner, event, eventToSignal, ctx, held, ops>>
  BY <1>2 DEF LeaveQueue, Flag
<1>6. PICK c \in OneCall : LeftTo(th, s, c)  BY <1>2, <1>5, LeftFacts
<1> DEFINE n == Len(queue[th])
<1>7. /\ queue[th] \in Seq(Sects) /\ n \in Nat /\ DOMAIN queue[th] = 1..n
      /\ \A j \in 1..n : queue[th][j] # s
  BY <1>1, <1>3, LenProperties DEF TypeOK, Queued
<1>8. /\ queue'[th] = Append(queue[th], s) /\ queue'[th] \in Seq(Sects)
      /\ Len(queue'[th]) = n + 1 /\ DOMAIN queue'[th] = 1..(n + 1)
      /\ queue'[th][n + 1] = s /\ \A j \in 1..n : queue'[th][j] = queue[th][j]
  <2>1. queue'[th] = Append(queue[th], s)  BY <1>1, <1>5 DEF TypeOK
  <2> QED BY <1>7, <2>1, AppendProperties, LenProperties
<1>9. call'[th] = c /\ c.i = 0  BY <1>1, <1>6 DEF LeftTo, TypeOK
<1>10. TypeOK'
  <2>1. queue' \in [Threads -> Seq(Sects)]  BY <1>1, <1>5, <1>8 DEF TypeOK
  <2> QED BY <1>1, <1>5, <1>6, <2>1 DEF TypeOK, LeftTo
<1>11. CallOK(th)'
  <2>1. c.pc \in {"try", "idle"} /\ (c.pc = "try" => Sect(th)' = s)
    BY <1>6, <1>9 DEF LeftTo, Sect
  <2> QED BY <1>5, <1>6, <1>7, <1>8, <1>9, <2>1 DEF CallOK, LeftTo, OneSect
<1>12. \A i, j \in DOMAIN queue'[th] : queue'[th][i] = queue'[th][j] => i = j
  <2>1. \A i, j \in 1..n : queue'[th][i] = queue'[th][j] => i = j
    BY <1>1, <1>7, <1>8 DEF QueuedOnce
  <2>2. \A i \in 1..(n + 1) : i \in 1..n \/ i = n + 1  BY <1>7
  <2> QED BY <1>7, <1>8, <2>1, <2>2
<1>13. Others(th) /\ ContextOK(th)
  BY <1>1, <1>5, <1>6 DEF Others, ContextOK, TypeOK, LeftTo
<1>14. OwnOK(th)  BY <1>10, <1>11, <1>12, <1>13 DEF OwnOK
<1>15. ~ Token(th, s)' /\ ~ Leaving(th, s)' /\ Queued(th, s)'
       /\ \A z \in Sects : ~ Token(th, z)' /\ ~ Leaving(th, z)'
  <2>1. c.pc \in {"try", "idle"}  BY <1>6, <1>9 DEF LeftTo
  <2>2. Queued(th, s)'  BY <1>7, <1>8, <1>9 DEF Queued
  <2> QED BY <1>9, <2>1, <2>2 DEF Token, Leaving
<1>16. \A z \in Sects \ {s} : SameFor(th, z) /\ SameSect(z)
  <2> SUFFICES ASSUME NEW z \in Sects \ {s} PROVE SameFor(th, z) /\ SameSect(z)  OBVIOUS
  <2>1. Queued(th, z)' <=> Queued(th, z)
    BY <1>1, <1>7, <1>8, <1>9 DEF Queued
  <2>2. ~ Token(th, z) /\ ~ Leaving(th, z)  BY <1>1, <1>2 DEF Token, Leaving
  <2>3. cLockers[z] \in Int  BY <1>1 DEF TypeOK
  <2> QED BY <1>1, <1>5, <1>15, <2>1, <2>2, <2>3 DEF SameFor, SameSect, TypeOK
<1>17. Mine(th, s)  BY <1>2, <1>4, <1>5 DEF Mine, NoToken
<1>18. pendingUnlock'[s]  BY <1>1, <1>5 DEF TypeOK
<1>19. SectOK(s)'  BY <1>2, <1>5, NoneAssumption DEF IInv, SectOK
<1>20. NestOK(th, s)'  BY <1>2, <1>3, <1>5, <1>15, <1>18 DEF NestOK, One
<1> QED BY <1>14, <1>15, <1>16, <1>17, <1>19, <1>20, Keeps

(* Coming to the next section on the queue. *)
LEMMA FFNextKeeps ==
  ASSUME IInv, NEW th \in Threads, FFNext(th)
  PROVE  IInv'
<1> DEFINE c == [call[th] EXCEPT !.pc = "leave", !.i = call[th].i + 1]
           n == Len(queue[th])
<1>1. /\ TypeOK /\ QueuedOnce /\ CallOK(th) /\ call[th].pc = "ff" /\ call[th] \in OneCall
      /\ call[th].i \in Nat
  BY DEF IInv, FFNext, At, TypeOK, OneCall
<1>2. /\ call[th].i < n /\ call' = [call EXCEPT ![th] = c]
      /\ UNCHANGED <<LockVars, ctx, queue, held, ops>>
  BY <1>1 DEF FFNext, TypeOK
<1>3. /\ c \in OneCall /\ c.pc = "leave" /\ c.i = call[th].i + 1
      /\ c.op = call[th].op /\ c.sect = call[th].sect
  <2>1. call[th].i + 1 \in Nat  BY <1>1
  <2> QED BY <1>1, <2>1 DEF OneCall
<1> HIDE DEF c
<1>4. /\ n \in Nat /\ DOMAIN queue[th] = 1..n /\ c.i \in 1..n
      /\ \A j \in 1..n : queue[th][j] \in Sects
  BY <1>1, <1>2, <1>3, LenProperties, ElementOfSeq DEF TypeOK
<1>5. PICK s \in Sects : s = queue[th][c.i]  BY <1>4
<1>6. call'[th] = c /\ queue'[th] = queue[th] /\ Sect(th)' = s
  <2>1. call'[th] = c /\ queue'[th] = queue[th] /\ c.i > 0  BY <1>1, <1>2, <1>4 DEF TypeOK
  <2> QED BY <1>5, <2>1 DEF Sect
<1>7. TypeOK'  BY <1>1, <1>2, <1>3 DEF TypeOK, LockVars
<1>8. CallOK(th)'
  BY <1>1, <1>2, <1>3, <1>4, <1>6 DEF CallOK
<1>9. Others(th) /\ ContextOK(th)  BY <1>1, <1>2 DEF Others, ContextOK, TypeOK
<1>10. OwnOK(th)  BY <1>1, <1>6, <1>7, <1>8, <1>9 DEF OwnOK, QueuedOnce
<1>11. Queued(th, s) /\ ~ Queued(th, s)'
  <2>1. Queued(th, s)  BY <1>1, <1>3, <1>4, <1>5 DEF Queued
  <2>2. \A j \in 1..n : queue[th][j] = s => j = c.i  BY <1>1, <1>4, <1>5 DEF QueuedOnce
  <2>3. ~ Queued(th, s)'  BY <1>4, <1>6, <2>2 DEF Queued
  <2> QED BY <2>1, <2>3
<1>12. \A z \in Sects \ {s} : Queued(th, z)' <=> Queued(th, z)
  <2> SUFFICES ASSUME NEW z \in Sects \ {s} PROVE Queued(th, z)' <=> Queued(th, z)  OBVIOUS
  <2>1. \A j \in 1..n : queue[th][j] = z => (j > c.i <=> j > call[th].i)
    BY <1>1, <1>3, <1>4, <1>5
  <2> QED BY <1>4, <1>6, <2>1 DEF Queued
<1>13. /\ \A z \in Sects : ~ Token(th, z) /\ ~ Leaving(th, z) /\ ~ Token(th, z)'
       /\ \A z \in Sects \ {s} : ~ Leaving(th, z)'
       /\ Leaving(th, s)'
  BY <1>1, <1>3, <1>6 DEF Token, Leaving
<1>14. \A z \in Sects \ {s} : SameFor(th, z) /\ SameSect(z)
  <2>1. \A z \in Sects : cLockers[z] \in Int  BY <1>1 DEF TypeOK
  <2> QED BY <1>2, <1>12, <1>13, <2>1 DEF SameFor, SameSect, LockVars
<1>15. owner[s] = th  BY <1>11 DEF IInv, NestOK
<1>16. Mine(th, s)  BY <1>2, <1>15, OwnerFacts DEF Mine, NoToken, LockVars
<1>17. SectOK(s)'  BY <1>2 DEF IInv, SectOK, LockVars
<1>18. NestOK(th, s)'
  <2>1. /\ One(Queued(th, s)) = 1 /\ One(Leaving(th, s)) = 0
        /\ One(Queued(th, s)') = 0 /\ One(Leaving(th, s)') = 1
    BY <1>11, <1>13 DEF One
  <2>2. cNestings[s] = held[th][s] + 1 + 0  BY <1>15, <2>1, OwnerFacts
  <2>3. held[th][s] \in Nat  BY <1>1 DEF TypeOK
  <2>4. cNestings[s] = held[th][s] + One(Queued(th, s)') + One(Leaving(th, s)')
    BY <2>1, <2>2, <2>3
  <2> QED BY <1>2, <1>11, <1>15, <2>4 DEF NestOK, LockVars, One
<1> QED BY <1>10, <1>13, <1>14, <1>16, <1>17, <1>18, Keeps

-----------------------------------------------------------------------------
LEMMA InitIInv == Init => IInv
<1> SUFFICES ASSUME Init PROVE IInv  OBVIOUS
<1>1. TypeOK  BY IdleType, EmptySeq DEF Init, TypeOK, Contexts
<1>2. \A th \in Threads : call[th].pc = "idle" /\ call[th].i = 0 /\ call[th].op = "none"
                          /\ queue[th] = <<>> /\ Len(queue[th]) = 0 /\ DOMAIN queue[th] = {}
  BY EmptySeq DEF Init, Idle
<1>3. QueuedOnce  BY <1>2 DEF QueuedOnce
<1>4. \A th \in Threads : CallOK(th)  BY <1>2 DEF CallOK
<1>5. \A s \in Sects : SectOK(s)  BY DEF Init, SectOK
<1>6. \A th \in Threads, s \in Sects : TokenOK(th, s) /\ NestOK(th, s)
  BY <1>2, NoneAssumption DEF Init, TokenOK, NestOK, Token, Leaving, Queued, One
<1> QED BY <1>1, <1>3, <1>4, <1>5, <1>6 DEF IInv

LEMMA NextIInv == IInv /\ [Next]_vars => IInv'
<1> SUFFICES ASSUME IInv, [Next]_vars PROVE IInv'  OBVIOUS
<1>1. ASSUME NEW th \in Threads, Use(th) PROVE IInv'
  BY <1>1, BeginsToEnter, BeginsToLeave, SchedulesExitEvent, ChangesContext DEF Use
<1>2. ASSUME NEW th \in Threads, Step(th) PROVE IInv'
  <2>1. CASE EnterGrab(th) \/ EnterWait(th)  BY <2>1, WinKeeps
  <2>2. CASE EnterContended(th)
    <3>1. CASE cLockers[Sect(th)] = -1  BY <2>2, <3>1, WinKeeps
    <3>2. CASE cLockers[Sect(th)] # -1  BY <2>2, <3>2, EntersOutside
    <3> QED BY <3>1, <3>2
  <2>3. CASE EnterFirst(th) \/ EnterNested(th)
    BY <2>3, EnterFirstKeeps, EnterNestedKeeps
  <2>4. CASE EnterBusy(th) \/ EnterReturnBusy(th) \/ EnterCallRing3(th)
    BY <2>4, EntersOutside
  <2>5. CASE LeaveNested(th) \/ LeaveRelease(th) \/ LeaveLockers(th) \/ LeaveSignal(th)
    BY <2>5, LeaveNestedKeeps, LeaveReleaseKeeps, LeaveLockersKeeps, LeaveSignalKeeps
  <2>6. CASE LeaveTry(th) \/ LeaveCas(th) \/ LeaveQueue(th)
    BY <2>6, LeaveTryKeeps, LeaveCasKeeps, LeaveQueueKeeps
  <2>7. CASE ForcedActions(th) \/ FFNext(th) \/ FFDone(th)
    BY <2>7, StartsForcedActions, FFNextKeeps, EndsForcedActions
  <2> QED BY <1>2, <2>1, <2>2, <2>3, <2>4, <2>5, <2>6, <2>7 DEF Step
<1>3. ASSUME NEW th \in Threads, PDMCritSectLeave(th) \/ ReturnToRing3(th) \/ ResumeRZ(th)
      PROVE IInv'
  BY <1>3, BeginsToLeave, ChangesContext
<1>4. CASE UNCHANGED vars
  <2> USE <1>4 DEF vars
  <2>1. TypeOK' /\ QueuedOnce'  BY DEF IInv, TypeOK, QueuedOnce
  <2>2. \A th \in Threads : CallOK(th)'  BY DEF IInv, CallOK, Sect
  <2>3. \A s \in Sects : SectOK(s)'  BY DEF IInv, SectOK
  <2>4. \A th \in Threads, s \in Sects : TokenOK(th, s)' /\ NestOK(th, s)'
    <3>1. \A th \in Threads, s \in Sects :
            /\ Token(th, s)' <=> Token(th, s)
            /\ Leaving(th, s)' <=> Leaving(th, s)
            /\ Queued(th, s)' <=> Queued(th, s)
      BY Unchanged
    <3> QED BY <3>1 DEF IInv, TokenOK, NestOK, One
  <2> QED BY <2>1, <2>2, <2>3, <2>4 DEF IInv
<1> QED BY <1>1, <1>2, <1>3, <1>4 DEF Next

-----------------------------------------------------------------------------
(* The inductive invariant holds in every reachable state. *)
THEOREM Inductive == Spec => []IInv
BY InitIInv, NextIInv, PTL DEF Spec

(* Whatever the threads, sections and bounds, the fields of the sections keep
   their types: no counter drops below the value of a free section. *)
THEOREM TypeCorrect == Spec => []TypeOK
<1>1. IInv => TypeOK  BY DEF IInv
<1> QED BY <1>1, Inductive, PTL

(* Two threads are never inside the same critical section, for every number of
   EMTs and other threads, in every mix of ring-3, ring-0 and raw mode. *)
THEOREM Exclusion == Spec => []MutualExclusion
<1>1. IInv => MutualExclusion
  <2> SUFFICES ASSUME IInv, NEW s \in Sects, NEW t \in Threads, NEW u \in Threads,
                      held[t][s] > 0, held[u][s] > 0
               PROVE  t = u
    BY DEF MutualExclusion
  <2>1. owner[s] = t /\ owner[s] = u  BY DEF IInv, NestOK
  <2> QED BY <2>1
<1> QED BY <1>1, Inductive, PTL

(* No wake-up is lost: the semaphore is not signalled while it is. *)
THEOREM SignalsAreSeen == Spec => []NoLostSignal
<1>1. IInv => NoLostSignal
  <2> SUFFICES ASSUME IInv, NEW th \in Threads, call[th].pc = "signal" PROVE ~ event[Sect(th)]
    BY DEF NoLostSignal, At
  <2>1. Sect(th) \in Sects /\ Token(th, Sect(th))  BY DEF IInv, CallOK, Token
  <2> QED BY <2>1, TokenFacts
<1> QED BY <1>1, Inductive, PTL

(* The assertions of pdmCritSectEnterFirst never fail. *)
THEOREM WinnerFindsItFree == Spec => []EnterFirstOK
<1>1. IInv => EnterFirstOK
  <2> SUFFICES ASSUME IInv, NEW th \in Threads, call[th].pc = "first"
               PROVE  /\ owner[Sect(th)] = NoThread /\ cNestings[Sect(th)] = 0
                      /\ ~ pendingUnlock[Sect(th)]
    BY DEF EnterFirstOK, At
  <2>1. Sect(th) \in Sects /\ Token(th, Sect(th))  BY DEF IInv, CallOK, Token
  <2> QED BY <2>1, TokenFacts DEF NobodyOwns
<1> QED BY <1>1, Inductive, PTL

(* The release assertion of PDMCritSectLeave never fails, for the leaves of the
   users nor for those carried out for the queue. *)
THEOREM OnlyOwnersLeave == Spec => []LeaveByOwner
<1>1. IInv => LeaveByOwner
  <2> SUFFICES ASSUME IInv, NEW th \in Threads, call[th].pc = "leave"
               PROVE  owner[Sect(th)] = th /\ cNestings[Sect(th)] >= 1
    BY DEF LeaveByOwner, At
  <2>1. Sect(th) \in Sects /\ owner[Sect(th)] = th  BY LeavingFacts DEF LeavePcs
  <2> QED BY <2>1, OwnerFacts
<1> QED BY <1>1, Inductive, PTL

(* The queue of an EMT holds no section twice, so that it never needs more
   entries than there are sections. *)
THEOREM NothingQueuedTwice == Spec => []QueuedOnce
<1>1. IInv => QueuedOnce  BY DEF IInv
<1> QED BY <1>1, Inductive, PTL

(* An exit event is taken by the owner who scheduled it, never by a later one. *)
THEOREM ExitEventTaken == Spec => []ExitEventOwned
<1>1. IInv => ExitEventOwned
  BY DEF IInv, SectOK, ExitEventOwned
<1> QED BY <1>1, Inductive, PTL

(* PDMCritSectIsOwner never claims an ownership that the caller does not have. *)
THEOREM OwnershipAnswers == Spec => []IsOwnerSound
<1>1. IInv => IsOwnerSound
  <2> SUFFICES ASSUME IInv, NEW th \in Threads, NEW s \in Sects, Ready(th)
               PROVE  /\ IsOwner(th, s) => held[th][s] > 0
                      /\ ctx[th] # "RZ" /\ held[th][s] > 0 => IsOwner(th, s)
    BY DEF IsOwnerSound
  <2>1. /\ ~ Leaving(th, s) /\ held[th][s] \in Nat /\ cNestings[s] \in Nat
        /\ ctx[th] # "RZ" => ~ Queued(th, s)
    <3>1. DOMAIN <<>> = {}  BY EmptySeq
    <3> QED BY <3>1 DEF IInv, TypeOK, Ready, At, Leaving, Queued
  <2>2. ASSUME IsOwner(th, s) PROVE held[th][s] > 0
    <3>1. owner[s] = th  BY <2>2 DEF IsOwner
    <3>2. /\ cNestings[s] >= 1 /\ cNestings[s] = held[th][s] + One(Queued(th, s)) + 0
          /\ Queued(th, s) => pendingUnlock[s]
      BY <2>1, <3>1, OwnerFacts DEF One
    <3>3. CASE Queued(th, s)
      <4>1. cNestings[s] > 1  BY <2>1, <2>2, <3>2, <3>3 DEF IsOwner
      <4>2. One(Queued(th, s)) = 1  BY <3>3 DEF One
      <4> QED BY <2>1, <3>2, <4>1, <4>2
    <3>4. CASE ~ Queued(th, s)
      <4>1. One(Queued(th, s)) = 0  BY <3>4 DEF One
      <4> QED BY <2>1, <3>2, <4>1
    <3> QED BY <3>3, <3>4
  <2>3. ASSUME ctx[th] # "RZ", held[th][s] > 0 PROVE IsOwner(th, s)
    BY <2>3 DEF IInv, NestOK, IsOwner
  <2> QED BY <2>2, <2>3
<1> QED BY <1>1, Inductive, PTL

(* No assertion of pdmCritSectEnterFirst, PDMCritSectLeave or the signalling
   can fail. *)
THEOREM AssertionsHold == Spec => []CodeAssertions
<1>1. EnterFirstOK /\ LeaveByOwner /\ NoLostSignal => CodeAssertions  BY DEF CodeAssertions
<1> QED BY <1>1, WinnerFindsItFree, OnlyOwnersLeave, SignalsAreSeen, PTL

(* A section belongs to one thread, with its exit event and what is answered
   about its owner. *)
THEOREM OneOwner == Spec => []Ownership
<1>1. MutualExclusion /\ ExitEventOwned /\ IsOwnerSound => Ownership  BY DEF Ownership
<1> QED BY <1>1, Exclusion, ExitEventTaken, OwnershipAnswers, PTL

-----------------------------------------------------------------------------
(* The sections implement reentrant locks. *)

\* The thread has given up the ownership and may have to take it back.
Between(th, s) == At(th, "cas") /\ Sect(th) = s

\* Who has a section is who is between the steps or else the owner.
UserOK(s) ==
  /\ \A th \in Threads : Between(th, s) => User(s) = th
  /\ (\A th \in Threads : ~ Between(th, s)) => User(s) = owner[s]

LEMMA UserIs == IInv => \A s \in Sects : UserOK(s)
<1> SUFFICES ASSUME IInv, NEW s \in Sects PROVE UserOK(s)  OBVIOUS
<1>1. ASSUME NEW th \in Threads, Between(th, s) PROVE User(s) = th
  <2>1. \A u \in Threads : Between(u, s) => u = th
    <3>1. \A u \in Threads : Between(u, s) => Token(u, s)  BY DEF Between, At, Token
    <3> QED BY <1>1, <3>1, TokenFacts
  <2>2. User(s) = CHOOSE u \in Threads : At(u, "cas") /\ Sect(u) = s
    BY <1>1 DEF User, Between
  <2>3. \E u \in Threads : At(u, "cas") /\ Sect(u) = s  BY <1>1 DEF Between
  <2>4. User(s) \in Threads /\ Between(User(s), s)  BY <2>2, <2>3 DEF Between
  <2> QED BY <2>1, <2>4
<1>2. (\A th \in Threads : ~ Between(th, s)) => User(s) = owner[s]  BY DEF User, Between
<1> QED BY <1>1, <1>2 DEF UserOK

LEMMA UserIsNext == IInv' => (\A s \in Sects : UserOK(s))'
BY UserIs, PTL

(* A section of which neither the owner nor what the thread does between the
   steps of a leave changes has the same user as before. *)
LEMMA UserKept ==
  ASSUME IInv, IInv', NEW th \in Threads, Others(th), NEW s \in Sects,
         Between(th, s)' <=> Between(th, s), owner'[s] = owner[s]
  PROVE  User(s)' = User(s)
<1>1. \A u \in Threads : Between(u, s)' <=> Between(u, s)
  <2> SUFFICES ASSUME NEW u \in Threads, u # th PROVE Between(u, s)' <=> Between(u, s)
    OBVIOUS
  <2>1. call'[u] = call[u] /\ queue'[u] = queue[u]  BY DEF Others
  <2> QED BY <2>1 DEF Between, At, Sect
<1>2. UserOK(s) /\ UserOK(s)'  BY UserIs, UserIsNext
<1>3. CASE \E u \in Threads : Between(u, s)  BY <1>1, <1>2, <1>3 DEF UserOK
<1>4. CASE \A u \in Threads : ~ Between(u, s)  BY <1>1, <1>2, <1>4 DEF UserOK
<1> QED BY <1>3, <1>4

LEMMA LockEnters ==
  ASSUME IInv, NEW th \in Threads, NEW z \in Sects, User(z) \in {NoThread, th}, User(z)' = th,
         \A s \in Sects \ {z} : User(s)' = User(s), held' = [held EXCEPT ![th][z] = @ + 1]
  PROVE  Lock!Enter(th, z)
BY DEF Lock!Enter

LEMMA LockLeaves ==
  ASSUME IInv, NEW th \in Threads, NEW z \in Sects, User(z) = th, held[th][z] > 0,
         \A s \in Sects : User(s)' = User(s), held' = [held EXCEPT ![th][z] = @ - 1]
  PROVE  Lock!Leave(th, z)
BY DEF Lock!Leave

LEMMA LockIsGivenUp ==
  ASSUME IInv, NEW th \in Threads, NEW z \in Sects, User(z) = th, User(z)' = NoThread,
         held[th][z] = 0, \A s \in Sects \ {z} : User(s)' = User(s), UNCHANGED held
  PROVE  Lock!GiveUp(th, z)
BY DEF Lock!GiveUp

(* No step touches the locals of another thread. *)
LEMMA OneThread ==
  ASSUME IInv, NEW th \in Threads,
         \/ Use(th) \/ Step(th) \/ PDMCritSectLeave(th) \/ ReturnToRing3(th) \/ ResumeRZ(th)
  PROVE  Others(th)
<1>1. TypeOK  BY DEF IInv
<1> USE <1>1 DEF TypeOK, Others
<1>2. CASE \/ PDMCritSectEnter(th) \/ PDMCritSectTryEnter(th) \/ PDMCritSectLeave(th)
           \/ PDMR3CritSectYield(th) \/ PDMR3CritSectScheduleExitEvent(th)
  BY <1>2 DEF PDMCritSectEnter, PDMCritSectTryEnter, PDMCritSectLeave, PDMR3CritSectYield,
              PDMR3CritSectScheduleExitEvent, Begin
<1>3. CASE RunGuest(th) \/ CallRing3(th) \/ ReturnToRing3(th) \/ ResumeRZ(th)
  BY <1>3 DEF RunGuest, CallRing3, ReturnToRing3, ResumeRZ
<1>4. CASE EnterGrab(th) \/ EnterBusy(th) \/ EnterContended(th) \/ EnterWait(th)
           \/ EnterReturnBusy(th) \/ EnterCallRing3(th)
  BY <1>4 DEF EnterGrab, EnterBusy, EnterContended, EnterWait, EnterReturnBusy,
              EnterCallRing3, Goto
<1>5. CASE EnterFirst(th) \/ EnterNested(th)
  BY <1>5 DEF EnterFirst, EnterNested, Entered
<1>6. CASE LeaveNested(th) \/ LeaveRelease(th) \/ LeaveLockers(th) \/ LeaveSignal(th)
  BY <1>6 DEF LeaveNested, LeaveRelease, LeaveLockers, LeaveSignal, Left, Goto
<1>7. CASE LeaveTry(th) \/ LeaveCas(th) \/ LeaveQueue(th)
  BY <1>7 DEF LeaveTry, LeaveCas, LeaveQueue, Left, Goto
<1>8. CASE ForcedActions(th) \/ FFNext(th) \/ FFDone(th)
  BY <1>8 DEF ForcedActions, FFNext, FFDone
<1> QED BY <1>2, <1>3, <1>4, <1>5, <1>6, <1>7, <1>8 DEF Use, Step

(* A step that changes no owner, no count of what a thread holds, and starts
   or ends no compare-and-swap of a leave is a stutter of the lock. *)
LEMMA LockStutters ==
  ASSUME IInv, IInv', NEW th \in Threads, Others(th), UNCHANGED <<owner, held>>,
         call[th].pc # "cas", call'[th].pc # "cas"
  PROVE  UNCHANGED Lock!vars
<1>1. \A s \in Sects : ~ Between(th, s) /\ ~ Between(th, s)'  BY DEF Between, At
<1>2. \A s \in Sects : User(s)' = User(s)  BY <1>1, UserKept
<1> QED BY <1>2 DEF Lock!vars

LEMMA UseImplements ==
  ASSUME IInv, IInv', NEW th \in Threads,
         Use(th) \/ PDMCritSectLeave(th) \/ ReturnToRing3(th) \/ ResumeRZ(th)
  PROVE  Lock!Next \/ UNCHANGED Lock!vars
<1>1. TypeOK /\ Others(th)  BY OneThread DEF IInv
<1>2. CASE \/ PDMCritSectEnter(th) \/ PDMCritSectTryEnter(th)
           \/ PDMR3CritSectScheduleExitEvent(th)
           \/ RunGuest(th) \/ CallRing3(th) \/ ReturnToRing3(th) \/ ResumeRZ(th)
  <2>1. UNCHANGED <<owner, held>> /\ call[th].pc # "cas" /\ call'[th].pc # "cas"
    BY <1>1, <1>2
       DEF TypeOK, PDMCritSectEnter, PDMCritSectTryEnter, PDMR3CritSectScheduleExitEvent,
           RunGuest, CallRing3, ReturnToRing3, ResumeRZ, Begin, Ready, At, LockVars
  <2> QED BY <1>1, <2>1, LockStutters
<1>3. CASE PDMCritSectLeave(th) \/ PDMR3CritSectYield(th)
  <2>0. PICK s \in Sects, op \in {"Leave", "Yield"} :
          /\ held[th][s] > 0 /\ Begin(th, op, s, "leave") /\ UNCHANGED owner
          /\ held' = [held EXCEPT ![th][s] = @ - 1]
    BY <1>3 DEF PDMCritSectLeave, PDMR3CritSectYield, Holds, LockVars
  <2>1. /\ held[th][s] > 0 /\ held' = [held EXCEPT ![th][s] = @ - 1] /\ UNCHANGED owner
        /\ call[th].pc = "idle" /\ call'[th].pc = "leave"
    BY <1>1, <2>0 DEF TypeOK, Begin, Ready, At
  <2>2. \A z \in Sects : ~ Between(th, z) /\ ~ Between(th, z)'  BY <2>1 DEF Between, At
  <2>3. \A z \in Sects : User(z)' = User(z)  BY <1>1, <2>1, <2>2, UserKept
  <2>4. owner[s] = th  BY <2>1 DEF IInv, NestOK
  <2>5. \A u \in Threads : ~ Between(u, s)
    <3>1. NoToken(s)  BY <2>4, OwnerFacts
    <3> QED BY <3>1 DEF NoToken, Token, Between, At
  <2>6. User(s) = th  BY <2>4, <2>5, UserIs DEF UserOK
  <2>7. Lock!Leave(th, s)  BY <2>1, <2>3, <2>6, LockLeaves
  <2> QED BY <2>7 DEF Lock!Next
<1> QED BY <1>2, <1>3 DEF Use

LEMMA StepImplements ==
  ASSUME IInv, IInv', NEW th \in Threads, Step(th)
  PROVE  Lock!Next \/ UNCHANGED Lock!vars
<1>1. TypeOK /\ Others(th)  BY OneThread DEF IInv
<1>2. CASE \/ EnterGrab(th) \/ EnterBusy(th) \/ EnterContended(th) \/ EnterWait(th)
           \/ EnterReturnBusy(th) \/ EnterCallRing3(th)
           \/ LeaveNested(th) \/ LeaveLockers(th) \/ LeaveSignal(th) \/ LeaveQueue(th)
           \/ ForcedActions(th) \/ FFNext(th) \/ FFDone(th)
  <2>1. UNCHANGED <<owner, held>>
    BY <1>2 DEF EnterGrab, EnterBusy, EnterContended, EnterWait, EnterReturnBusy, EnterCallRing3,
           LeaveNested, LeaveLockers, LeaveSignal, LeaveQueue, ForcedActions, FFNext, FFDone, LockVars
  <2>2. call[th].pc # "cas"
    BY <1>2 DEF EnterGrab, EnterBusy, EnterContended, EnterWait, EnterReturnBusy, EnterCallRing3,
           LeaveNested, LeaveLockers, LeaveSignal, LeaveQueue, ForcedActions, FFNext, FFDone, At
  <2>3. call'[th].pc # "cas"
    <3>1. CASE EnterGrab(th) \/ EnterBusy(th) \/ EnterContended(th) \/ EnterWait(th)
               \/ EnterReturnBusy(th) \/ EnterCallRing3(th)
      BY <1>1, <3>1 DEF TypeOK, OneCall, EnterGrab, EnterBusy, EnterContended, EnterWait,
                EnterReturnBusy, EnterCallRing3, Goto, Idle, ServiceFirst
    <3>2. CASE LeaveNested(th) \/ LeaveLockers(th) \/ LeaveSignal(th) \/ LeaveQueue(th)
      <4>1. CASE Left(th)  BY <1>1, <4>1 DEF TypeOK, OneCall, Left, Idle
      <4>2. CASE Goto(th, "signal")  BY <1>1, <4>2 DEF TypeOK, OneCall, Goto
      <4> QED BY <3>2, <4>1, <4>2 DEF LeaveNested, LeaveLockers, LeaveSignal, LeaveQueue
    <3>3. CASE ForcedActions(th) \/ FFNext(th) \/ FFDone(th)
      <4>1. CASE ForcedActions(th)  BY <1>1, <4>1 DEF TypeOK, ForcedActions, Idle
      <4>2. CASE FFNext(th)  BY <1>1, <4>2 DEF TypeOK, OneCall, FFNext
      <4>3. CASE FFDone(th)  BY <1>1, <4>3 DEF TypeOK, OneCall, FFDone, Idle
      <4> QED BY <3>3, <4>1, <4>2, <4>3
    <3> QED BY <1>2, <3>1, <3>2, <3>3
  <2> QED BY <1>1, <2>1, <2>2, <2>3, LockStutters
<1>3. CASE EnterFirst(th) \/ EnterNested(th)
  <2>1. call[th].pc \in {"first", "try"} /\ CallOK(th) /\ call[th].i = 0
    BY <1>3 DEF EnterFirst, EnterNested, At, IInv, CallOK
  <2>2. PICK z \in Sects : z = Sect(th)  BY <2>1 DEF CallOK
  <2>3. /\ held' = [held EXCEPT ![th][z] = @ + 1] /\ call'[th].pc = "idle"
        /\ owner'[z] = th /\ \A s \in Sects \ {z} : owner'[s] = owner[s]
    BY <1>1, <1>3, <2>2 DEF TypeOK, EnterFirst, EnterNested, Entered, Idle
  <2>4. \A s \in Sects : ~ Between(th, s) /\ ~ Between(th, s)'  BY <2>1, <2>3 DEF Between, At
  <2>5. \A s \in Sects \ {z} : User(s)' = User(s)  BY <1>1, <2>3, <2>4, UserKept
  <2>6. owner[z] \in {NoThread, th} /\ \A u \in Threads : ~ Between(u, z)
    <3>1. CASE EnterFirst(th)
      <4>1. Token(th, z)  BY <2>2, <3>1 DEF EnterFirst, At, Token
      <4>2. owner[z] = NoThread /\ \A u \in Threads \ {th} : ~ Token(u, z)
        BY <4>1, TokenFacts DEF NobodyOwns
      <4> QED BY <2>4, <4>2 DEF Token, Between, At
    <3>2. CASE EnterNested(th)
      <4>1. owner[z] = th  BY <2>2, <3>2 DEF EnterNested
      <4>2. NoToken(z)  BY <4>1, OwnerFacts
      <4> QED BY <4>1, <4>2 DEF NoToken, Token, Between, At
    <3> QED BY <1>3, <3>1, <3>2
  <2>7. \A u \in Threads : ~ Between(u, z)'
    <3> SUFFICES ASSUME NEW u \in Threads, u # th PROVE ~ Between(u, z)'  BY <2>4
    <3>1. call'[u] = call[u] /\ queue'[u] = queue[u]  BY <1>1 DEF Others
    <3> QED BY <2>6, <3>1 DEF Between, At, Sect
  <2>8. User(z) = owner[z] /\ User(z)' = th
    BY <2>3, <2>6, <2>7, UserIs, UserIsNext DEF UserOK
  <2>9. Lock!Enter(th, z)  BY <2>3, <2>5, <2>6, <2>8, LockEnters
  <2> QED BY <2>9 DEF Lock!Next
<1>4. CASE LeaveRelease(th)
  <2>1. call[th].pc = "leave" /\ call[th].pc \in LeavePcs /\ ~ Nested(Sect(th))
    BY <1>4 DEF LeaveRelease, At, LeavePcs
  <2>2. PICK z \in Sects : z = Sect(th) /\ owner[z] = th  BY <2>1, LeavingFacts
  <2>3. held[th][z] = 0
    <3>1. cNestings[z] \in Nat /\ ~ (cNestings[z] > 1)  BY <1>1, <2>1, <2>2 DEF TypeOK, Nested
    <3> QED BY <2>1, <2>2, <3>1, LastLeave
  <2>4. /\ owner' = [owner EXCEPT ![z] = NoThread] /\ call'[th].pc = "lockers" /\ UNCHANGED held
    BY <1>1, <1>4, <2>2 DEF TypeOK, LeaveRelease, Goto
  <2>5. owner'[z] = NoThread /\ \A s \in Sects \ {z} : owner'[s] = owner[s]
    BY <1>1, <2>4 DEF TypeOK
  <2>6. \A s \in Sects : ~ Between(th, s) /\ ~ Between(th, s)'  BY <2>1, <2>4 DEF Between, At
  <2>7. \A s \in Sects \ {z} : User(s)' = User(s)  BY <1>1, <2>5, <2>6, UserKept
  <2>8. \A u \in Threads : ~ Between(u, z)
    <3>1. NoToken(z)  BY <2>2, OwnerFacts
    <3> QED BY <3>1 DEF NoToken, Token, Between, At
  <2>9. \A u \in Threads : ~ Between(u, z)'
    <3> SUFFICES ASSUME NEW u \in Threads, u # th PROVE ~ Between(u, z)'  BY <2>6
    <3>1. call'[u] = call[u] /\ queue'[u] = queue[u]  BY <1>1 DEF Others
    <3> QED BY <2>8, <3>1 DEF Between, At, Sect
  <2>10. User(z) = th /\ User(z)' = NoThread
    BY <2>2, <2>5, <2>8, <2>9, UserIs, UserIsNext DEF UserOK
  <2>11. Lock!GiveUp(th, z)  BY <2>3, <2>4, <2>7, <2>10, LockIsGivenUp
  <2> QED BY <2>11 DEF Lock!Next
<1>5. CASE LeaveTry(th)
  <2>1. call[th].pc = "leave" /\ call[th].pc \in LeavePcs  BY <1>5 DEF LeaveTry, At, LeavePcs
  <2>2. PICK z \in Sects : z = Sect(th) /\ owner[z] = th  BY <2>1, LeavingFacts
  <2>3. UNCHANGED <<held, queue>>  BY <1>5 DEF LeaveTry
  <2>4. CASE cLockers[z] = 0
    <3>1. owner' = [owner EXCEPT ![z] = NoThread] /\ call' = [call EXCEPT ![th].pc = "cas"]
      BY <1>5, <2>2, <2>4 DEF LeaveTry, Goto
    <3>2. /\ \A s \in Sects \ {z} : owner'[s] = owner[s]
          /\ call'[th].pc = "cas" /\ Sect(th)' = z
      BY <1>1, <2>2, <2>3, <3>1 DEF TypeOK, OneCall, Sect
    <3>3. \A s \in Sects \ {z} : ~ Between(th, s) /\ ~ Between(th, s)'
      BY <2>1, <2>2, <3>2 DEF Between, At
    <3>4. \A s \in Sects \ {z} : User(s)' = User(s)  BY <1>1, <3>2, <3>3, UserKept
    <3>5. User(z) = th
      <4>1. NoToken(z)  BY <2>2, OwnerFacts
      <4>2. \A u \in Threads : ~ Between(u, z)  BY <4>1 DEF NoToken, Token, Between, At
      <4> QED BY <2>2, <4>2, UserIs DEF UserOK
    <3>6. User(z)' = th
      <4>1. Between(th, z)'  BY <3>2 DEF Between, At
      <4> QED BY <4>1, UserIsNext DEF UserOK
    <3> QED BY <2>3, <3>4, <3>5, <3>6 DEF Lock!vars
  <2>5. CASE cLockers[z] # 0
    <3>1. UNCHANGED <<owner, held>> /\ call[th].pc # "cas" /\ call'[th].pc # "cas"
      BY <1>1, <1>5, <2>1, <2>2, <2>3, <2>5 DEF TypeOK, OneCall, LeaveTry, Goto
    <3> QED BY <1>1, <3>1, LockStutters
  <2> QED BY <2>4, <2>5
<1>6. CASE LeaveCas(th)
  <2>1. call[th].pc = "cas" /\ CallOK(th)  BY <1>6 DEF LeaveCas, At, IInv
  <2>2. PICK z \in Sects : z = Sect(th)  BY <2>1 DEF CallOK
  <2>3. Token(th, z) /\ Between(th, z)  BY <2>1, <2>2 DEF Token, Between, At
  <2>4. /\ NobodyOwns(z) /\ \A u \in Threads \ {th} : ~ Token(u, z)
        /\ UNCHANGED held
    BY <1>6, <2>3, TokenFacts DEF LeaveCas
  <2>5. call'[th].pc # "cas"
    BY <1>1, <1>6 DEF TypeOK, OneCall, LeaveCas, Left, Goto, Idle
  <2>6. owner'[z] \in {NoThread, th} /\ \A s \in Sects \ {z} : owner'[s] = owner[s]
    BY <1>1, <1>6, <2>2, <2>4 DEF TypeOK, LeaveCas, Restore, NobodyOwns
  <2>7. \A s \in Sects : ~ Between(th, s)' /\ (s # z => ~ Between(th, s))
    BY <2>2, <2>5 DEF Between, At
  <2>8. \A s \in Sects \ {z} : User(s)' = User(s)  BY <1>1, <2>6, <2>7, UserKept
  <2>9. \A u \in Threads : ~ Between(u, z)'
    <3> SUFFICES ASSUME NEW u \in Threads, u # th PROVE ~ Between(u, z)'  BY <2>7
    <3>1. call'[u] = call[u] /\ queue'[u] = queue[u]  BY <1>1 DEF Others
    <3>2. ~ Between(u, z)  BY <2>4 DEF Token, Between, At
    <3> QED BY <3>1, <3>2 DEF Between, At, Sect
  <2>10. User(z) = th /\ User(z)' = owner'[z]
    BY <2>3, <2>9, UserIs, UserIsNext DEF UserOK
  <2>11. CASE owner'[z] = th
    <3>1. \A s \in Sects : User(s)' = User(s)  BY <2>8, <2>10, <2>11
    <3> QED BY <2>4, <3>1 DEF Lock!vars
  <2>12. CASE owner'[z] = NoThread
    <3>1. held[th][z] = 0  BY <2>4 DEF NobodyOwns
    <3>2. Lock!GiveUp(th, z)  BY <2>4, <2>8, <2>10, <2>12, <3>1, LockIsGivenUp
    <3> QED BY <3>2 DEF Lock!Next
  <2> QED BY <2>6, <2>11, <2>12
<1> QED BY <1>2, <1>3, <1>4, <1>5, <1>6 DEF Step

(* The sections behave as reentrant locks whose release may be delayed: at most
   one thread uses a section, re-enters it at will, and everything that happens
   between a leave in ring-0 and its completion in ring-3 is invisible. *)
THEOREM ReentrantLocks == Spec => ImplementsLock
<1>1. Init => Lock!Init
  <2> SUFFICES ASSUME Init PROVE Lock!Init  OBVIOUS
  <2>1. \A s \in Sects, th \in Threads : ~ (At(th, "cas") /\ Sect(th) = s)
    BY DEF Init, Idle, At
  <2>2. \A s \in Sects : User(s) = NoThread  BY <2>1 DEF User, Init
  <2> QED BY <2>2 DEF Init, Lock!Init
<1>2. IInv /\ IInv' /\ [Next]_vars => [Lock!Next]_(Lock!vars)
  <2> SUFFICES ASSUME IInv, IInv', [Next]_vars PROVE Lock!Next \/ UNCHANGED Lock!vars
    OBVIOUS
  <2>1. CASE UNCHANGED vars
    <3>1. UNCHANGED <<owner, held>> /\ \A u \in Threads : call'[u] = call[u] /\ queue'[u] = queue[u]
      BY <2>1 DEF vars
    <3>2. \A s \in Sects : User(s)' = User(s)
      <4> SUFFICES ASSUME NEW s \in Sects PROVE User(s)' = User(s)  OBVIOUS
      <4>1. \A u \in Threads : Between(u, s)' <=> Between(u, s)  BY <3>1 DEF Between, At, Sect
      <4>2. UserOK(s) /\ UserOK(s)'  BY UserIs, UserIsNext
      <4> QED BY <3>1, <4>1, <4>2 DEF UserOK
    <3> QED BY <3>1, <3>2 DEF Lock!vars
  <2>2. CASE Next  BY <2>2, UseImplements, StepImplements DEF Next
  <2> QED BY <2>1, <2>2
<1> QED BY <1>1, <1>2, Inductive, PTL DEF Spec, ImplementsLock, Lock!Spec

-----------------------------------------------------------------------------
(* cLockers counts everybody.  The count is about all threads at once, so the
   theorem is for a finite number of them. *)

\* The thread is counted in cLockers without being counted in cNestings.
Counted(th, s) == call[th].pc \in {"first", "wait", "lockers", "cas"} /\ Sect(th) = s

CountedSet(s) == {th \in Threads : Counted(th, s)}

LEMMA CountIs ==
  LockersCount <=> \A s \in Sects : cLockers[s] + 1 = cNestings[s] + Cardinality(CountedSet(s))
BY DEF LockersCount, CountedSet, Counted

LEMMA CountIsNext ==
  LockersCount' <=>
    \A s \in Sects : cLockers'[s] + 1 = cNestings'[s] + Cardinality(CountedSet(s)')
BY DEF LockersCount, CountedSet, Counted

(* A step of one thread changes the number by that thread at most. *)
LEMMA CountMoves ==
  ASSUME IsFiniteSet(Threads), NEW th \in Threads, NEW s \in Sects, Others(th)
  PROVE  /\ Cardinality(CountedSet(s)) \in Nat /\ Cardinality(CountedSet(s)') \in Nat
         /\ Cardinality(CountedSet(s)') + One(Counted(th, s))
              = Cardinality(CountedSet(s)) + One(Counted(th, s)')
<1> DEFINE A == CountedSet(s)
           B == CountedSet(s)'
<1>1. \A u \in Threads \ {th} : Counted(u, s)' <=> Counted(u, s)
  BY DEF Others, Counted, Sect
<1>2. A \in SUBSET Threads /\ B \in SUBSET Threads /\ B \ {th} = A \ {th}
      /\ (th \in A <=> Counted(th, s)) /\ (th \in B <=> Counted(th, s)')
  BY <1>1 DEF CountedSet
<1> HIDE DEF A, B
<1>3. IsFiniteSet(A) /\ IsFiniteSet(B)  BY <1>2, FS_Subset
<1>4. Cardinality(A) \in Nat /\ Cardinality(B) \in Nat  BY <1>3, FS_CardinalityType
<1>5. /\ Cardinality(A \ {th}) = IF th \in A THEN Cardinality(A) - 1 ELSE Cardinality(A)
      /\ Cardinality(B \ {th}) = IF th \in B THEN Cardinality(B) - 1 ELSE Cardinality(B)
  BY <1>3, FS_RemoveElement
<1>6. Cardinality(B) + One(Counted(th, s)) = Cardinality(A) + One(Counted(th, s)')
  BY <1>2, <1>4, <1>5 DEF One
<1> QED BY <1>4, <1>6 DEF A, B

(* A step about one section keeps the count of all others, and that of its own
   if what it adds to the counter it adds to what is counted. *)
LEMMA CountKept ==
  ASSUME IsFiniteSet(Threads), IInv, IInv', LockersCount, NEW th \in Threads, Others(th),
         NEW z \in Sects,
         \A s \in Sects \ {z} : /\ cLockers'[s] = cLockers[s] /\ cNestings'[s] = cNestings[s]
                                /\ ~ Counted(th, s) /\ ~ Counted(th, s)',
         cLockers'[z] + cNestings[z] + One(Counted(th, z))
           = cLockers[z] + cNestings'[z] + One(Counted(th, z)')
  PROVE  LockersCount'
<1> SUFFICES ASSUME NEW s \in Sects
             PROVE  cLockers'[s] + 1 = cNestings'[s] + Cardinality(CountedSet(s)')
  BY CountIsNext
<1>1. cLockers[s] + 1 = cNestings[s] + Cardinality(CountedSet(s))  BY CountIs
<1>2. /\ cLockers[s] \in Int /\ cLockers'[s] \in Int
      /\ cNestings[s] \in Int /\ cNestings'[s] \in Int
  BY DEF IInv, TypeOK
<1>3. /\ Cardinality(CountedSet(s)) \in Nat /\ Cardinality(CountedSet(s)') \in Nat
      /\ Cardinality(CountedSet(s)') + One(Counted(th, s))
           = Cardinality(CountedSet(s)) + One(Counted(th, s)')
  BY CountMoves
<1>4. One(Counted(th, s)) \in {0, 1} /\ One(Counted(th, s)') \in {0, 1}  BY DEF One
<1>5. cLockers'[s] + cNestings[s] + One(Counted(th, s))
        = cLockers[s] + cNestings'[s] + One(Counted(th, s)')
  <2>1. CASE s = z  BY <2>1
  <2>2. CASE s # z
    <3>1. One(Counted(th, s)) = 0 /\ One(Counted(th, s)') = 0  BY <2>2 DEF One
    <3> QED BY <1>2, <2>2, <3>1
  <2> QED BY <2>1, <2>2
<1> QED BY <1>1, <1>2, <1>3, <1>4, <1>5

(* A step that changes neither counter, of a thread that is not counted. *)
LEMMA CountUntouched ==
  ASSUME IsFiniteSet(Threads), LockersCount, NEW th \in Threads, Others(th),
         UNCHANGED <<cLockers, cNestings>>,
         \A s \in Sects : Counted(th, s)' <=> Counted(th, s)
  PROVE  LockersCount'
<1> SUFFICES ASSUME NEW s \in Sects PROVE CountedSet(s)' = CountedSet(s)
  BY CountIs, CountIsNext
<1>1. \A u \in Threads \ {th} : Counted(u, s)' <=> Counted(u, s)
  BY DEF Others, Counted, Sect
<1> QED BY <1>1 DEF CountedSet

(* Where a thread is not counted. *)
LEMMA NotCounted ==
  ASSUME NEW th \in Threads,
         call[th].pc \in {"idle", "try", "spin", "leave", "signal", "queue", "ff"},
         call'[th].pc \in {"idle", "try", "spin", "leave", "signal", "queue", "ff"}
  PROVE  \A s \in Sects : ~ Counted(th, s) /\ ~ Counted(th, s)'
BY DEF Counted

(* What a leave that is done leaves behind is not counted. *)
LEMMA LeftUncounted ==
  ASSUME IInv, NEW th \in Threads, Left(th)
  PROVE  call'[th].pc \in {"idle", "try", "ff"}
<1>1. TypeOK  BY DEF IInv
<1> QED BY <1>1 DEF TypeOK, OneCall, Left, Idle

LEMMA UseCounts ==
  ASSUME IsFiniteSet(Threads), IInv, LockersCount, NEW th \in Threads,
         Use(th) \/ PDMCritSectLeave(th) \/ ReturnToRing3(th) \/ ResumeRZ(th)
  PROVE  LockersCount'
<1>1. TypeOK /\ Others(th)  BY OneThread DEF IInv
<1>2. UNCHANGED <<cLockers, cNestings>>
  BY DEF Use, PDMCritSectEnter, PDMCritSectTryEnter, PDMCritSectLeave, PDMR3CritSectYield,
         PDMR3CritSectScheduleExitEvent, RunGuest, CallRing3, ReturnToRing3, ResumeRZ, LockVars
<1>3. CASE \/ PDMCritSectEnter(th) \/ PDMCritSectTryEnter(th) \/ PDMCritSectLeave(th)
           \/ PDMR3CritSectYield(th)
  <2>1. PICK s \in Sects, op \in {"Enter", "TryEnter", "Leave", "Yield"}, l \in {"try", "leave"} :
          Begin(th, op, s, l)
    BY <1>3 DEF PDMCritSectEnter, PDMCritSectTryEnter, PDMCritSectLeave, PDMR3CritSectYield
  <2>2. call[th].pc = "idle" /\ call'[th].pc \in {"try", "leave"}
    BY <1>1, <2>1 DEF Begin, Ready, At, TypeOK
  <2> QED BY <1>1, <1>2, <2>2, NotCounted, CountUntouched
<1>4. CASE \/ PDMR3CritSectScheduleExitEvent(th) \/ RunGuest(th) \/ CallRing3(th)
           \/ ReturnToRing3(th) \/ ResumeRZ(th)
  <2>1. UNCHANGED <<call, queue>>
    BY <1>4 DEF PDMR3CritSectScheduleExitEvent, RunGuest, CallRing3, ReturnToRing3, ResumeRZ
  <2>2. \A s \in Sects : Counted(th, s)' <=> Counted(th, s)  BY <2>1 DEF Counted, Sect
  <2> QED BY <1>1, <1>2, <2>2, CountUntouched
<1> QED BY <1>3, <1>4 DEF Use

LEMMA StepCounts ==
  ASSUME IsFiniteSet(Threads), IInv, IInv', LockersCount, NEW th \in Threads, Step(th)
  PROVE  LockersCount'
<1>1. TypeOK /\ Others(th) /\ CallOK(th) /\ call[th] \in OneCall
  BY OneThread DEF IInv, TypeOK
<1>2. CASE \/ EnterBusy(th) \/ EnterReturnBusy(th) \/ EnterCallRing3(th) \/ LeaveSignal(th)
           \/ LeaveQueue(th) \/ ForcedActions(th) \/ FFNext(th) \/ FFDone(th)
  <2>1. UNCHANGED <<cLockers, cNestings>>
    BY <1>2 DEF EnterBusy, EnterReturnBusy, EnterCallRing3, LeaveSignal, LeaveQueue,
                ForcedActions, FFNext, FFDone, LockVars
  <2>2. call[th].pc \in {"idle", "try", "spin", "signal", "queue", "ff"}
    BY <1>2 DEF EnterBusy, EnterReturnBusy, EnterCallRing3, LeaveSignal, LeaveQueue,
                ForcedActions, FFNext, FFDone, At
  <2>3. call'[th].pc \in {"idle", "try", "spin", "leave", "ff"}
    <3>1. CASE EnterBusy(th) \/ EnterReturnBusy(th) \/ EnterCallRing3(th)
      BY <1>1, <3>1 DEF TypeOK, OneCall, EnterBusy, EnterReturnBusy, EnterCallRing3, Goto, Idle,
                ServiceFirst
    <3>2. CASE LeaveSignal(th) \/ LeaveQueue(th)
      BY <3>2, LeftUncounted DEF LeaveSignal, LeaveQueue
    <3>3. CASE ForcedActions(th) \/ FFNext(th) \/ FFDone(th)
      <4>1. CASE ForcedActions(th)  BY <1>1, <4>1 DEF TypeOK, ForcedActions, Idle
      <4>2. CASE FFNext(th)  BY <1>1, <4>2 DEF TypeOK, OneCall, FFNext
      <4>3. CASE FFDone(th)  BY <1>1, <4>3 DEF TypeOK, OneCall, FFDone, Idle
      <4> QED BY <3>3, <4>1, <4>2, <4>3
    <3> QED BY <1>2, <3>1, <3>2, <3>3
  <2> QED BY <1>1, <2>1, <2>2, <2>3, NotCounted, CountUntouched
<1>3. ASSUME call[th].pc \notin {"idle", "ff"}
      PROVE  \E z \in Sects : z = Sect(th) /\ \A s \in Sects \ {z} : ~ Counted(th, s)
  BY <1>1, <1>3 DEF CallOK, Counted
<1>4. CASE EnterGrab(th) \/ EnterContended(th) \/ EnterWait(th)
  <2>0. call[th].pc \in {"try", "spin", "wait"}
    BY <1>4 DEF EnterGrab, EnterContended, EnterWait, At
  <2>1. PICK z \in Sects : z = Sect(th) /\ \A s \in Sects \ {z} : ~ Counted(th, s)
    BY <1>3, <2>0
  <2>2. PICK l \in {"first", "wait"} : call' = [call EXCEPT ![th].pc = l]
    BY <1>4 DEF EnterGrab, EnterContended, EnterWait, Goto
  <2>3. UNCHANGED <<queue, cNestings>>  BY <1>4 DEF EnterGrab, EnterContended, EnterWait
  <2>4. call'[th].pc = l /\ Sect(th)' = z
    BY <1>1, <2>1, <2>2, <2>3 DEF TypeOK, OneCall, Sect
  <2>5. Counted(th, z)' /\ \A s \in Sects \ {z} : ~ Counted(th, s)'  BY <2>4 DEF Counted
  <2>6. /\ \A s \in Sects \ {z} : cLockers'[s] = cLockers[s]
        /\ cLockers'[z] = IF call[th].pc = "wait" THEN cLockers[z] ELSE cLockers[z] + 1
    <3>1. CASE EnterGrab(th)
      BY <1>1, <2>1, <3>1 DEF TypeOK, EnterGrab, Grab, At
    <3>2. CASE EnterContended(th)
      BY <1>1, <2>1, <3>2 DEF TypeOK, EnterContended, At
    <3>3. CASE EnterWait(th)  BY <3>3 DEF EnterWait, At
    <3> QED BY <1>4, <3>1, <3>2, <3>3
  <2>7. Counted(th, z) <=> call[th].pc = "wait"  BY <2>0, <2>1 DEF Counted
  <2>8. cLockers[z] \in Int /\ cNestings[z] \in Int  BY <1>1 DEF TypeOK
  <2>9. cLockers'[z] + cNestings[z] + One(Counted(th, z))
          = cLockers[z] + cNestings'[z] + One(Counted(th, z)')
    BY <2>3, <2>5, <2>6, <2>7, <2>8 DEF One
  <2> QED BY <1>1, <2>1, <2>3, <2>5, <2>6, <2>9, CountKept
<1>5. CASE EnterFirst(th) \/ EnterNested(th)
  <2>0. call[th].pc \in {"first", "try"}  BY <1>5 DEF EnterFirst, EnterNested, At
  <2>1. PICK z \in Sects : z = Sect(th) /\ \A s \in Sects \ {z} : ~ Counted(th, s)
    BY <1>3, <2>0
  <2>2. call'[th].pc = "idle"
    BY <1>1, <1>5 DEF TypeOK, EnterFirst, EnterNested, Entered, Idle
  <2>3. \A s \in Sects : ~ Counted(th, s)'  BY <2>2 DEF Counted
  <2>4. /\ \A s \in Sects \ {z} : cLockers'[s] = cLockers[s] /\ cNestings'[s] = cNestings[s]
        /\ cLockers'[z] + cNestings[z] + One(Counted(th, z)) = cLockers[z] + cNestings'[z]
    <3>1. CASE EnterFirst(th)
      <4>1. Token(th, z) /\ Counted(th, z)
        BY <2>1, <3>1 DEF EnterFirst, At, Token, Counted
      <4>2. cNestings[z] = 0  BY <4>1, TokenFacts DEF NobodyOwns
      <4>3. UNCHANGED cLockers /\ cNestings' = [cNestings EXCEPT ![z] = 1]
        BY <2>1, <3>1 DEF EnterFirst
      <4>4. One(Counted(th, z)) = 1  BY <4>1 DEF One
      <4>5. cLockers[z] \in Int /\ cNestings'[z] = 1  BY <1>1, <4>3 DEF TypeOK
      <4>6. \A s \in Sects \ {z} : cNestings'[s] = cNestings[s]  BY <1>1, <4>3 DEF TypeOK
      <4> QED BY <4>2, <4>3, <4>4, <4>5, <4>6
    <3>2. CASE EnterNested(th)
      <4>1. ~ Counted(th, z)  BY <3>2 DEF EnterNested, At, Counted
      <4>2. /\ cLockers' = [cLockers EXCEPT ![z] = @ + 1]
            /\ cNestings' = [cNestings EXCEPT ![z] = @ + 1]
        BY <2>1, <3>2 DEF EnterNested
      <4>3. One(Counted(th, z)) = 0  BY <4>1 DEF One
      <4>4. /\ cLockers[z] \in Int /\ cNestings[z] \in Int
            /\ cLockers'[z] = cLockers[z] + 1 /\ cNestings'[z] = cNestings[z] + 1
        BY <1>1, <4>2 DEF TypeOK
      <4>5. \A s \in Sects \ {z} : cLockers'[s] = cLockers[s] /\ cNestings'[s] = cNestings[s]
        BY <1>1, <4>2 DEF TypeOK
      <4> QED BY <4>3, <4>4, <4>5
    <3> QED BY <1>5, <3>1, <3>2
  <2>5. cLockers'[z] + cNestings[z] + One(Counted(th, z))
          = cLockers[z] + cNestings'[z] + One(Counted(th, z)')
    <3>1. One(Counted(th, z)') = 0 /\ cLockers[z] \in Int /\ cNestings'[z] \in Int
      BY <2>3 DEF One, IInv, TypeOK
    <3> QED BY <2>4, <3>1
  <2> QED BY <1>1, <2>1, <2>3, <2>4, <2>5, CountKept
<1>6. CASE LeaveNested(th) \/ LeaveLockers(th)
  <2>0. call[th].pc \in {"leave", "lockers"}  BY <1>6 DEF LeaveNested, LeaveLockers, At
  <2>1. PICK z \in Sects : z = Sect(th) /\ \A s \in Sects \ {z} : ~ Counted(th, s)
    BY <1>3, <2>0
  <2>2. call'[th].pc \in {"idle", "try", "ff", "signal"}
    <3>1. CASE Left(th)  BY <3>1, LeftUncounted
    <3>2. CASE Goto(th, "signal")  BY <1>1, <3>2 DEF TypeOK, OneCall, Goto
    <3> QED BY <1>6, <3>1, <3>2 DEF LeaveNested, LeaveLockers
  <2>3. \A s \in Sects : ~ Counted(th, s)'  BY <2>2 DEF Counted
  <2>4. /\ \A s \in Sects \ {z} : cLockers'[s] = cLockers[s] /\ cNestings'[s] = cNestings[s]
        /\ cLockers'[z] + cNestings[z] + One(Counted(th, z)) = cLockers[z] + cNestings'[z]
    <3>1. CASE LeaveNested(th)
      <4>1. ~ Counted(th, z)  BY <3>1 DEF LeaveNested, At, Counted
      <4>2. /\ cLockers' = [cLockers EXCEPT ![z] = @ - 1]
            /\ cNestings' = [cNestings EXCEPT ![z] = @ - 1]
        BY <2>1, <3>1 DEF LeaveNested
      <4>3. One(Counted(th, z)) = 0  BY <4>1 DEF One
      <4>4. /\ cLockers[z] \in Int /\ cNestings[z] \in Int
            /\ cLockers'[z] = cLockers[z] - 1 /\ cNestings'[z] = cNestings[z] - 1
        BY <1>1, <4>2 DEF TypeOK
      <4>5. \A s \in Sects \ {z} : cLockers'[s] = cLockers[s] /\ cNestings'[s] = cNestings[s]
        BY <1>1, <4>2 DEF TypeOK
      <4> QED BY <4>3, <4>4, <4>5
    <3>2. CASE LeaveLockers(th)
      <4>1. Counted(th, z)  BY <2>1, <3>2 DEF LeaveLockers, At, Counted
      <4>2. cLockers' = [cLockers EXCEPT ![z] = cLockers[z] - 1] /\ UNCHANGED cNestings
        BY <2>1, <3>2 DEF LeaveLockers
      <4>3. One(Counted(th, z)) = 1  BY <4>1 DEF One
      <4>4. /\ cLockers[z] \in Int /\ cNestings[z] \in Int
            /\ cLockers'[z] = cLockers[z] - 1
        BY <1>1, <4>2 DEF TypeOK
      <4>5. \A s \in Sects \ {z} : cLockers'[s] = cLockers[s]  BY <1>1, <4>2 DEF TypeOK
      <4> QED BY <4>2, <4>3, <4>4, <4>5
    <3> QED BY <1>6, <3>1, <3>2
  <2>5. cLockers'[z] + cNestings[z] + One(Counted(th, z))
          = cLockers[z] + cNestings'[z] + One(Counted(th, z)')
    <3>1. One(Counted(th, z)') = 0 /\ cLockers[z] \in Int /\ cNestings'[z] \in Int
      BY <2>3 DEF One, IInv, TypeOK
    <3> QED BY <2>4, <3>1
  <2> QED BY <1>1, <2>1, <2>3, <2>4, <2>5, CountKept
<1>7. CASE LeaveRelease(th) \/ LeaveTry(th)
  <2>0. call[th].pc = "leave" /\ call[th].pc \in LeavePcs /\ ~ Nested(Sect(th))
    BY <1>7 DEF LeaveRelease, LeaveTry, At, LeavePcs
  <2>1. PICK z \in Sects : z = Sect(th) /\ \A s \in Sects : ~ Counted(th, s)
    BY <1>3, <2>0 DEF Counted
  <2>2. cNestings[z] = 1
    <3>1. cNestings[z] \in Nat /\ ~ (cNestings[z] > 1)  BY <1>1, <2>0, <2>1 DEF TypeOK, Nested
    <3> QED BY <2>0, <2>1, <3>1, LastLeave
  <2>3. UNCHANGED <<queue, cLockers>>  BY <1>7 DEF LeaveRelease, LeaveTry
  <2>4. CASE LeaveTry(th) /\ cLockers[z] # 0
    <3>1. UNCHANGED cNestings /\ call' = [call EXCEPT ![th].pc = "queue"]
      BY <2>1, <2>4 DEF LeaveTry, Goto
    <3>2. call'[th].pc = "queue"  BY <1>1, <3>1 DEF TypeOK, OneCall
    <3> QED BY <1>1, <2>0, <2>3, <3>1, <3>2, NotCounted, CountUntouched
  <2>5. CASE LeaveRelease(th) \/ (LeaveTry(th) /\ cLockers[z] = 0)
    <3>1. PICK l \in {"lockers", "cas"} : call' = [call EXCEPT ![th].pc = l]
      BY <2>1, <2>5 DEF LeaveRelease, LeaveTry, Goto
    <3>2. call'[th].pc = l /\ Sect(th)' = z
      BY <1>1, <2>1, <2>3, <3>1 DEF TypeOK, OneCall, Sect
    <3>3. Counted(th, z)' /\ \A s \in Sects \ {z} : ~ Counted(th, s)'  BY <3>2 DEF Counted
    <3>4. cNestings' = [cNestings EXCEPT ![z] = 0]
      BY <1>1, <2>1, <2>2, <2>5 DEF TypeOK, LeaveRelease, LeaveTry
    <3>5. cLockers[z] \in Int /\ cNestings[z] \in Int  BY <1>1 DEF TypeOK
    <3>6. cLockers'[z] + cNestings[z] + One(Counted(th, z))
            = cLockers[z] + cNestings'[z] + One(Counted(th, z)')
      BY <1>1, <2>1, <2>2, <2>3, <3>3, <3>4, <3>5 DEF TypeOK, One
    <3>7. \A s \in Sects \ {z} : cNestings'[s] = cNestings[s]  BY <1>1, <3>4 DEF TypeOK
    <3>8. \A s \in Sects \ {z} : /\ cLockers'[s] = cLockers[s] /\ cNestings'[s] = cNestings[s]
                                 /\ ~ Counted(th, s) /\ ~ Counted(th, s)'
      BY <2>1, <2>3, <3>3, <3>7
    <3> QED BY <1>1, <2>1, <3>6, <3>8, CountKept
  <2> QED BY <1>7, <2>4, <2>5
<1>8. CASE LeaveCas(th)
  <2>0. call[th].pc = "cas"  BY <1>8 DEF LeaveCas, At
  <2>1. PICK z \in Sects : z = Sect(th) /\ \A s \in Sects \ {z} : ~ Counted(th, s)
    BY <1>3, <2>0
  <2>2. Token(th, z) /\ Counted(th, z)  BY <2>0, <2>1 DEF Token, Counted
  <2>3. cNestings[z] = 0  BY <2>2, TokenFacts DEF NobodyOwns
  <2>4. call'[th].pc \in {"idle", "try", "ff", "queue"}
    <3>1. CASE Left(th)  BY <3>1, LeftUncounted
    <3>2. CASE Goto(th, "queue")  BY <1>1, <3>2 DEF TypeOK, OneCall, Goto
    <3> QED BY <1>8, <3>1, <3>2 DEF LeaveCas
  <2>5. \A s \in Sects : ~ Counted(th, s)'  BY <2>4 DEF Counted
  <2>6. /\ \A s \in Sects \ {z} : cLockers'[s] = cLockers[s] /\ cNestings'[s] = cNestings[s]
        /\ cLockers'[z] + cNestings[z] + One(Counted(th, z)) = cLockers[z] + cNestings'[z]
    <3>1. CASE cLockers[z] = 0
      <4>1. cLockers' = [cLockers EXCEPT ![z] = -1] /\ UNCHANGED cNestings
        BY <1>8, <2>1, <3>1 DEF LeaveCas, LeaveCasOK
      <4>2. One(Counted(th, z)) = 1  BY <2>2 DEF One
      <4>3. cLockers'[z] = -1 /\ \A s \in Sects \ {z} : cLockers'[s] = cLockers[s]
        BY <1>1, <4>1 DEF TypeOK
      <4> QED BY <2>3, <3>1, <4>1, <4>2, <4>3
    <3>2. CASE cLockers[z] # 0
      <4>1. cNestings' = [cNestings EXCEPT ![z] = 1] /\ UNCHANGED cLockers
        BY <1>8, <2>1, <3>2 DEF LeaveCas, LeaveCasOK
      <4>2. One(Counted(th, z)) = 1  BY <2>2 DEF One
      <4>3. /\ cLockers[z] \in Int /\ cNestings'[z] = 1
            /\ \A s \in Sects \ {z} : cNestings'[s] = cNestings[s]
        BY <1>1, <4>1 DEF TypeOK
      <4> QED BY <2>3, <4>1, <4>2, <4>3
    <3> QED BY <3>1, <3>2
  <2>7. cLockers'[z] + cNestings[z] + One(Counted(th, z))
          = cLockers[z] + cNestings'[z] + One(Counted(th, z)')
    <3>1. One(Counted(th, z)') = 0 /\ cLockers[z] \in Int /\ cNestings'[z] \in Int
      BY <2>5 DEF One, IInv, TypeOK
    <3> QED BY <2>6, <3>1
  <2> QED BY <1>1, <2>1, <2>5, <2>6, <2>7, CountKept
<1> QED BY <1>2, <1>4, <1>5, <1>6, <1>7, <1>8 DEF Step

(* cLockers is exactly one less than the nesting of the owner and the threads
   that wait for the section, take it over or are about to let it go: the value
   by which a leaving thread decides whether anybody is to be woken. *)
THEOREM LockersAreCounted == IsFiniteSet(Threads) => (Spec => []LockersCount)
<1> SUFFICES ASSUME IsFiniteSet(Threads) PROVE Spec => []LockersCount  OBVIOUS
<1>1. Init => LockersCount
  <2> SUFFICES ASSUME Init, NEW s \in Sects
               PROVE  cLockers[s] + 1 = cNestings[s] + Cardinality(CountedSet(s))
    BY CountIs
  <2>1. CountedSet(s) = {}  BY DEF Init, Idle, CountedSet, Counted
  <2> QED BY <2>1, FS_EmptySet DEF Init
<1>2. IInv /\ IInv' /\ LockersCount /\ [Next]_vars => LockersCount'
  <2> SUFFICES ASSUME IInv, IInv', LockersCount, [Next]_vars PROVE LockersCount'  OBVIOUS
  <2>1. CASE UNCHANGED vars
    BY <2>1 DEF vars, LockersCount, Sect
  <2>2. CASE Next  BY <2>2, UseCounts, StepCounts DEF Next
  <2> QED BY <2>1, <2>2
<1> QED BY <1>1, <1>2, Inductive, PTL DEF Spec

-----------------------------------------------------------------------------
(* No waiter is forgotten. *)

\* Somebody or something stands for the section: its owner, its signalled
\* semaphore, or a thread between two steps of entering or leaving it.
Attended(s) == owner[s] # NoThread \/ event[s] \/ \E th \in Threads : Token(th, s)

\* A section that is not free is attended to.
LockersAttended == \A s \in Sects : cLockers[s] >= 0 => Attended(s)

(* A step that touches one section at most. *)
LEMMA AttendKept ==
  ASSUME LockersAttended, NEW th \in Threads, Others(th), NEW z \in Sects,
         \A s \in Sects \ {z} : /\ cLockers'[s] = cLockers[s] /\ owner'[s] = owner[s]
                                /\ event'[s] = event[s] /\ ~ Token(th, s),
         cLockers'[z] >= 0 => Attended(z)'
  PROVE  LockersAttended'
<1> SUFFICES ASSUME NEW s \in Sects, s # z, cLockers'[s] >= 0 PROVE Attended(s)'
  BY DEF LockersAttended
<1>1. /\ cLockers'[s] = cLockers[s] /\ owner'[s] = owner[s]
      /\ event'[s] = event[s] /\ ~ Token(th, s)
  OBVIOUS
<1>2. Attended(s)  BY <1>1 DEF LockersAttended
<1>3. \A u \in Threads \ {th} : Token(u, s)' <=> Token(u, s)  BY Unchanged DEF Others
<1> QED BY <1>1, <1>2, <1>3 DEF Attended

(* A step that touches no section, of a thread that does not stand for one. *)
LEMMA AttendUntouched ==
  ASSUME LockersAttended, NEW th \in Threads, Others(th), UNCHANGED <<cLockers, owner, event>>,
         call[th].pc \notin {"first", "lockers", "cas", "signal"}
  PROVE  LockersAttended'
<1> SUFFICES ASSUME NEW s \in Sects, cLockers[s] >= 0 PROVE Attended(s)'
  BY DEF LockersAttended
<1>1. Attended(s) /\ ~ Token(th, s)  BY DEF LockersAttended, Token
<1>2. \A u \in Threads \ {th} : Token(u, s)' <=> Token(u, s)  BY Unchanged DEF Others
<1> QED BY <1>1, <1>2 DEF Attended

LEMMA UseAttends ==
  ASSUME IInv, LockersAttended, NEW th \in Threads,
         Use(th) \/ PDMCritSectLeave(th) \/ ReturnToRing3(th) \/ ResumeRZ(th)
  PROVE  LockersAttended'
<1>1. Others(th)  BY OneThread DEF IInv
<1>2. UNCHANGED <<cLockers, owner, event>>
  BY DEF Use, PDMCritSectEnter, PDMCritSectTryEnter, PDMCritSectLeave, PDMR3CritSectYield,
         PDMR3CritSectScheduleExitEvent, RunGuest, CallRing3, ReturnToRing3, ResumeRZ, LockVars
<1>3. call[th].pc = "idle"
  BY DEF Use, PDMCritSectEnter, PDMCritSectTryEnter, PDMCritSectLeave, PDMR3CritSectYield,
         PDMR3CritSectScheduleExitEvent, RunGuest, CallRing3, ReturnToRing3, ResumeRZ,
         Begin, Ready, At
<1> QED BY <1>1, <1>2, <1>3, AttendUntouched

LEMMA EnterAttends ==
  ASSUME IInv, LockersAttended, NEW th \in Threads,
         \/ EnterGrab(th) \/ EnterContended(th) \/ EnterWait(th)
         \/ EnterFirst(th) \/ EnterNested(th)
  PROVE  LockersAttended'
<1>0. Step(th)  BY DEF Step
<1>1. TypeOK /\ Others(th) /\ CallOK(th) /\ call[th] \in OneCall
  BY <1>0, OneThread DEF IInv, TypeOK
<1>2. call[th].pc \in {"try", "spin", "wait", "first"}
  BY DEF EnterGrab, EnterContended, EnterWait, EnterFirst, EnterNested, At
<1>3. PICK z \in Sects : z = Sect(th) /\ \A s \in Sects \ {z} : ~ Token(th, s)
  BY <1>1, <1>2 DEF CallOK, Token
<1>4. CASE EnterFirst(th) \/ EnterNested(th)
  <2>1. /\ owner'[z] = th /\ event' = event
        /\ \A s \in Sects \ {z} : cLockers'[s] = cLockers[s] /\ owner'[s] = owner[s]
    BY <1>1, <1>3, <1>4 DEF TypeOK, EnterFirst, EnterNested
  <2>2. Attended(z)'  BY <2>1, NoneAssumption DEF Attended
  <2> QED BY <1>1, <1>3, <2>1, <2>2, AttendKept
<1>5. CASE EnterGrab(th) \/ EnterContended(th) \/ EnterWait(th)
  <2>1. PICK l \in {"first", "wait"} : call' = [call EXCEPT ![th].pc = l]
    BY <1>5 DEF EnterGrab, EnterContended, EnterWait, Goto
  <2>2. UNCHANGED <<queue, owner>>  BY <1>5 DEF EnterGrab, EnterContended, EnterWait
  <2>3. call'[th].pc = l /\ Sect(th)' = z
    BY <1>1, <1>3, <2>1, <2>2 DEF TypeOK, OneCall, Sect
  <2>4. \A s \in Sects \ {z} : cLockers'[s] = cLockers[s] /\ event'[s] = event[s]
    <3>1. CASE EnterGrab(th)  BY <1>1, <1>3, <3>1 DEF TypeOK, EnterGrab, Grab
    <3>2. CASE EnterContended(th)  BY <1>1, <1>3, <3>2 DEF TypeOK, EnterContended
    <3>3. CASE EnterWait(th)  BY <1>1, <1>3, <3>3 DEF TypeOK, EnterWait
    <3> QED BY <1>5, <3>1, <3>2, <3>3
  <2>5. CASE l = "first"
    <3>1. Attended(z)'  BY <2>3, <2>5 DEF Attended, Token
    <3> QED BY <1>1, <1>3, <2>2, <2>4, <3>1, AttendKept
  <2>6. CASE l = "wait"
    <3>1. EnterContended(th) /\ call[th].pc = "spin"
      <4>1. ~ EnterGrab(th) /\ ~ EnterWait(th)
        BY <1>1, <2>3, <2>6 DEF TypeOK, OneCall, EnterGrab, EnterWait, Goto
      <4> QED BY <1>5, <4>1 DEF EnterContended, At
    <3>2. cLockers[z] >= 0 /\ event' = event
      <4>1. /\ call' = [call EXCEPT ![th].pc = IF Won(cLockers[z] + 1) THEN "first" ELSE "wait"]
            /\ event' = event
        BY <1>3, <3>1 DEF EnterContended, Goto
      <4>2. cLockers[z] + 1 # 0  BY <1>1, <2>3, <2>6, <4>1 DEF TypeOK, OneCall, Won
      <4> QED BY <1>1, <4>1, <4>2 DEF TypeOK
    <3>3. Attended(z)'
      <4>1. Attended(z) /\ ~ Token(th, z)  BY <3>1, <3>2 DEF LockersAttended, Token
      <4>2. \A u \in Threads \ {th} : Token(u, z)' <=> Token(u, z)
        BY <1>1, Unchanged DEF Others
      <4> QED BY <2>2, <3>2, <4>1, <4>2 DEF Attended
    <3> QED BY <1>1, <1>3, <2>2, <2>4, <3>3, AttendKept
  <2> QED BY <2>5, <2>6
<1> QED BY <1>4, <1>5

LEMMA LeaveAttends ==
  ASSUME IInv, LockersAttended, NEW th \in Threads,
         \/ LeaveNested(th) \/ LeaveRelease(th) \/ LeaveLockers(th) \/ LeaveSignal(th)
         \/ LeaveTry(th) \/ LeaveCas(th)
  PROVE  LockersAttended'
<1>0. Step(th)  BY DEF Step
<1>1. TypeOK /\ Others(th) /\ CallOK(th) /\ call[th] \in OneCall
  BY <1>0, OneThread DEF IInv, TypeOK
<1>2. call[th].pc \in {"leave", "lockers", "signal", "cas"}
  BY DEF LeaveNested, LeaveRelease, LeaveLockers, LeaveSignal, LeaveTry, LeaveCas, At
<1>3. PICK z \in Sects : z = Sect(th) /\ \A s \in Sects \ {z} : ~ Token(th, s)
  BY <1>1, <1>2 DEF CallOK, Token
<1>4. call[th].pc = "leave" => owner[z] = th  BY <1>3, LeavingFacts DEF LeavePcs
<1>5. th # NoThread  BY NoneAssumption
<1>6. ASSUME NEW l \in {"lockers", "cas", "signal"}, call' = [call EXCEPT ![th].pc = l],
             queue' = queue
      PROVE  Attended(z)'
  <2>1. call'[th].pc = l /\ Sect(th)' = z  BY <1>1, <1>3, <1>6 DEF TypeOK, OneCall, Sect
  <2> QED BY <2>1 DEF Attended, Token
<1>7. CASE LeaveNested(th)
  <2>1. /\ owner' = owner /\ event' = event /\ call[th].pc = "leave"
        /\ \A s \in Sects \ {z} : cLockers'[s] = cLockers[s]
    BY <1>1, <1>3, <1>7 DEF TypeOK, LeaveNested, At
  <2>2. Attended(z)'  BY <1>4, <1>5, <2>1 DEF Attended
  <2> QED BY <1>1, <1>3, <2>1, <2>2, AttendKept
<1>8. CASE LeaveRelease(th)
  <2>1. /\ event' = event /\ cLockers' = cLockers /\ \A s \in Sects \ {z} : owner'[s] = owner[s]
    BY <1>1, <1>3, <1>8 DEF TypeOK, LeaveRelease
  <2>2. Attended(z)'  BY <1>6, <1>8 DEF LeaveRelease, Goto
  <2> QED BY <1>1, <1>3, <2>1, <2>2, AttendKept
<1>9. CASE LeaveLockers(th)
  <2>1. /\ owner' = owner /\ event' = event
        /\ cLockers' = [cLockers EXCEPT ![z] = cLockers[z] - 1]
        /\ cLockers[z] - 1 >= 0 => call' = [call EXCEPT ![th].pc = "signal"] /\ queue' = queue
    BY <1>3, <1>9 DEF LeaveLockers, WaitersLeft, Goto
  <2>2. /\ \A s \in Sects \ {z} : cLockers'[s] = cLockers[s]
        /\ cLockers'[z] = cLockers[z] - 1
    BY <1>1, <2>1 DEF TypeOK
  <2>3. cLockers'[z] >= 0 => Attended(z)'  BY <1>6, <2>1, <2>2
  <2> QED BY <1>1, <1>3, <2>1, <2>2, <2>3, AttendKept
<1>10. CASE LeaveSignal(th)
  <2>1. /\ owner' = owner /\ cLockers' = cLockers /\ event'[z] = TRUE
        /\ \A s \in Sects \ {z} : event'[s] = event[s]
    BY <1>1, <1>3, <1>10 DEF TypeOK, LeaveSignal
  <2>2. Attended(z)'  BY <2>1 DEF Attended
  <2> QED BY <1>1, <1>3, <2>1, <2>2, AttendKept
<1>11. CASE LeaveTry(th)
  <2>1. event' = event /\ cLockers' = cLockers /\ queue' = queue /\ call[th].pc = "leave"
    BY <1>11 DEF LeaveTry, At
  <2>2. CASE cLockers[z] = 0
    <3>1. \A s \in Sects \ {z} : owner'[s] = owner[s]
      BY <1>1, <1>3, <1>11, <2>2 DEF TypeOK, LeaveTry
    <3>2. call' = [call EXCEPT ![th].pc = "cas"]  BY <1>3, <1>11, <2>2 DEF LeaveTry, Goto
    <3>3. Attended(z)'  BY <1>6, <2>1, <3>2
    <3> QED BY <1>1, <1>3, <2>1, <3>1, <3>3, AttendKept
  <2>3. CASE cLockers[z] # 0
    <3>1. owner' = owner  BY <1>3, <1>11, <2>3 DEF LeaveTry
    <3>2. Attended(z)'  BY <1>4, <1>5, <2>1, <3>1 DEF Attended
    <3> QED BY <1>1, <1>3, <2>1, <3>1, <3>2, AttendKept
  <2> QED BY <2>2, <2>3
<1>12. CASE LeaveCas(th)
  <2>1. event' = event  BY <1>12 DEF LeaveCas
  <2>2. CASE cLockers[z] = 0
    <3>1. owner' = owner /\ cLockers' = [cLockers EXCEPT ![z] = -1]
      BY <1>3, <1>12, <2>2 DEF LeaveCas, LeaveCasOK
    <3>2. cLockers'[z] = -1 /\ \A s \in Sects \ {z} : cLockers'[s] = cLockers[s]
      BY <1>1, <3>1 DEF TypeOK
    <3> QED BY <1>1, <1>3, <2>1, <3>1, <3>2, AttendKept
  <2>3. CASE cLockers[z] # 0
    <3>1. owner' = [owner EXCEPT ![z] = th] /\ cLockers' = cLockers
      BY <1>3, <1>12, <2>3 DEF LeaveCas, LeaveCasOK, Restore
    <3>2. owner'[z] = th /\ \A s \in Sects \ {z} : owner'[s] = owner[s]
      BY <1>1, <3>1 DEF TypeOK
    <3>3. Attended(z)'  BY <1>5, <3>2 DEF Attended
    <3> QED BY <1>1, <1>3, <2>1, <3>1, <3>2, <3>3, AttendKept
  <2> QED BY <2>2, <2>3
<1> QED BY <1>7, <1>8, <1>9, <1>10, <1>11, <1>12

LEMMA StepAttends ==
  ASSUME IInv, LockersAttended, NEW th \in Threads, Step(th)
  PROVE  LockersAttended'
<1>1. CASE \/ EnterBusy(th) \/ EnterReturnBusy(th) \/ EnterCallRing3(th)
           \/ LeaveQueue(th) \/ ForcedActions(th) \/ FFNext(th) \/ FFDone(th)
  <2>1. UNCHANGED <<cLockers, owner, event>>
    BY <1>1 DEF EnterBusy, EnterReturnBusy, EnterCallRing3, LeaveQueue,
                ForcedActions, FFNext, FFDone, LockVars
  <2>2. call[th].pc \notin {"first", "lockers", "cas", "signal"}
    BY <1>1 DEF EnterBusy, EnterReturnBusy, EnterCallRing3, LeaveQueue,
                ForcedActions, FFNext, FFDone, At
  <2>3. Others(th)  BY OneThread DEF IInv
  <2> QED BY <2>1, <2>2, <2>3, AttendUntouched
<1> QED BY <1>1, EnterAttends, LeaveAttends DEF Step

LEMMA AttendedAlways == Spec => []LockersAttended
<1>1. Init => LockersAttended  BY DEF Init, LockersAttended
<1>2. IInv /\ LockersAttended /\ [Next]_vars => LockersAttended'
  <2> SUFFICES ASSUME IInv, LockersAttended, [Next]_vars PROVE LockersAttended'  OBVIOUS
  <2>1. CASE UNCHANGED vars
    BY <2>1 DEF vars, LockersAttended, Attended, Token, Sect
  <2>2. CASE Next  BY <2>2, UseAttends, StepAttends DEF Next
  <2> QED BY <2>1, <2>2
<1> QED BY <1>1, <1>2, Inductive, PTL DEF Spec

(* A thread that waits for a section will be woken, whatever happened between its
   increment of cLockers and its wait: the section has an owner, or its semaphore
   is signalled, or a thread is about to enter it or to signal it, or one that has
   given it up has still to look at cLockers and will see that somebody waits. *)
WaiterSeen(th, s) ==
  \/ owner[s] # NoThread \/ event[s]
  \/ \E u \in Threads : (At(u, "first") \/ At(u, "signal")) /\ Sect(u) = s
  \/ \E u \in Threads : At(u, "lockers") /\ Sect(u) = s /\ WaitersLeft(cLockers[s] - 1)
  \/ \E u \in Threads : At(u, "cas") /\ Sect(u) = s /\ ~ LeaveCasOK(s)

NoWaiterForgotten == \A th \in Threads : At(th, "wait") => WaiterSeen(th, Sect(th))

LEMMA TwoCounted ==
  ASSUME IsFiniteSet(Threads), NEW s \in Sects, NEW th \in Threads, NEW u \in Threads, th # u,
         Counted(th, s), Counted(u, s)
  PROVE  Cardinality(CountedSet(s)) \in Nat /\ Cardinality(CountedSet(s)) >= 2
<1>1. IsFiniteSet(CountedSet(s))  BY FS_Subset DEF CountedSet
<1>2. {th, u} \subseteq CountedSet(s)  BY DEF CountedSet
<1>3. IsFiniteSet({th}) /\ Cardinality({th}) = 1  BY FS_Singleton
<1>4. {th} \cup {u} = {th, u} /\ u \notin {th}  OBVIOUS
<1>5. Cardinality({th, u}) = 2  BY <1>3, <1>4, FS_AddElement
<1>6. Cardinality({th, u}) <= Cardinality(CountedSet(s))  BY <1>1, <1>2, FS_Subset
<1>7. Cardinality(CountedSet(s)) \in Nat  BY <1>1, FS_CardinalityType
<1> QED BY <1>5, <1>6, <1>7

(* No thread waits for a section that nobody will hand on, for every number of
   threads and sections: the wake-up that LeaveLockers decides on by cLockers never
   misses a thread that is still on its way to the semaphore. *)
THEOREM WaitersAreSeen == IsFiniteSet(Threads) => (Spec => []NoWaiterForgotten)
<1> SUFFICES ASSUME IsFiniteSet(Threads) PROVE Spec => []NoWaiterForgotten  OBVIOUS
<1>1. IInv /\ LockersCount /\ LockersAttended => NoWaiterForgotten
  <2> SUFFICES ASSUME IInv, LockersCount, LockersAttended,
                      NEW th \in Threads, call[th].pc = "wait"
               PROVE  WaiterSeen(th, Sect(th))
    BY DEF NoWaiterForgotten, At
  <2>1. PICK s \in Sects : s = Sect(th)  BY DEF IInv, CallOK
  <2>2. /\ Counted(th, s) /\ cLockers[s] \in Int /\ cNestings[s] \in Nat
        /\ cLockers[s] + 1 = cNestings[s] + Cardinality(CountedSet(s))
    BY <2>1, CountIs DEF Counted, IInv, TypeOK
  <2>3. cLockers[s] >= 0
    <3>1. IsFiniteSet(CountedSet(s)) /\ th \in CountedSet(s)
      BY <2>2, FS_Subset DEF CountedSet
    <3>2. Cardinality(CountedSet(s)) \in Nat /\ Cardinality(CountedSet(s)) # 0
      BY <3>1, FS_CardinalityType, FS_EmptySet
    <3> QED BY <2>2, <3>2
  <2>4. Attended(s)  BY <2>3 DEF LockersAttended
  <2>5. ASSUME NEW u \in Threads, call[u].pc \in {"lockers", "cas"}, Sect(u) = s
        PROVE  cLockers[s] >= 1
    <3>1. Counted(u, s) /\ u # th  BY <2>5 DEF Counted
    <3>2. Cardinality(CountedSet(s)) \in Nat /\ Cardinality(CountedSet(s)) >= 2
      BY <2>2, <3>1, TwoCounted
    <3> QED BY <2>2, <3>2
  <2>6. ASSUME NEW u \in Threads, Token(u, s) PROVE WaiterSeen(th, s)
    <3>1. CASE call[u].pc \in {"first", "signal"}
      BY <2>6, <3>1 DEF Token, WaiterSeen, At
    <3>2. CASE call[u].pc = "lockers"
      <4>1. WaitersLeft(cLockers[s] - 1)  BY <2>2, <2>5, <2>6, <3>2 DEF Token, WaitersLeft
      <4> QED BY <2>6, <3>2, <4>1 DEF Token, WaiterSeen, At
    <3>3. CASE call[u].pc = "cas"
      <4>1. ~ LeaveCasOK(s)  BY <2>2, <2>5, <2>6, <3>3 DEF Token, LeaveCasOK
      <4> QED BY <2>6, <3>3, <4>1 DEF Token, WaiterSeen, At
    <3> QED BY <2>6, <3>1, <3>2, <3>3 DEF Token
  <2> QED BY <2>1, <2>4, <2>6 DEF Attended, WaiterSeen
<1> QED BY <1>1, Inductive, LockersAreCounted, AttendedAlways, PTL

-----------------------------------------------------------------------------
(* Waiting threads do not block each other. *)

\* How a thread stands to the lock order.  Only an enter of an owned section, an
\* enter in the order and the second half of a yield get as far as the spinning
\* and the wait, and outside RZ no section is queued for leaving by then.
OrderOK(th) ==
  LET c == call[th]
  IN  /\ c.op \in {"Enter", "CallEnter"} =>
           held[th][c.sect] > 0 \/ \A h \in Holds(th) : <<h, c.sect>> \in MayHold
      /\ c.op = "Yield" => ctx[th] # "RZ" /\ Holds(th) = {} /\ queue[th] = <<>>
      /\ c.pc \in {"try", "spin", "wait"} /\ ctx[th] # "RZ" => queue[th] = <<>>
      /\ c.pc = "try" => c.op \in {"Enter", "TryEnter", "CallEnter", "Yield"}
      /\ c.pc \in {"spin", "wait"} =>
           held[th][c.sect] = 0 /\ c.op \in {"Enter", "CallEnter", "Yield"}
      /\ c.pc = "wait" => ctx[th] # "RZ"
      /\ c.pc = "idle" => c.op = "none"

OrderKept == \A th \in Threads : OrderOK(th)

LEMMA OrderOthers ==
  ASSUME OrderKept, NEW th \in Threads, Others(th), OrderOK(th)'
  PROVE  OrderKept'
<1>1. ASSUME NEW u \in Threads, u # th PROVE OrderOK(u)'
  <2>1. /\ OrderOK(u) /\ call'[u] = call[u] /\ queue'[u] = queue[u]
        /\ held'[u] = held[u] /\ ctx'[u] = ctx[u]
    BY <1>1 DEF OrderKept, Others
  <2>2. Holds(u)' = Holds(u)  BY <2>1 DEF Holds
  <2> QED BY <2>1, <2>2 DEF OrderOK
<1> QED BY <1>1 DEF OrderKept

(* The operation returns. *)
LEMMA OrderReturns ==
  ASSUME TypeOK, OrderKept, NEW th \in Threads, Others(th), call' = [call EXCEPT ![th] = Idle]
  PROVE  OrderKept'
<1>1. call'[th].pc = "idle" /\ call'[th].op = "none"  BY DEF TypeOK, Idle
<1> QED BY <1>1, OrderOthers DEF OrderOK

(* The operation goes on, away from the steps that lead to a wait. *)
LEMMA OrderGoesOn ==
  ASSUME OrderKept, NEW th \in Threads, Others(th), held'[th] = held[th],
         ctx'[th] = ctx[th], queue'[th] = queue[th],
         call'[th].pc \notin {"idle", "try", "spin", "wait"},
         call'[th].op = call[th].op, call'[th].sect = call[th].sect
  PROVE  OrderKept'
<1>1. OrderOK(th)  BY DEF OrderKept
<1>2. Holds(th)' = Holds(th)  BY DEF Holds
<1> QED BY <1>1, <1>2, OrderOthers DEF OrderOK

LEMMA OrderGoto ==
  ASSUME TypeOK, OrderKept, NEW th \in Threads, Others(th), UNCHANGED <<held, ctx, queue>>,
         NEW l \in {"first", "lockers", "signal", "cas", "queue"}, Goto(th, l)
  PROVE  OrderKept'
<1>1. call[th] \in OneCall /\ call' = [call EXCEPT ![th].pc = l]  BY DEF TypeOK, Goto
<1>2. /\ call'[th].pc = l /\ call'[th].op = call[th].op /\ call'[th].sect = call[th].sect
  BY <1>1 DEF TypeOK, OneCall
<1> QED BY <1>2, OrderGoesOn

(* A leave is done. *)
LEMMA OrderLeft ==
  ASSUME TypeOK, OrderKept, NEW th \in Threads, Others(th), UNCHANGED <<held, ctx, queue>>,
         Left(th)
  PROVE  OrderKept'
<1>1. call[th] \in OneCall  BY DEF TypeOK
<1>2. CASE call[th].i > 0
  <2>1. call' = [call EXCEPT ![th].pc = "ff"]  BY <1>2 DEF Left
  <2>2. /\ call'[th].pc = "ff" /\ call'[th].op = call[th].op /\ call'[th].sect = call[th].sect
    BY <1>1, <2>1 DEF TypeOK, OneCall
  <2> QED BY <2>2, OrderGoesOn
<1>3. CASE ~ (call[th].i > 0) /\ call[th].op = "Yield"
  <2>1. call' = [call EXCEPT ![th].pc = "try"]  BY <1>3 DEF Left
  <2>2. call'[th].pc = "try" /\ call'[th].op = "Yield"  BY <1>1, <1>3, <2>1 DEF TypeOK, OneCall
  <2>3. OrderOK(th) /\ Holds(th)' = Holds(th)  BY DEF OrderKept, Holds
  <2>4. OrderOK(th)'  BY <1>3, <2>2, <2>3 DEF OrderOK
  <2> QED BY <2>4, OrderOthers
<1>4. CASE ~ (call[th].i > 0) /\ call[th].op # "Yield"
  BY <1>4, OrderReturns DEF Left
<1> QED BY <1>2, <1>3, <1>4

LEMMA UseOrders ==
  ASSUME IInv, OrderKept, NEW th \in Threads,
         Use(th) \/ PDMCritSectLeave(th) \/ ReturnToRing3(th) \/ ResumeRZ(th)
  PROVE  OrderKept'
<1>1. TypeOK /\ Others(th) /\ call[th] \in OneCall  BY OneThread DEF IInv, TypeOK
<1>2. CASE \/ PDMR3CritSectScheduleExitEvent(th) \/ RunGuest(th) \/ CallRing3(th)
           \/ ReturnToRing3(th) \/ ResumeRZ(th)
  <2>1. call[th].pc = "idle" /\ call' = call
    BY <1>2 DEF PDMR3CritSectScheduleExitEvent, RunGuest, CallRing3, ReturnToRing3, ResumeRZ,
                Ready, At
  <2>2. call[th].op = "none"  BY <2>1 DEF OrderKept, OrderOK
  <2>3. OrderOK(th)'  BY <2>1, <2>2 DEF OrderOK
  <2> QED BY <1>1, <2>3, OrderOthers
<1>3. ASSUME NEW s \in Sects, NEW op \in {"Enter", "TryEnter", "Leave", "Yield"},
             NEW l \in {"try", "leave"}, Begin(th, op, s, l),
             ctx' = ctx, queue' = queue, l = "try" <=> op \in {"Enter", "TryEnter"},
             op = "Enter" => /\ held' = held
                             /\ held[th][s] > 0 \/ \A h \in Holds(th) : <<h, s>> \in MayHold,
             op = "Yield" => ctx[th] # "RZ" /\ Holds(th)' = {}
      PROVE  OrderKept'
  <2>1. call'[th].pc = l /\ call'[th].op = op /\ call'[th].sect = s
    BY <1>1, <1>3 DEF Begin, TypeOK
  <2>2. ctx[th] # "RZ" => queue[th] = <<>>  BY <1>3 DEF Begin, Ready
  <2>3. held' = held => Holds(th)' = Holds(th)  BY DEF Holds
  <2>4. OrderOK(th)'  BY <1>3, <2>1, <2>2, <2>3 DEF OrderOK
  <2> QED BY <1>1, <2>4, OrderOthers
<1>4. CASE PDMCritSectEnter(th)
  BY <1>3, <1>4 DEF PDMCritSectEnter
<1>5. CASE PDMCritSectTryEnter(th)
  BY <1>3, <1>5 DEF PDMCritSectTryEnter
<1>6. CASE PDMCritSectLeave(th)
  BY <1>3, <1>6 DEF PDMCritSectLeave
<1>7. CASE PDMR3CritSectYield(th)
  <2>1. PICK s \in Sects :
          /\ ctx[th] # "RZ" /\ Holds(th) = {s} /\ cNestings[s] = 1
          /\ Begin(th, "Yield", s, "leave")
          /\ held' = [held EXCEPT ![th][s] = @ - 1] /\ ctx' = ctx /\ queue' = queue
    BY <1>7 DEF PDMR3CritSectYield
  <2>2. \A r \in Sects : held[th][r] \in Nat  BY <1>1 DEF TypeOK
  <2>3. held[th][s] = 1
    <3>1. held[th][s] > 0  BY <2>1 DEF Holds
    <3>2. owner[s] = th  BY <2>2, <3>1 DEF IInv, NestOK
    <3>3. 1 = held[th][s] + One(Queued(th, s)) + One(Leaving(th, s))  BY <2>1, <3>2, OwnerFacts
    <3>4. One(Queued(th, s)) \in {0, 1} /\ One(Leaving(th, s)) \in {0, 1}  BY DEF One
    <3> QED BY <2>2, <3>1, <3>3, <3>4
  <2>4. /\ held'[th][s] = 0 /\ \A r \in Sects \ {s} : held'[th][r] = held[th][r]
    BY <1>1, <2>1, <2>3 DEF TypeOK
  <2>5. \A r \in Sects \ {s} : held[th][r] = 0  BY <2>1, <2>2 DEF Holds
  <2>6. Holds(th)' = {}  BY <2>4, <2>5 DEF Holds
  <2> QED BY <1>3, <2>1, <2>6
<1> QED BY <1>2, <1>4, <1>5, <1>6, <1>7 DEF Use

LEMMA EnterOrders ==
  ASSUME IInv, OrderKept, NEW th \in Threads,
         \/ EnterGrab(th) \/ EnterFirst(th) \/ EnterNested(th) \/ EnterBusy(th)
         \/ EnterContended(th) \/ EnterWait(th) \/ EnterReturnBusy(th) \/ EnterCallRing3(th)
  PROVE  OrderKept'
<1>0. Step(th)  BY DEF Step
<1>1. TypeOK /\ Others(th) /\ CallOK(th) /\ call[th] \in OneCall /\ OrderOK(th)
  BY <1>0, OneThread DEF IInv, TypeOK, OrderKept
<1>2. Holds(th)' = Holds(th) \/ held' # held  BY DEF Holds
<1>3. CASE EnterGrab(th) \/ EnterWait(th)
  <2>1. Goto(th, "first") /\ UNCHANGED <<held, ctx, queue>>
    BY <1>3 DEF EnterGrab, EnterWait
  <2> QED BY <1>1, <2>1, OrderGoto
<1>4. CASE EnterFirst(th) \/ EnterNested(th)
  BY <1>1, <1>4, OrderReturns DEF EnterFirst, EnterNested, Entered
<1>5. CASE EnterReturnBusy(th)  BY <1>1, <1>5, OrderReturns DEF EnterReturnBusy
<1>6. ASSUME NEW l \in {"spin", "wait"}, Goto(th, l), UNCHANGED <<held, ctx, queue>>,
             call[th].pc \in {"try", "spin"},
             held[th][call[th].sect] = 0, call[th].op \in {"Enter", "CallEnter", "Yield"},
             l = "wait" => ctx[th] # "RZ"
      PROVE  OrderKept'
  <2>1. /\ call'[th].pc = l /\ call'[th].op = call[th].op /\ call'[th].sect = call[th].sect
    BY <1>1, <1>6 DEF Goto, TypeOK, OneCall
  <2>2. OrderOK(th)'  BY <1>1, <1>2, <1>6, <2>1 DEF OrderOK
  <2> QED BY <1>1, <2>2, OrderOthers
<1>7. CASE EnterBusy(th)
  <2>1. CASE call[th].op = "TryEnter"  BY <1>1, <1>7, <2>1, OrderReturns DEF EnterBusy
  <2>2. CASE call[th].op # "TryEnter"
    <3>1. Goto(th, "spin") /\ UNCHANGED <<held, ctx, queue>> /\ call[th].pc = "try"
      BY <1>7, <2>2 DEF EnterBusy, At
    <3>2. /\ call[th].sect \in Sects /\ owner[call[th].sect] # th
          /\ call[th].op \in {"Enter", "CallEnter", "Yield"}
      BY <1>1, <1>7, <2>2, <3>1 DEF EnterBusy, CallOK, Sect, OrderOK
    <3>3. held[th][call[th].sect] = 0  BY <3>2 DEF IInv, NestOK
    <3> QED BY <1>6, <3>1, <3>2, <3>3
  <2> QED BY <2>1, <2>2
<1>8. CASE EnterContended(th)
  <2>1. PICK l \in {"first", "wait"} : Goto(th, l) /\ UNCHANGED <<held, ctx, queue>>
    BY <1>8 DEF EnterContended
  <2>2. call[th].pc = "spin" /\ ctx[th] # "RZ"  BY <1>8 DEF EnterContended, At
  <2>3. held[th][call[th].sect] = 0 /\ call[th].op \in {"Enter", "CallEnter", "Yield"}
    BY <1>1, <2>2 DEF OrderOK
  <2>4. CASE l = "first"  BY <1>1, <2>1, <2>4, OrderGoto
  <2>5. CASE l = "wait"  BY <1>6, <2>1, <2>2, <2>3, <2>5
  <2> QED BY <2>4, <2>5
<1>9. CASE EnterCallRing3(th)
  <2>1. /\ call[th].pc = "spin" /\ ctx[th] = "RZ" /\ held' = held
        /\ call' = [call EXCEPT ![th].pc = "ff", ![th].op = "CallEnter"]
    BY <1>9 DEF EnterCallRing3, ServiceFirst, At
  <2>2. call'[th].pc = "ff" /\ call'[th].op = "CallEnter" /\ call'[th].sect = call[th].sect
    BY <1>1, <2>1 DEF TypeOK, OneCall
  <2>3. call[th].op \in {"Enter", "CallEnter"}  BY <1>1, <2>1 DEF OrderOK
  <2>4. OrderOK(th)'  BY <1>1, <1>2, <2>1, <2>2, <2>3 DEF OrderOK
  <2> QED BY <1>1, <2>4, OrderOthers
<1> QED BY <1>3, <1>4, <1>5, <1>7, <1>8, <1>9

LEMMA LeaveOrders ==
  ASSUME IInv, OrderKept, NEW th \in Threads,
         \/ LeaveNested(th) \/ LeaveRelease(th) \/ LeaveLockers(th) \/ LeaveSignal(th)
         \/ LeaveTry(th) \/ LeaveCas(th) \/ LeaveQueue(th)
         \/ ForcedActions(th) \/ FFNext(th) \/ FFDone(th)
  PROVE  OrderKept'
<1>0. Step(th)  BY DEF Step
<1>1. TypeOK /\ Others(th) /\ CallOK(th) /\ call[th] \in OneCall /\ OrderOK(th)
  BY <1>0, OneThread DEF IInv, TypeOK, OrderKept
<1>2. CASE \/ LeaveNested(th) \/ LeaveRelease(th) \/ LeaveLockers(th) \/ LeaveSignal(th)
           \/ LeaveTry(th) \/ LeaveCas(th)
  <2>1. UNCHANGED <<held, ctx, queue>>
    BY <1>2 DEF LeaveNested, LeaveRelease, LeaveLockers, LeaveSignal, LeaveTry, LeaveCas
  <2>2. Left(th) \/ \E l \in {"lockers", "signal", "cas", "queue"} : Goto(th, l)
    BY <1>2 DEF LeaveNested, LeaveRelease, LeaveLockers, LeaveSignal, LeaveTry, LeaveCas
  <2> QED BY <1>1, <2>1, <2>2, OrderLeft, OrderGoto
<1>3. CASE LeaveQueue(th)
  <2>1. call[th].pc = "queue" /\ Left(th)  BY <1>3 DEF LeaveQueue, At
  <2>2. ctx[th] = "RZ" /\ call[th].i = 0  BY <1>1, <2>1 DEF CallOK
  <2>3. call[th].op # "Yield"  BY <1>1, <2>2 DEF OrderOK
  <2>4. call' = [call EXCEPT ![th] = Idle]  BY <1>1, <2>1, <2>2, <2>3 DEF Left
  <2> QED BY <1>1, <2>4, OrderReturns
<1>4. CASE ForcedActions(th)
  <2>1. call'[th].pc = "ff" /\ call'[th].op = "FF"
    BY <1>1, <1>4 DEF ForcedActions, TypeOK, Idle
  <2> QED BY <1>1, <2>1, OrderOthers DEF OrderOK
<1>5. CASE FFNext(th)
  <2>1. /\ call'[th].pc = "leave" /\ call'[th].op = call[th].op
        /\ call'[th].sect = call[th].sect /\ UNCHANGED <<held, ctx, queue>>
    BY <1>1, <1>5 DEF FFNext, TypeOK, OneCall
  <2> QED BY <1>1, <2>1, OrderGoesOn
<1>6. CASE FFDone(th)
  <2>1. CASE call[th].op = "CallEnter"
    <3>1. /\ call' = [call EXCEPT ![th].pc = "try", ![th].i = 0]
          /\ queue'[th] = <<>> /\ held' = held
      BY <1>1, <1>6, <2>1 DEF FFDone, TypeOK
    <3>2. call'[th].pc = "try" /\ call'[th].op = "CallEnter" /\ call'[th].sect = call[th].sect
      BY <1>1, <2>1, <3>1 DEF TypeOK, OneCall
    <3>3. Holds(th)' = Holds(th)  BY <3>1 DEF Holds
    <3>4. OrderOK(th)'  BY <1>1, <2>1, <3>1, <3>2, <3>3 DEF OrderOK
    <3> QED BY <1>1, <3>4, OrderOthers
  <2>2. CASE call[th].op # "CallEnter"  BY <1>1, <1>6, <2>2, OrderReturns DEF FFDone
  <2> QED BY <2>1, <2>2
<1> QED BY <1>2, <1>3, <1>4, <1>5, <1>6

LEMMA OrderAlways == Spec => []OrderKept
<1>1. Init => OrderKept  BY DEF Init, Idle, OrderKept, OrderOK
<1>2. IInv /\ OrderKept /\ [Next]_vars => OrderKept'
  <2> SUFFICES ASSUME IInv, OrderKept, [Next]_vars PROVE OrderKept'  OBVIOUS
  <2>1. CASE UNCHANGED vars  BY <2>1 DEF vars, OrderKept, OrderOK, Holds
  <2>2. CASE Next  BY <2>2, UseOrders, EnterOrders, LeaveOrders DEF Next, Step
  <2> QED BY <2>1, <2>2
<1> QED BY <1>1, <1>2, Inductive, PTL DEF Spec

(* A thread that waits for a section owns only sections that may be held while it
   is entered: what its code holds, and nothing that it has left in ring-0 and that
   is still queued. *)
WaitsInOrder ==
  \A th \in Threads : At(th, "wait") =>
    /\ queue[th] = <<>>
    /\ \A h \in Sects : owner[h] = th => <<h, Sect(th)>> \in MayHold

THEOREM OrderIsKept == Spec => []WaitsInOrder
<1>1. IInv /\ OrderKept => WaitsInOrder
  <2> SUFFICES ASSUME IInv, OrderKept, NEW th \in Threads, call[th].pc = "wait"
               PROVE  /\ queue[th] = <<>>
                      /\ \A h \in Sects : owner[h] = th => <<h, Sect(th)>> \in MayHold
    BY DEF WaitsInOrder, At
  <2>1. OrderOK(th) /\ CallOK(th)  BY DEF OrderKept, IInv
  <2>2. ctx[th] # "RZ" /\ Sect(th) = call[th].sect  BY <2>1 DEF OrderOK, CallOK, Sect
  <2>3. queue[th] = <<>>  BY <2>1, <2>2 DEF OrderOK
  <2>4. ASSUME NEW h \in Sects, owner[h] = th PROVE <<h, Sect(th)>> \in MayHold
    <3>1. ~ Queued(th, h) /\ ~ Leaving(th, h)
      <4>1. DOMAIN <<>> = {}  BY EmptySeq
      <4> QED BY <2>3, <4>1 DEF Queued, Leaving
    <3>2. /\ cNestings[h] >= 1 /\ held[th][h] \in Nat
          /\ cNestings[h] = held[th][h] + One(Queued(th, h)) + One(Leaving(th, h))
      BY <2>4, OwnerFacts DEF IInv, TypeOK
    <3>3. held[th][h] > 0  BY <3>1, <3>2 DEF One
    <3>4. h \in Holds(th)  BY <3>3 DEF Holds
    <3>5. call[th].op \in {"Enter", "CallEnter"} /\ held[th][Sect(th)] = 0
      BY <2>1, <2>2, <3>4 DEF OrderOK
    <3> QED BY <2>1, <2>2, <3>4, <3>5 DEF OrderOK
  <2> QED BY <2>3, <2>4
<1> QED BY <1>1, Inductive, OrderAlways, PTL

(* No set of threads waits in a circle. *)

\* The lock order admits no cycle: among some sections there is always one that is
\* held while none of the others is entered.
NoCycle ==
  \A T \in SUBSET Sects : T # {} => \E s \in T : \A r \in T : <<s, r>> \notin MayHold

\* In every set of threads there is one that does not wait for a section which
\* another one of them (or the thread itself) owns.
NoCircularWait ==
  \A W \in SUBSET Threads : W # {} => \E th \in W : ~ (At(th, "wait") /\ owner[Sect(th)] \in W)

(* When the sections are entered in an order without cycles, the sections never
   deadlock their users: PDMCritSectEnter, the queued leaves of ring-0, the calls
   from ring-0 to ring-3 and PDMR3CritSectYield add no wait to those the order
   allows, so that some thread of every group can go on. *)
THEOREM NoDeadlock == ASSUME NoCycle PROVE Spec => []NoCircularWait
<1>1. IInv /\ WaitsInOrder => NoCircularWait
  <2> SUFFICES ASSUME IInv, WaitsInOrder, NEW W \in SUBSET Threads, W # {},
                      \A th \in W : At(th, "wait") /\ owner[Sect(th)] \in W
               PROVE  FALSE
    BY DEF NoCircularWait
  <2> DEFINE T == {Sect(th) : th \in W}
  <2>1. \A th \in W : Sect(th) \in Sects  BY DEF IInv, CallOK, At
  <2>2. T \in SUBSET Sects /\ T # {}  BY <2>1
  <2>3. PICK s \in T : \A r \in T : <<s, r>> \notin MayHold  BY <2>2 DEF NoCycle
  <2>4. owner[s] \in W /\ s \in Sects  BY <2>1
  <2>5. <<s, Sect(owner[s])>> \in MayHold  BY <2>4 DEF WaitsInOrder
  <2> QED BY <2>3, <2>4, <2>5
<1> QED BY <1>1, Inductive, OrderIsKept, PTL

=============================================================================
