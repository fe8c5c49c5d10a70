------------------------- MODULE TMTimerQueueProofs -------------------------
(***************************************************************************)
(* Theorems about TMTimerQueue, for every set of timers and threads and    *)
(* every bound.                                                            *)
(***************************************************************************)
EXTENDS TMTimerQueue, SequenceTheorems, WellFoundedInduction, TLAPS

(* A non-empty set of natural numbers has a least element. *)
LEMMA LeastNat ==
  ASSUME NEW T \in SUBSET Nat, T # {}
  PROVE  \E x \in T : \A y \in T : x <= y
<1> DEFINE R == OpToRel(<, Nat)
<1>1. IsWellFoundedOn(R, Nat)  BY NatLessThanWellFounded
<1>2. \A x, y \in Nat : x < y => <<x, y>> \in R  BY Zenon DEF OpToRel
<1> HIDE DEF R
<1>3. \E x \in T : \A y \in T : ~ (<<y, x>> \in R)  BY <1>1, WFMin
<1>4. PICK x \in T : \A y \in T : ~ (<<y, x>> \in R)  BY <1>3
<1>5. \A y \in T : ~ (y < x)  BY <1>2, <1>4, Zenon
<1>6. \A y \in T : x \in Nat /\ y \in Nat  BY <1>4
<1> QED BY <1>4, <1>5, <1>6

(* Cutting a sequence at a position gives sequences over the same set. *)
LEMMA Cut ==
  ASSUME NEW S, NEW s \in Seq(S), NEW m \in Int, NEW n \in Int, 1 <= m, n <= Len(s)
  PROVE  SubSeq(s, m, n) \in Seq(S)
<1>1. \A i \in m..n : s[i] \in S  BY ElementOfSeq, LenProperties
<1> QED BY <1>1, SubSeqProperties

(* Pushing on the schedule list. *)
LEMMA Push ==
  ASSUME NEW S, NEW s \in Seq(S), NEW t \in S
  PROVE  <<t>> \o s \in Seq(S)
BY ConcatProperties

-----------------------------------------------------------------------------
(* The operators on the active list. *)

LEMMA LinkPosType ==
  ASSUME NEW e \in Nat, TypeOK
  PROVE  LinkPos(e) \in 1..(Len(active) + 1)
<1> DEFINE later == {i \in DOMAIN active : expire[active[i]] > e}
<1>1. Len(active) \in Nat /\ DOMAIN active = 1..Len(active)
  BY LenProperties DEF TypeOK, ListsOK
<1>2. CASE later = {}
  BY <1>1, <1>2 DEF LinkPos
<1>3. CASE later # {}
  <2>0. later \in SUBSET Nat  BY <1>1
  <2>1. \E i \in later : \A j \in later : i <= j  BY <1>3, <2>0, LeastNat
  <2>2. LinkPos(e) \in later  BY <1>3, <2>1 DEF LinkPos
  <2> QED BY <1>1, <2>2
<1> QED BY <1>2, <1>3

LEMMA LinkActiveType ==
  ASSUME NEW t \in Timers, NEW e \in Nat, TypeOK, LinkActive(t, e)
  PROVE  active' \in Seq(Timers) /\ queueExpire' \in Nat \cup {Never}
<1>1. LinkPos(e) \in 1..(Len(active) + 1) /\ Len(active) \in Nat
  BY LinkPosType, LenProperties DEF TypeOK, ListsOK
<1>2. SubSeq(active, 1, LinkPos(e) - 1) \in Seq(Timers)  BY <1>1, Cut DEF TypeOK, ListsOK
<1>3. SubSeq(active, LinkPos(e), Len(active)) \in Seq(Timers)  BY <1>1, Cut DEF TypeOK, ListsOK
<1>4. <<t>> \in Seq(Timers)  OBVIOUS
<1>5. active' \in Seq(Timers)  BY <1>2, <1>3, <1>4, ConcatProperties DEF LinkActive
<1> QED BY <1>5 DEF LinkActive, TypeOK, ListsOK

LEMMA NextOfType ==
  ASSUME TypeOK, NEW t
  PROVE  NextOf(t) \in TimerOrNone /\ ExpireOf(NextOf(t)) \in Nat \cup {Never}
<1>1. Len(active) \in Nat /\ active \in [1..Len(active) -> Timers]
  BY LenProperties DEF TypeOK, ListsOK
<1>2. NextOf(t) \in TimerOrNone  BY <1>1 DEF NextOf, TimerOrNone
<1> QED BY <1>2 DEF ExpireOf, TimerOrNone, TypeOK

LEMMA UnlinkType ==
  ASSUME TypeOK, NEW t, NEW next \in TimerOrNone, Unlink(t, next)
  PROVE  active' \in Seq(Timers) /\ queueExpire' \in Nat \cup {Never}
<1>1. Len(active) \in Nat /\ DOMAIN active = 1..Len(active) /\ active \in Seq(Timers)
  BY LenProperties DEF TypeOK, ListsOK
<1>2. \A u : InActive(u) => Index(u) \in 1..Len(active)  BY <1>1 DEF InActive, Index
<1>3. Before(t) \in Seq(Timers)  BY <1>1, <1>2, Cut, EmptySeq DEF Before
<1>4. From(next) \in Seq(Timers)  BY <1>1, <1>2, Cut, EmptySeq DEF From
<1>5. active' \in Seq(Timers)  BY <1>3, <1>4, ConcatProperties DEF Unlink
<1>6. queueExpire' \in Nat \cup {Never}
  BY DEF Unlink, ExpireOf, TimerOrNone, TypeOK, ListsOK
<1> QED BY <1>5, <1>6

-----------------------------------------------------------------------------
(* The inductive invariant. *)

\* The steps of a call that never own the TM lock through TMTimerSetRelative.
Unowned == {"idle", "probe", "trylock", "optimize", "relative", "stop", "stopCas",
            "stopFallThrough", "destroy", "mark", "free"}

\* What the program counters say of the other locals.
CallLocals(c) == /\ c \in CallType
                 /\ c.pc # "idle" => c.timer \in Timers
                 /\ c.pc \in Unowned => ~ c.own
                 /\ c.pc = "optimizeRelative" => c.own
OneLocals == /\ one.pc \in {"read", "cas", "link"} => one.timer \in Timers
             /\ one.pc = "cas" => one.old \in Pending \ SetExpire
RunLocals == run.pc \in {"crit", "try", "unlink", "callback"} => run.timer \in Timers

\* The invariant by what the actions change.
TimerInv == state \in [Timers -> States] /\ expire \in [Timers -> Nat]
OneInv == one \in OneType /\ OneLocals
RunInv == run \in RunType /\ RunLocals
CallInv == /\ call \in [Threads -> CallType]
           /\ \A th \in Threads : CallLocals(call[th])
LockInv == LockBalanced /\ tmOwner \in Threads \cup {NoThread} /\ tmNest \in Nat
MiscInv == ff \in BOOLEAN /\ running \in BOOLEAN /\ now \in Nat /\ ops \in Nat
IInv == TimerInv /\ ListsOK /\ OneInv /\ RunInv /\ CallInv /\ LockInv /\ MiscInv

LEMMA IInvType == IInv => TypeOK
BY DEF IInv, TypeOK, TimerInv, OneInv, RunInv, CallInv, LockInv, MiscInv

(* Taking the TM lock, leaving it, and doing neither keep LockInv when the
   place of the thread changes accordingly. *)
LEMMA EnteredType == \A th \in Threads : Entered(th) \in Nat
BY DEF Entered, Depth

LEMMA LockKeeps ==
  ASSUME LockInv, NEW th \in Threads, Lock(th), Entered(th)' = Entered(th) + 1,
         \A u \in Threads \ {th} : Entered(u)' = Entered(u)
  PROVE  LockInv'
BY EnteredType, NoneAssumption DEF LockInv, LockBalanced, Lock, CanLock

LEMMA UnlockKeeps ==
  ASSUME LockInv, NEW th \in Threads, Unlock, Entered(th)' = Entered(th) - 1,
         Entered(th)' \in Nat,
         \A u \in Threads \ {th} : Entered(u)' = Entered(u)
  PROVE  LockInv'
<1>1. Entered(th) > 0  BY EnteredType
<1>2. tmOwner = th /\ tmNest = Entered(th) /\ tmOwner # NoThread
  BY <1>1, EnteredType, NoneAssumption DEF LockInv, LockBalanced
<1> QED BY <1>1, <1>2, EnteredType, NoneAssumption DEF LockInv, LockBalanced, Unlock

LEMMA OtherKeeps ==
  ASSUME LockInv, UNCHANGED LockVars, \A u \in Threads : Entered(u)' = Entered(u)
  PROVE  LockInv'
BY DEF LockInv, LockBalanced, LockVars

\* A step of a thread that is d levels deep in the TM lock and then e.
LockMoves(th, d, e) == \/ UNCHANGED LockVars /\ e = d
                       \/ Lock(th) /\ e = d + 1
                       \/ Unlock /\ e = d - 1

(* A step of a call changes the locals of its thread only. *)
LEMMA CallStep ==
  ASSUME CallInv, LockInv, NEW th \in Threads, NEW c, CallLocals(c),
         call' = [call EXCEPT ![th] = c], run' = run,
         LockMoves(th, Depth(call[th].pc, call[th].own), Depth(c.pc, c.own))
  PROVE  CallInv' /\ LockInv'
<1>1. CallInv' /\ call'[th] = c /\ \A u \in Threads \ {th} : call'[u] = call[u]
  BY DEF CallInv, CallLocals
<1>2. \A u \in Threads \ {th} : Entered(u)' = Entered(u)  BY <1>1 DEF Entered
<1> DEFINE d == Depth(call[th].pc, call[th].own)
           e == Depth(c.pc, c.own)
<1>3. d \in Nat /\ e \in Nat  BY DEF Depth
<1>4. Entered(th) \in Nat /\ Entered(th)' \in Nat /\ Entered(th)' - e = Entered(th) - d
  BY <1>1, <1>3 DEF Entered
<1> HIDE DEF d, e
<1>5. CASE UNCHANGED LockVars /\ e = d
  <2>1. Entered(th)' = Entered(th)  BY <1>3, <1>4, <1>5
  <2>2. \A u \in Threads : Entered(u)' = Entered(u)  BY <1>2, <2>1
  <2> QED BY <1>1, <1>5, <2>2, OtherKeeps
<1>6. CASE Lock(th) /\ e = d + 1
  <2>1. Entered(th)' = Entered(th) + 1  BY <1>3, <1>4, <1>6
  <2> QED BY <1>1, <1>2, <1>6, <2>1, LockKeeps
<1>7. CASE Unlock /\ e = d - 1
  <2>1. Entered(th)' = Entered(th) - 1  BY <1>3, <1>4, <1>7
  <2> QED BY <1>1, <1>2, <1>4, <1>7, <2>1, UnlockKeeps
<1> QED BY <1>1, <1>5, <1>6, <1>7 DEF LockMoves, d, e

\* A step l that a call may go to.
Allowed(l, own) == /\ l \in CallPcs
                   /\ l \in Unowned => ~ own
                   /\ l = "optimizeRelative" => own

LEMMA GotoStep ==
  ASSUME CallInv, LockInv, NEW th \in Threads, NEW l, ~ At(th, "idle"),
         Allowed(l, call[th].own), Goto(th, l), run' = run,
         LockMoves(th, Depth(call[th].pc, call[th].own), Depth(l, call[th].own))
  PROVE  CallInv' /\ LockInv'
<1> DEFINE c == [call[th] EXCEPT !.pc = l]
<1>1. CallLocals(c) /\ c.pc = l /\ c.own = call[th].own
  BY DEF CallInv, CallLocals, CallType, Allowed, At
<1>2. call' = [call EXCEPT ![th] = c]  BY DEF Goto
<1> QED BY <1>1, <1>2, CallStep

LEMMA GotoWithStep ==
  ASSUME CallInv, LockInv, NEW th \in Threads, NEW l, NEW s \in States, ~ At(th, "idle"),
         Allowed(l, call[th].own), GotoWith(th, l, s), run' = run,
         LockMoves(th, Depth(call[th].pc, call[th].own), Depth(l, call[th].own))
  PROVE  CallInv' /\ LockInv'
<1> DEFINE c == [call[th] EXCEPT !.pc = l, !.old = s]
<1>1. CallLocals(c) /\ c.pc = l /\ c.own = call[th].own
  BY DEF CallInv, CallLocals, CallType, Allowed, At
<1>2. call' = [call EXCEPT ![th] = c]  BY DEF GotoWith, CallInv
<1> QED BY <1>1, <1>2, CallStep

LEMMA GotoOwningStep ==
  ASSUME CallInv, LockInv, NEW th \in Threads, NEW l, ~ At(th, "idle"),
         Allowed(l, TRUE), GotoOwning(th, l), run' = run,
         LockMoves(th, Depth(call[th].pc, call[th].own), Depth(l, TRUE))
  PROVE  CallInv' /\ LockInv'
<1> DEFINE c == [call[th] EXCEPT !.pc = l, !.own = TRUE]
<1>1. CallLocals(c) /\ c.pc = l /\ c.own = TRUE
  BY DEF CallInv, CallLocals, CallType, Allowed, At
<1>2. call' = [call EXCEPT ![th] = c]  BY DEF GotoOwning, CallInv
<1> QED BY <1>1, <1>2, CallStep

LEMMA LeaveStep ==
  ASSUME CallInv, LockInv, NEW th \in Threads, Leave(th), run' = run,
         LockMoves(th, Depth(call[th].pc, call[th].own), 0)
  PROVE  CallInv' /\ LockInv'
<1>1. CallLocals(Idle)
  BY DEF CallLocals, CallType, Idle, CallPcs, States, TimerOrNone, Calls, Unowned
<1>2. Depth(Idle.pc, Idle.own) = 0  BY DEF Depth, Idle
<1> QED BY <1>1, <1>2, CallStep DEF Leave

-----------------------------------------------------------------------------
(* The steps of a call.  The parts of the invariant other than CallInv and
   LockInv are dealt with where a step disturbs them. *)

USE DEF At

\* What a step of a call that is not idle may rely on.
LEMMA CallFacts ==
  ASSUME IInv, NEW th \in Threads, ~ At(th, "idle")
  PROVE  /\ call[th] \in CallType /\ call[th].timer \in Timers
         /\ state[call[th].timer] \in States
         /\ call[th].pc \in Unowned => ~ call[th].own
         /\ At(th, "optimizeRelative") => call[th].own
BY DEF IInv, CallInv, CallLocals, TimerInv

(* A call that goes to step l keeps to the discipline of the TM lock. *)
LEMMA GotoLocks ==
  ASSUME IInv, NEW th \in Threads, ~ At(th, "idle"), NEW l, NEW s \in States,
         Goto(th, l) \/ GotoWith(th, l, s), run' = run, Allowed(l, call[th].own),
         LockMoves(th, Depth(call[th].pc, call[th].own), Depth(l, call[th].own))
  PROVE  CallInv' /\ LockInv'
BY GotoStep, GotoWithStep DEF IInv

(* Every step of a call keeps what is known of the locals of the calls, and the
   balance of the TM lock. *)
LEMMA StepKeepsCalls ==
  ASSUME IInv, NEW th \in Threads, Step(th)
  PROVE  CallInv' /\ LockInv'
<1> USE DEF Allowed, CallPcs, Unowned, LockMoves, Depth, RunVars
<1> DEFINE s == state[call[th].timer]
<1>1. "STOPPED" \in States  BY DEF States
<1>2. CASE SetProbe(th)
  <2>1. PICK l \in {"trylock", "read"} : GotoWith(th, l, s) /\ UNCHANGED LockVars
    BY <1>2 DEF SetProbe
  <2>2. ~ At(th, "idle") /\ run' = run /\ s \in States  BY <1>2, CallFacts DEF SetProbe
  <2>3. Allowed(l, call[th].own)
        /\ LockMoves(th, Depth(call[th].pc, call[th].own), Depth(l, call[th].own))
    BY <1>2, <2>1, <2>2, CallFacts DEF SetProbe
  <2> QED BY <1>1, <2>1, <2>2, <2>3, GotoLocks
<1>3. CASE SetTryLock(th)
  <2>1. PICK l \in {"optimize", "read"} : Goto(th, l) /\ IF l = "read" THEN UNCHANGED LockVars ELSE Lock(th)
    BY <1>3 DEF SetTryLock
  <2>2. ~ At(th, "idle") /\ run' = run /\ s \in States  BY <1>3, CallFacts DEF SetTryLock
  <2>3. Allowed(l, call[th].own)
        /\ LockMoves(th, Depth(call[th].pc, call[th].own), Depth(l, call[th].own))
    BY <1>3, <2>1, <2>2, CallFacts DEF SetTryLock
  <2> QED BY <1>1, <2>1, <2>2, <2>3, GotoLocks
<1>4. CASE SetOptimize(th)
  <2>1. PICK l \in {"start", "read"} : Goto(th, l) /\ IF l = "start" THEN UNCHANGED LockVars ELSE Unlock
    BY <1>4 DEF SetOptimize
  <2>2. ~ At(th, "idle") /\ run' = run /\ s \in States  BY <1>4, CallFacts DEF SetOptimize
  <2>3. Allowed(l, call[th].own)
        /\ LockMoves(th, Depth(call[th].pc, call[th].own), Depth(l, call[th].own))
    BY <1>4, <2>1, <2>2, CallFacts DEF SetOptimize
  <2> QED BY <1>1, <2>1, <2>2, <2>3, GotoLocks
<1>5. CASE SetRelativeOptimize(th)
  <2>1. PICK l \in {"start", "read"} : Goto(th, l) /\ UNCHANGED LockVars
    BY <1>5 DEF SetRelativeOptimize
  <2>2. ~ At(th, "idle") /\ run' = run /\ s \in States  BY <1>5, CallFacts DEF SetRelativeOptimize
  <2>3. Allowed(l, call[th].own)
        /\ LockMoves(th, Depth(call[th].pc, call[th].own), Depth(l, call[th].own))
    BY <1>5, <2>1, <2>2, CallFacts DEF SetRelativeOptimize
  <2> QED BY <1>1, <2>1, <2>2, <2>3, GotoLocks
<1>6. CASE SetRead(th)
  <2>1. PICK l \in {"again", "cas"} : GotoWith(th, l, s) /\ UNCHANGED LockVars
    BY <1>6 DEF SetRead
  <2>2. ~ At(th, "idle") /\ run' = run /\ s \in States  BY <1>6, CallFacts DEF SetRead
  <2>3. Allowed(l, call[th].own)
        /\ LockMoves(th, Depth(call[th].pc, call[th].own), Depth(l, call[th].own))
    BY <1>6, <2>1, <2>2, CallFacts DEF SetRead
  <2> QED BY <1>1, <2>1, <2>2, <2>3, GotoLocks
<1>7. CASE SetCas(th)
  <2>1. PICK l \in {"link", "write", "again"} : Goto(th, l) /\ UNCHANGED LockVars
    BY <1>7 DEF SetCas
  <2>2. ~ At(th, "idle") /\ run' = run /\ s \in States  BY <1>7, CallFacts DEF SetCas
  <2>3. Allowed(l, call[th].own)
        /\ LockMoves(th, Depth(call[th].pc, call[th].own), Depth(l, call[th].own))
    BY <1>7, <2>1, <2>2, CallFacts DEF SetCas
  <2> QED BY <1>1, <2>1, <2>2, <2>3, GotoLocks
<1>8. CASE SetLink(th)
  <2>1. PICK l \in {"schedule", "write"} : Goto(th, l) /\ UNCHANGED LockVars
    BY <1>8 DEF SetLink
  <2>2. ~ At(th, "idle") /\ run' = run /\ s \in States  BY <1>8, CallFacts DEF SetLink
  <2>3. Allowed(l, call[th].own)
        /\ LockMoves(th, Depth(call[th].pc, call[th].own), Depth(l, call[th].own))
    BY <1>8, <2>1, <2>2, CallFacts DEF SetLink
  <2> QED BY <1>1, <2>1, <2>2, <2>3, GotoLocks
<1>9. CASE SetWrite(th)
  <2>1. PICK l \in {"commit"} : Goto(th, l) /\ UNCHANGED LockVars
    BY <1>9 DEF SetWrite
  <2>2. ~ At(th, "idle") /\ run' = run /\ s \in States  BY <1>9, CallFacts DEF SetWrite
  <2>3. Allowed(l, call[th].own)
        /\ LockMoves(th, Depth(call[th].pc, call[th].own), Depth(l, call[th].own))
    BY <1>9, <2>1, <2>2, CallFacts DEF SetWrite
  <2> QED BY <1>1, <2>1, <2>2, <2>3, GotoLocks
<1>10. CASE SetCommit(th)
  <2>1. PICK l \in {"schedule"} : Goto(th, l) /\ UNCHANGED LockVars
    BY <1>10 DEF SetCommit
  <2>2. ~ At(th, "idle") /\ run' = run /\ s \in States  BY <1>10, CallFacts DEF SetCommit
  <2>3. Allowed(l, call[th].own)
        /\ LockMoves(th, Depth(call[th].pc, call[th].own), Depth(l, call[th].own))
    BY <1>10, <2>1, <2>2, CallFacts DEF SetCommit
  <2> QED BY <1>1, <2>1, <2>2, <2>3, GotoLocks
<1>11. CASE StopCas(th)
  <2>1. PICK l \in {"link", "schedule", "stopFallThrough", "stop"} : Goto(th, l) /\ UNCHANGED LockVars
    BY <1>11 DEF StopCas
  <2>2. ~ At(th, "idle") /\ run' = run /\ s \in States  BY <1>11, CallFacts DEF StopCas
  <2>3. Allowed(l, call[th].own)
        /\ LockMoves(th, Depth(call[th].pc, call[th].own), Depth(l, call[th].own))
    BY <1>11, <2>1, <2>2, CallFacts DEF StopCas
  <2> QED BY <1>1, <2>1, <2>2, <2>3, GotoLocks
<1>12. CASE StopFallThrough(th)
  <2>1. PICK l \in {"schedule", "stop"} : Goto(th, l) /\ UNCHANGED LockVars
    BY <1>12 DEF StopFallThrough
  <2>2. ~ At(th, "idle") /\ run' = run /\ s \in States  BY <1>12, CallFacts DEF StopFallThrough
  <2>3. Allowed(l, call[th].own)
        /\ LockMoves(th, Depth(call[th].pc, call[th].own), Depth(l, call[th].own))
    BY <1>12, <2>1, <2>2, CallFacts DEF StopFallThrough
  <2> QED BY <1>1, <2>1, <2>2, <2>3, GotoLocks
<1>13. CASE Schedule(th)
  <2>1. PICK l \in {"batch", "notify"} : Goto(th, l) /\ IF l = "batch" THEN Lock(th) ELSE UNCHANGED LockVars
    BY <1>13 DEF Schedule
  <2>2. ~ At(th, "idle") /\ run' = run /\ s \in States  BY <1>13, CallFacts DEF Schedule
  <2>3. Allowed(l, call[th].own)
        /\ LockMoves(th, Depth(call[th].pc, call[th].own), Depth(l, call[th].own))
    BY <1>13, <2>1, <2>2, CallFacts DEF Schedule
  <2> QED BY <1>1, <2>1, <2>2, <2>3, GotoLocks
<1>14. CASE ScheduleNotify(th)
  <2>1. PICK l \in {"return"} : Goto(th, l) /\ UNCHANGED LockVars
    BY <1>14 DEF ScheduleNotify
  <2>2. ~ At(th, "idle") /\ run' = run /\ s \in States  BY <1>14, CallFacts DEF ScheduleNotify
  <2>3. Allowed(l, call[th].own)
        /\ LockMoves(th, Depth(call[th].pc, call[th].own), Depth(l, call[th].own))
    BY <1>14, <2>1, <2>2, CallFacts DEF ScheduleNotify
  <2> QED BY <1>1, <2>1, <2>2, <2>3, GotoLocks
<1>15. CASE ScheduleDone(th)
  <2>1. PICK l \in {"return"} : Goto(th, l) /\ Unlock
    BY <1>15 DEF ScheduleDone
  <2>2. ~ At(th, "idle") /\ run' = run /\ s \in States  BY <1>15, CallFacts DEF ScheduleDone
  <2>3. Allowed(l, call[th].own)
        /\ LockMoves(th, Depth(call[th].pc, call[th].own), Depth(l, call[th].own))
    BY <1>15, <2>1, <2>2, CallFacts DEF ScheduleDone
  <2> QED BY <1>1, <2>1, <2>2, <2>3, GotoLocks
<1>16. CASE DestroyLock(th)
  <2>1. PICK l \in {"mark"} : Goto(th, l) /\ Lock(th)
    BY <1>16 DEF DestroyLock
  <2>2. ~ At(th, "idle") /\ run' = run /\ s \in States  BY <1>16, CallFacts DEF DestroyLock
  <2>3. Allowed(l, call[th].own)
        /\ LockMoves(th, Depth(call[th].pc, call[th].own), Depth(l, call[th].own))
    BY <1>16, <2>1, <2>2, CallFacts DEF DestroyLock
  <2> QED BY <1>1, <2>1, <2>2, <2>3, GotoLocks
<1>17. CASE DestroyMark(th)
  <2>1. PICK l \in {"free"} : Goto(th, l) /\ UNCHANGED LockVars
    BY <1>17 DEF DestroyMark
  <2>2. ~ At(th, "idle") /\ run' = run /\ s \in States  BY <1>17, CallFacts DEF DestroyMark
  <2>3. Allowed(l, call[th].own)
        /\ LockMoves(th, Depth(call[th].pc, call[th].own), Depth(l, call[th].own))
    BY <1>17, <2>1, <2>2, CallFacts DEF DestroyMark
  <2> QED BY <1>1, <2>1, <2>2, <2>3, GotoLocks
<1>18. CASE SetRelative(th)
  <2>1. CASE CanLock(th)
    <3>1. PICK l \in {"optimizeRelative", "read"} : GotoOwning(th, l) /\ Lock(th)
      BY <1>18, <2>1 DEF SetRelative
    <3>2. call[th].pc = "relative" /\ ~ call[th].own /\ run' = run
      BY <1>18, CallFacts DEF SetRelative
    <3> QED BY <3>1, <3>2, GotoOwningStep DEF IInv
  <2>2. CASE ~ CanLock(th)
    <3>1. Goto(th, "read") /\ UNCHANGED LockVars  BY <1>18, <2>2 DEF SetRelative
    <3>2. call[th].pc = "relative" /\ ~ call[th].own /\ run' = run
      BY <1>18, CallFacts DEF SetRelative
    <3> QED BY <3>1, <3>2, GotoStep DEF IInv
  <2> QED BY <2>1, <2>2
<1>19. CASE SetAgain(th)
  <2>1. call[th].pc = "again" /\ run' = run  BY <1>19 DEF SetAgain
  <2>2. CASE GotoOwning(th, "read") /\ Lock(th) /\ ~ call[th].own
    BY <2>1, <2>2, GotoOwningStep DEF IInv
  <2>3. CASE Goto(th, "read") /\ UNCHANGED LockVars
    BY <2>1, <2>3, GotoStep DEF IInv
  <2> QED BY <1>19, <2>2, <2>3 DEF SetAgain
<1>20. CASE StopRead(th)
  <2>1. call[th].pc = "stop" /\ ~ call[th].own /\ run' = run /\ UNCHANGED LockVars /\ s \in States
    BY <1>20, CallFacts DEF StopRead
  <2>2. CASE Leave(th)  BY <2>1, <2>2, LeaveStep DEF IInv
  <2>3. CASE GotoWith(th, "stopCas", s)  BY <2>1, <2>3, GotoWithStep DEF IInv
  <2> QED BY <1>20, <2>2, <2>3 DEF StopRead
<1>21. CASE SetOptimizedStart(th)
  <2>1. call[th].pc = "start" /\ run' = run /\ Unlock /\ Leave(th)
    BY <1>21 DEF SetOptimizedStart
  <2> QED BY <2>1, LeaveStep DEF IInv
<1>22. CASE Return(th)
  <2>1. call[th].pc = "return" /\ run' = run /\ Leave(th)
        /\ IF call[th].own THEN Unlock ELSE UNCHANGED LockVars
    BY <1>22 DEF Return
  <2> QED BY <2>1, LeaveStep DEF IInv
<1>23. CASE DestroyFree(th)
  <2>1. call[th].pc = "free" /\ ~ call[th].own /\ run' = run /\ Unlock /\ Leave(th)
    BY <1>23, CallFacts DEF DestroyFree
  <2> QED BY <2>1, LeaveStep DEF IInv
<1> QED BY <1>2, <1>3, <1>4, <1>5, <1>6, <1>7, <1>8, <1>9, <1>10, <1>11, <1>12, <1>13, <1>14, <1>15, <1>16, <1>17, <1>18, <1>19, <1>20, <1>21, <1>22, <1>23 DEF Step

(* Making a call. *)
LEMMA BeginKeepsCalls ==
  ASSUME IInv, NEW th \in Threads, Begin(th)
  PROVE  CallInv' /\ LockInv'
<1>1. CASE \E op \in Calls, t \in Timers, x \in Nat, l \in {"probe", "relative", "stop", "destroy"} :
             Call(th, op, t, x, l)
  <2>1. PICK op \in Calls, t \in Timers, x \in Nat, l \in {"probe", "relative", "stop", "destroy"} :
               Call(th, op, t, x, l)
    BY <1>1
  <2> DEFINE c == [pc |-> l, op |-> op, timer |-> t, arg |-> x, old |-> "STOPPED", own |-> FALSE]
  <2>2. CallLocals(c)
    BY DEF CallLocals, CallType, CallPcs, States, TimerOrNone, Unowned
  <2>3. call' = [call EXCEPT ![th] = c] /\ run' = run /\ UNCHANGED LockVars /\ call[th].pc = "idle"
    BY <2>1 DEF Call, LockVars
  <2>4. ~ call[th].own  BY <2>3 DEF IInv, CallInv, CallLocals, Unowned
  <2>5. LockMoves(th, Depth(call[th].pc, call[th].own), Depth(c.pc, c.own))
    BY <2>3, <2>4 DEF LockMoves, Depth
  <2> QED BY <2>2, <2>3, <2>5, CallStep DEF IInv
<1>2. CASE TMR3TimerCreate(th)
  <2>1. UNCHANGED <<call, run, LockVars>>  BY <1>2 DEF TMR3TimerCreate, LockVars
  <2> QED BY <2>1, OtherKeeps DEF IInv, CallInv, Entered
<1> QED BY <1>1, <1>2, BoundAssumption
        DEF Begin, TMTimerSet, TMTimerSetRelative, TMTimerStop, TMR3TimerDestroy, Calls

-----------------------------------------------------------------------------
(* The other parts of the invariant. *)

\* What a step changes besides calls and locks.
RestInv == TimerInv /\ ListsOK /\ OneInv /\ RunInv /\ MiscInv

LEMMA TakeBatchType ==
  ASSUME ListsOK, TakeBatch
  PROVE  /\ schedule' \in Seq(Timers) /\ batch' \in Seq(Timers) /\ abandoned' \subseteq Timers
         /\ OneInv'
BY DEF ListsOK, TakeBatch, OneInv, OneType, OneLocals, NoOne, States, TimerOrNone

LEMMA BeginKeepsRest ==
  ASSUME IInv, NEW th \in Threads, Begin(th)
  PROVE  RestInv'
<1> USE DEF IInv, RestInv, TimerInv, ListsOK, OneInv, OneLocals, RunInv, RunLocals, MiscInv
<1>1. CASE \E op, t, x, l : Call(th, op, t, x, l)
  BY <1>1 DEF Call
<1>2. CASE TMR3TimerCreate(th)
  BY <1>2 DEF TMR3TimerCreate, States
<1> QED BY <1>1, <1>2 DEF Begin, TMTimerSet, TMTimerSetRelative, TMTimerStop, TMR3TimerDestroy

LEMMA WantedType ==
  ASSUME IInv, NEW th \in Threads
  PROVE  Wanted(th) \in Nat
BY DEF Wanted, IInv, CallInv, CallType, MiscInv

LEMMA StepKeepsRest ==
  ASSUME IInv, NEW th \in Threads, Step(th)
  PROVE  RestInv'
<1> USE DEF IInv, RestInv, TimerInv, ListsOK, OneInv, OneLocals, RunInv, RunLocals, MiscInv,
            RunVars, LockVars, ActiveVars, ListVars
<1>1. CASE \/ SetProbe(th) \/ SetTryLock(th) \/ SetRelative(th) \/ SetRead(th) \/ SetAgain(th)
           \/ StopRead(th) \/ ScheduleDone(th) \/ Return(th) \/ DestroyLock(th)
  BY <1>1 DEF SetProbe, SetTryLock, SetRelative, SetRead, SetAgain, StopRead, ScheduleDone,
              Return, DestroyLock
<1>2. CASE SetOptimize(th) \/ SetRelativeOptimize(th) \/ StopFallThrough(th) \/ DestroyFree(th)
  BY <1>2 DEF SetOptimize, SetRelativeOptimize, StopFallThrough, DestroyFree, States
<1>3. CASE SetCas(th) \/ StopCas(th) \/ SetCommit(th)
  BY <1>3 DEF SetCas, StopCas, SetCommit, States, Claim, Stopped
<1>4. CASE SetOptimizedStart(th)
  <2>1. Wanted(th) \in Nat  BY WantedType
  <2>2. call[th].timer \in Timers  BY <1>4, CallFacts DEF SetOptimizedStart
  <2>3. active' \in Seq(Timers) /\ queueExpire' \in Nat \cup {Never}
    BY <1>4, <2>1, <2>2, LinkActiveType, IInvType DEF SetOptimizedStart
  <2> QED BY <1>4, <2>1, <2>3 DEF SetOptimizedStart
<1>5. CASE SetLink(th)
  <2>1. call[th].timer \in Timers  BY <1>5, CallFacts DEF SetLink
  <2>2. schedule' \in Seq(Timers)  BY <1>5, <2>1, Push DEF SetLink, LinkSchedule
  <2> QED BY <1>5, <2>2 DEF SetLink
<1>6. CASE SetWrite(th)
  BY <1>6, WantedType DEF SetWrite
<1>7. CASE Schedule(th)
  <2>1. CASE TakeBatch  BY <1>7, <2>1, TakeBatchType DEF Schedule
  <2>2. CASE UNCHANGED ListVars  BY <1>7, <2>2 DEF Schedule
  <2> QED BY <1>7, <2>1, <2>2 DEF Schedule
<1>8. CASE ScheduleNotify(th)
  BY <1>8 DEF ScheduleNotify
<1>9. CASE DestroyMark(th)
  <2>1. active' \in Seq(Timers) /\ queueExpire' \in Nat \cup {Never}
    <3> DEFINE t == call[th].timer
    <3>1. CASE UnlinkActive(t)
      BY <3>1, NextOfType, UnlinkType, IInvType DEF UnlinkActive
    <3>2. CASE UNCHANGED ActiveVars  BY <3>2
    <3> QED BY <1>9, <3>1, <3>2 DEF DestroyMark
  <2>2. /\ schedule' \in Seq(Timers) /\ batch' \in Seq(Timers) /\ abandoned' \subseteq Timers
        /\ OneInv'
    <3>1. CASE TakeBatch  BY <3>1, TakeBatchType
    <3>2. CASE UNCHANGED ListVars  BY <3>2
    <3> QED BY <1>9, <3>1, <3>2 DEF DestroyMark
  <2>3. state' \in [Timers -> States] /\ UNCHANGED <<expire, ops, RunVars>>
    BY <1>9 DEF DestroyMark, States
  <2> QED BY <2>1, <2>2, <2>3
<1> QED BY <1>1, <1>2, <1>3, <1>4, <1>5, <1>6, <1>7, <1>8, <1>9 DEF Step

LEMMA NoOneKeeps ==
  ASSUME NEW l \in {"idle", "next"}, one' = NoOne(l)
  PROVE  OneInv'
BY BoundAssumption DEF NoOne, OneInv, OneLocals, OneType, States, TimerOrNone

LEMMA BatchKeeps ==
  ASSUME IInv, Batch
  PROVE  IInv'
<1> USE DEF IInv, TimerInv, ListsOK, OneInv, OneLocals, RunInv, RunLocals, MiscInv,
            RunVars, ActiveVars, ListVars
<1>1. CallInv' /\ LockInv' /\ MiscInv' /\ RunInv' /\ expire' = expire
  <2>1. UNCHANGED <<call, ops, expire, RunVars, LockVars>>
    BY DEF Batch, BatchNext, BatchEnd, ScheduleOneRead, ScheduleOneCas, ScheduleOneRetry,
           ScheduleOneLink
  <2>2. LockInv'  BY <2>1, OtherKeeps DEF Entered
  <2> QED BY <2>1, <2>2 DEF CallInv
<1>2. "STOPPED" \in States  BY DEF States
<1>3. CASE BatchNext
  <2>1. Head(batch) \in Timers /\ batch' \in Seq(Timers)
    BY <1>3, HeadTailProperties DEF BatchNext
  <2>2. one' \in OneType /\ OneLocals'
    BY <1>2, <1>3, <2>1, BoundAssumption DEF BatchNext, OneType, TimerOrNone
  <2> QED BY <1>1, <1>3, <2>1, <2>2 DEF BatchNext
<1>4. CASE BatchEnd
  <2>1. OneInv'  BY <1>2, <1>4 DEF BatchEnd, OneType, NoOne, TimerOrNone
  <2> QED BY <1>1, <1>4, <2>1 DEF BatchEnd
<1>5. CASE ScheduleOneRead
  <2>1. one.timer \in Timers /\ state[one.timer] \in States  BY <1>5 DEF ScheduleOneRead
  <2>2. OneInv'
    <3>1. CASE one' = NoOne("next")  BY <3>1, NoOneKeeps
    <3>2. CASE state[one.timer] \in Pending \ SetExpire
               /\ one' = [one EXCEPT !.pc = "cas", !.old = state[one.timer]]
      BY <2>1, <3>2 DEF OneType
    <3> QED BY <1>5, <3>1, <3>2 DEF ScheduleOneRead
  <2>3. schedule' \in Seq(Timers)
    <3>1. CASE LinkSchedule(one.timer)  BY <2>1, <3>1, Push DEF LinkSchedule
    <3>2. CASE UNCHANGED schedule  BY <3>2
    <3> QED BY <1>5, <3>1, <3>2 DEF ScheduleOneRead
  <2> QED BY <1>1, <1>5, <2>2, <2>3 DEF ScheduleOneRead
<1>6. CASE ScheduleOneCas
  <2>1. one.timer \in Timers /\ one.old \in Pending \ SetExpire  BY <1>6 DEF ScheduleOneCas
  <2>2. Scheduled(one.old) \in States
        /\ (one.old \in {"PENDING_RESCHEDULE", "PENDING_STOP"} =>
              Scheduled(one.old) \in Pending \ SetExpire)
    BY <2>1 DEF Scheduled, States, Pending, PendingScheduling, PendingStop, SetExpire
  <2>3. active' \in Seq(Timers) /\ queueExpire' \in Nat \cup {Never}
    <3>1. CASE UnlinkActive(one.timer)
      BY <3>1, NextOfType, UnlinkType, IInvType DEF UnlinkActive
    <3>2. CASE UNCHANGED ActiveVars  BY <3>2
    <3> QED BY <1>6, <3>1, <3>2 DEF ScheduleOneCas
  <2>4. OneInv'
    <3>1. CASE one' = NoOne("next")  BY <3>1, NoOneKeeps
    <3>2. CASE one.old \in {"PENDING_RESCHEDULE", "PENDING_STOP"}
               /\ one' = [one EXCEPT !.old = Scheduled(one.old)]
      BY <2>1, <2>2, <3>2 DEF OneType
    <3>3. CASE one' = [one EXCEPT !.pc = "link"]  BY <2>1, <3>3 DEF OneType
    <3> QED BY <1>6, <3>1, <3>2, <3>3 DEF ScheduleOneCas
  <2>5. state' \in [Timers -> States]  BY <1>6, <2>2 DEF ScheduleOneCas
  <2> QED BY <1>1, <1>6, <2>3, <2>4, <2>5 DEF ScheduleOneCas
<1>7. CASE ScheduleOneRetry
  <2>1. OneInv'
    <3>1. CASE one' = NoOne("next")  BY <3>1, NoOneKeeps
    <3>2. CASE one.tries > 0 /\ one' = [one EXCEPT !.pc = "read", !.tries = one.tries - 1]
      <4>1. one.timer \in Timers /\ one.tries - 1 \in Nat
        BY <1>7, <3>2 DEF ScheduleOneRetry, OneType
      <4> QED BY <3>2, <4>1 DEF OneType
    <3> QED BY <1>7, <3>1, <3>2 DEF ScheduleOneRetry, MoreTries
  <2> QED BY <1>1, <1>7, <2>1 DEF ScheduleOneRetry
<1>8. CASE ScheduleOneLink
  <2>1. one.timer \in Timers /\ expire[one.timer] \in Nat  BY <1>8 DEF ScheduleOneLink
  <2>2. active' \in Seq(Timers) /\ queueExpire' \in Nat \cup {Never}
    BY <1>8, <2>1, LinkActiveType, IInvType DEF ScheduleOneLink
  <2>3. OneInv'  BY <1>2, <1>8 DEF ScheduleOneLink, OneType, NoOne, TimerOrNone
  <2> QED BY <1>1, <1>8, <2>2, <2>3 DEF ScheduleOneLink
<1> QED BY <1>3, <1>4, <1>5, <1>6, <1>7, <1>8 DEF Batch

(* A step of the runner keeps the balance of the TM lock: it enters it once, in
   QueuesLock, and leaves it in QueuesDone. *)
LEMMA RunnerKeepsLock ==
  ASSUME IInv, Runner
  PROVE  LockInv'
<1> USE DEF IInv, RunInv, RunLocals
<1>1. call' = call /\ TimerEmt \in Threads
  BY EmtAssumption DEF Runner, QueuesDo, QueuesLock, QueuesSchedule, QueueRunHead, QueueRunCheck,
     QueueRunEnter, QueueRunTry, QueueRunUnlink, QueueRunCallbackDone, QueuesDone
<1>2. \A u \in Threads \ {TimerEmt} : Entered(u)' = Entered(u)  BY <1>1 DEF Entered
<1>3. Depth(call[TimerEmt].pc, call[TimerEmt].own) \in Nat  BY DEF Depth
<1>4. CASE QueuesLock
  <2>1. run.pc = "lock" /\ run'.pc = "schedule" /\ Lock(TimerEmt)
    BY <1>4 DEF QueuesLock, RunType
  <2>2. Entered(TimerEmt)' = Entered(TimerEmt) + 1  BY <1>1, <1>3, <2>1 DEF Entered
  <2> QED BY <1>1, <1>2, <2>1, <2>2, LockKeeps
<1>5. CASE QueuesDone
  <2>1. run.pc = "done" /\ run'.pc = "idle" /\ Unlock
    BY <1>5 DEF QueuesDone, RunType
  <2>2. Entered(TimerEmt)' = Entered(TimerEmt) - 1 /\ Entered(TimerEmt)' \in Nat
    BY <1>1, <1>3, <2>1 DEF Entered
  <2> QED BY <1>1, <1>2, <2>1, <2>2, UnlockKeeps
<1>6. CASE \/ QueuesDo \/ QueuesSchedule \/ QueueRunHead \/ QueueRunCheck \/ QueueRunEnter
           \/ QueueRunTry \/ QueueRunUnlink \/ QueueRunCallbackDone
  <2>1. UNCHANGED LockVars
        /\ (run.pc \in {"idle", "lock"} <=> run'.pc \in {"idle", "lock"})
    <3>1. CASE QueuesDo \/ QueuesSchedule \/ QueueRunHead
      BY <3>1 DEF QueuesDo, QueuesSchedule, QueueRunHead, LockVars, RunType
    <3>2. CASE QueueRunCheck \/ QueueRunEnter
      <4>1. CASE run'.pc = "crit"  BY <3>2, <4>1 DEF QueueRunCheck, QueueRunEnter, LockVars
      <4>2. CASE run'.pc = "done"  BY <3>2, <4>2 DEF QueueRunCheck, QueueRunEnter, LockVars
      <4>3. CASE run'.pc = "try"  BY <3>2, <4>3 DEF QueueRunCheck, QueueRunEnter, LockVars
      <4>4. QueueRunCheck => run'.pc \in {"crit", "done"}
        BY DEF QueueRunCheck, RunType, NoRun
      <4>5. QueueRunEnter => run'.pc = "try"  BY DEF QueueRunEnter, RunType
      <4> QED BY <3>2, <4>1, <4>2, <4>3, <4>4, <4>5
    <3>3. CASE QueueRunTry \/ QueueRunUnlink \/ QueueRunCallbackDone
      BY <3>3 DEF QueueRunTry, QueueRunUnlink, QueueRunCallbackDone, LockVars, RunType
    <3> QED BY <1>6, <3>1, <3>2, <3>3
  <2>2. Entered(TimerEmt)' = Entered(TimerEmt)  BY <1>1, <2>1 DEF Entered
  <2>3. \A u \in Threads : Entered(u)' = Entered(u)  BY <1>2, <2>2
  <2> QED BY <2>1, <2>3, OtherKeeps
<1> QED BY <1>4, <1>5, <1>6 DEF Runner

LEMMA RunnerKeepsRest ==
  ASSUME IInv, Runner
  PROVE  RestInv' /\ CallInv'
<1> USE DEF IInv, RestInv, TimerInv, ListsOK, OneInv, OneLocals, RunInv, RunLocals, MiscInv,
            CallInv, RunType, ActiveVars, ListVars
<1>1. CASE QueuesDo \/ QueuesLock \/ QueueRunEnter \/ QueuesDone
  BY <1>1 DEF QueuesDo, QueuesLock, QueueRunEnter, QueuesDone
<1>2. CASE QueuesSchedule
  <2>1. /\ schedule' \in Seq(Timers) /\ batch' \in Seq(Timers) /\ abandoned' \subseteq Timers
        /\ OneInv'
    <3>1. CASE TakeBatch  BY <3>1, TakeBatchType
    <3>2. CASE UNCHANGED ListVars  BY <3>2
    <3> QED BY <1>2, <3>1, <3>2 DEF QueuesSchedule
  <2>2. run' = [run EXCEPT !.pc = "head"]  BY <1>2 DEF QueuesSchedule
  <2>3. RunInv'  BY <2>2
  <2> QED BY <1>2, <2>1, <2>3 DEF QueuesSchedule
<1>3. CASE QueueRunHead
  <2>1. active # <<>> => Head(active) \in Timers  BY HeadTailProperties
  <2> QED BY <1>3, <2>1 DEF QueueRunHead, TimerOrNone
<1>4. CASE QueueRunCheck
  <2>1. NextOf(run.next) \in TimerOrNone  BY NextOfType, IInvType
  <2>2. Due(run.next) => run.next \in Timers  BY DEF Due, TimerOrNone
  <2>3. NoRun("done") \in RunType  BY DEF NoRun, TimerOrNone
  <2>4. RunInv'  BY <1>4, <2>1, <2>2, <2>3 DEF QueueRunCheck, NoRun
  <2> QED BY <1>4, <2>4 DEF QueueRunCheck
<1>5. CASE QueueRunTry
  <2>0. state \in [Timers -> States] /\ "EXPIRED_GET_UNLINK" \in States  BY DEF States
  <2>1. state' \in [Timers -> States]
    <3> HIDE DEF IInv, RestInv, TimerInv, ListsOK, OneInv, OneLocals, RunInv, RunLocals, MiscInv,
                 CallInv, RunType, ActiveVars, ListVars
    <3> QED BY <1>5, <2>0 DEF QueueRunTry
  <2>2. CASE run' = [run EXCEPT !.pc = "unlink"]
    <3>1. RunInv'  BY <1>5, <2>2 DEF QueueRunTry
    <3> QED BY <1>5, <2>1, <3>1 DEF QueueRunTry
  <2>3. CASE run' = [run EXCEPT !.pc = "check", !.timer = NoTimer]
    <3>1. RunInv'  BY <2>3 DEF TimerOrNone
    <3> QED BY <1>5, <2>1, <3>1 DEF QueueRunTry
  <2> QED BY <1>5, <2>2, <2>3 DEF QueueRunTry
<1>6. CASE QueueRunUnlink
  <2>1. run.timer \in Timers /\ run.next \in TimerOrNone  BY <1>6 DEF QueueRunUnlink
  <2>2. active' \in Seq(Timers) /\ queueExpire' \in Nat \cup {Never}
    BY <1>6, <2>1, UnlinkType, IInvType DEF QueueRunUnlink
  <2>3. state' \in [Timers -> States]  BY <1>6 DEF QueueRunUnlink, Deliver, States
  <2> QED BY <1>6, <2>1, <2>2, <2>3 DEF QueueRunUnlink
<1>7. CASE QueueRunCallbackDone
  <2>1. AfterCallback(state[run.timer]) \in States
    BY <1>7 DEF QueueRunCallbackDone, AfterCallback, States
  <2> QED BY <1>7, <2>1 DEF QueueRunCallbackDone, TimerOrNone
<1> QED BY <1>1, <1>2, <1>3, <1>4, <1>5, <1>6, <1>7 DEF Runner

-----------------------------------------------------------------------------
LEMMA InitIInv == Init => IInv
<1> SUFFICES ASSUME Init PROVE IInv  OBVIOUS
<1> USE DEF Init
<1>1. TimerInv /\ MiscInv  BY DEF TimerInv, MiscInv, States
<1>2. ListsOK  BY EmptySeq DEF ListsOK
<1>3. OneInv /\ RunInv
  BY DEF OneInv, OneType, OneLocals, NoOne, RunInv, RunType, RunLocals, NoRun, States, TimerOrNone
<1>4. CallInv
  BY DEF CallInv, CallLocals, CallType, Idle, CallPcs, States, TimerOrNone, Unowned
<1>5. LockInv
  BY NoneAssumption DEF LockInv, LockBalanced, Entered, Depth, Idle, NoRun
<1> QED BY <1>1, <1>2, <1>3, <1>4, <1>5 DEF IInv

LEMMA NextIInv == IInv /\ [Next]_vars => IInv'
<1> SUFFICES ASSUME IInv, [Next]_vars PROVE IInv'  OBVIOUS
<1> USE DEF RestInv
<1>1. ASSUME NEW th \in Threads, Begin(th) PROVE IInv'
  BY <1>1, BeginKeepsCalls, BeginKeepsRest DEF IInv
<1>2. ASSUME NEW th \in Threads, Step(th) PROVE IInv'
  BY <1>2, StepKeepsCalls, StepKeepsRest DEF IInv
<1>3. CASE Batch  BY <1>3, BatchKeeps
<1>4. CASE Runner  BY <1>4, RunnerKeepsLock, RunnerKeepsRest DEF IInv
<1>5. CASE TimerCallback \/ Tick \/ UNCHANGED vars
  <2>1. UNCHANGED <<state, expire, call, one, run, LockVars, ActiveVars, ListVars>>
        /\ ff' \in BOOLEAN /\ running' \in BOOLEAN /\ now' \in Nat /\ ops' \in Nat
    <3> USE DEF IInv, MiscInv, LockVars, ActiveVars, ListVars
    <3>1. CASE TimerCallback  BY <3>1 DEF TimerCallback
    <3>2. CASE Tick  BY <3>2 DEF Tick
    <3>3. CASE UNCHANGED vars  BY <3>3 DEF vars
    <3> QED BY <1>5, <3>1, <3>2, <3>3
  <2>2. LockInv'  BY <2>1, OtherKeeps DEF IInv, Entered
  <2> QED BY <2>1, <2>2
      DEF IInv, TimerInv, ListsOK, OneInv, OneLocals, RunInv, RunLocals, CallInv, MiscInv,
          ActiveVars, ListVars
<1> QED BY <1>1, <1>2, <1>3, <1>4, <1>5 DEF Next

(* The inductive invariant holds in every reachable state. *)
THEOREM Inductive == Spec => []IInv
BY InitIInv, NextIInv, PTL DEF Spec

(* Whatever the timers, threads and bounds, the variables of the queue keep
   their types: in particular every timer on a list is a timer of the queue and
   the lock is never left more often than it was entered. *)
THEOREM TypeCorrect == Spec => []TypeOK
BY Inductive, IInvType, PTL

(* Whatever the number of threads, the TM lock is balanced along every path
   through the API, the scheduling and the running of the queue. *)
THEOREM LockIsBalanced == Spec => []LockBalanced
<1>1. IInv => LockBalanced  BY DEF IInv, LockInv
<1> QED BY <1>1, Inductive, PTL
=============================================================================
