------------------------ MODULE VMMRendezvousProofs ------------------------
(***************************************************************************)
(* Theorems about VMMRendezvous, for every number of virtual CPUs.         *)
(*                                                                         *)
(* A rendezvous goes through stages: the call, the coming of the EMTs, the *)
(* callbacks and the leaving.  The stage says at which places of the code  *)
(* the EMTs are, and the counters tell when all of them have passed one.   *)
(***************************************************************************)
EXTENDS VMMRendezvous, FiniteSetTheorems, TLAPS

-----------------------------------------------------------------------------
(* The inductive invariant. *)

Outside == {"idle", "spin", "leave"}

\* The EMT has the lock: it is about to call, or it is the caller.
Holds(c) == \/ emt[c].pc \in {"slate", "raise"}
            \/ emt[c].caller /\ emt[c].pc \in {"enter"} \cup Entered

LockOK ==
  /\ \A c \in Cpus : Holds(c) <=> lock = c
  /\ armed <=> lock # NoCpu /\ ~At(lock, "slate")

\* The result rc leaves the status st as it is.
NotToMerge(rc, st) == rc = st \/ Failed(st) \/ (st # 0 /\ rc > st)

LocalOK(c) ==
  /\ fIn[c] <=> emt[c].pc \notin {"idle", "spin", "slate"}
  /\ At(c, "spin") => emt[c].want # NoFlags
  /\ emt[c].pc \in {"slate", "raise", "enter"} \cup Entered => emt[c].fl \in Requests
  /\ emt[c].pc \in {"raise", "enter"} \cup Entered => emt[c].fl = flags
  /\ At(c, "merge") \/ At(c, "cas") => emt[c].rc # 0
  /\ At(c, "cas") => ~NotToMerge(emt[c].rc, emt[c].old)
  /\ At(c, "return") => emt[c].rc = IF Failed(status) THEN 0 ELSE status

LocalsOK == \A c \in Cpus : LocalOK(c)

\* The stages.
Calling == armed /\ At(lock, "raise")
Coming == armed /\ ff
Running == armed /\ ~ff /\ ~Calling /\ ~evtDone
Leaving == armed /\ ~ff /\ ~Calling /\ evtDone

NoSignals == ~enterOne /\ \A c \in Cpus : ~enterOrd[c]
Fresh == cDone = 0 /\ cReturned = 0 /\ NoSignals /\ ~enterAll /\ ~evtDone /\ ~evtCaller

StagesOK ==
  /\ ~armed => ~ff
  /\ Calling => ~ff /\ Fresh /\ cEntered = 0
  /\ Coming => Fresh
  /\ Running \/ Leaving => cEntered = cCpus
  /\ Leaving => NoSignals

\* Where an EMT waits for the end of the callbacks.
EndOf(c) == IF emt[c].caller THEN "waitCaller" ELSE "waitDone"

\* Where the EMTs may be in each stage.
PlacesOK == \A c \in Cpus :
  /\ ~armed => emt[c].pc \in Outside \cup {"slate"}
  /\ Calling => emt[c].pc \in Outside \cup {"raise"}
  /\ Coming => \/ emt[c].pc \in Outside \cup {"enter", "last"}
               \/ emt[c].pc \in Entered /\ emt[c].pc = WaitFor(c)
  /\ Running => /\ emt[c].pc \in Entered
                /\ emt[c].pc \in Turning \cup {EndOf(c)} \/ emt[c].pc = WaitFor(c)
  /\ Leaving => emt[c].pc \in Outside \cup {EndOf(c)}
                              \cup IF emt[c].caller THEN {"cleanup"} ELSE {"read", "return"}

Finished == {c \in Cpus : emt[c].pc \in {"waitDone", "waitCaller"}}

\* What the counters count, and what follows from their having counted everybody.
CountsOK ==
  /\ armed => cEntered = Cardinality(Inside) + cReturned
  /\ Coming => (cEntered = cCpus <=> \E c \in Cpus : At(c, "last"))
  /\ \A c, d \in Cpus : At(c, "last") /\ At(d, "last") => c = d
  /\ Running => /\ cReturned = 0 /\ ~evtCaller /\ cDone < cCpus
                /\ cDone = IF flags.type = "ONCE" THEN 0 ELSE Cardinality(Finished)
  /\ Leaving => /\ flags.type # "ONCE" => cDone = cCpus
                /\ evtCaller \/ At(lock, "cleanup") => cReturned = cCpus - 1

\* How many CPUs come before c in an ordered rendezvous.
Rank(c) == IF flags.type = "ASCENDING" THEN c ELSE cCpus - 1 - c

\* At most one EMT at a time has the turn, in the order of the CPUs if there is one.
TurnsOK == Running =>
  /\ flags.type # "ALL_AT_ONCE" =>
       \A c, d \in Cpus : emt[c].pc \in Turning /\ emt[d].pc \in Turning => c = d
  /\ flags.type = "ONE_BY_ONE" => (enterOne <=> \A c \in Cpus : emt[c].pc \notin Turning)
  /\ flags.type # "ONE_BY_ONE" => ~enterOne
  /\ flags.type \notin Ordered => \A c \in Cpus : ~enterOrd[c]
  /\ flags.type \in Ordered => \A c \in Cpus :
       /\ Rank(c) < cDone => emt[c].pc = EndOf(c) /\ ~enterOrd[c]
       /\ Rank(c) = cDone => \/ emt[c].pc \in Turning /\ ~enterOrd[c]
                             \/ At(c, "waitOrd") /\ enterOrd[c]
       /\ Rank(c) > cDone => At(c, "waitOrd") /\ ~enterOrd[c]

IInv == TypeOK /\ LockOK /\ LocalsOK /\ StagesOK /\ PlacesOK /\ CountsOK /\ TurnsOK

-----------------------------------------------------------------------------
(* The constants and the counting. *)

LEMMA CpuFacts ==
  /\ cCpus \in Nat /\ cCpus > 1
  /\ \A c \in Cpus : c \in Int /\ 0 <= c /\ c < cCpus /\ c # NoCpu
  /\ IsFiniteSet(Cpus) /\ Cardinality(Cpus) = cCpus
<1>1. cCpus \in Nat /\ cCpus > 1  BY CpusAssumption
<1>2. IsFiniteSet(0 .. cCpus - 1) /\ Cardinality(0 .. cCpus - 1) = cCpus
  BY <1>1, FS_Interval
<1> QED BY <1>1, <1>2 DEF Cpus, NoCpu

LEMMA RequestFacts ==
  ASSUME NEW fl \in Requests
  PROVE  /\ fl.type \in AllTypes /\ fl.type # "NONE" /\ fl # NoFlags
         /\ fl.stop => fl.type \in Ordered \cup {"ONE_BY_ONE"}
BY RequestsAssumption DEF Flags, AllTypes, NoFlags, Ordered

LEMMA ResultFacts == 0 \in Results /\ \A rc \in Results : rc \in Int
BY ResultsAssumption

LEMMA CountOf ==
  ASSUME NEW S \in SUBSET Cpus
  PROVE  /\ IsFiniteSet(S) /\ Cardinality(S) \in Nat /\ Cardinality(S) <= cCpus
         /\ Cardinality(S) = cCpus <=> S = Cpus
         /\ Cardinality(S) = 0 <=> S = {}
<1>1. IsFiniteSet(S) /\ Cardinality(S) <= cCpus /\ (cCpus = Cardinality(S) => S = Cpus)
  BY CpuFacts, FS_Subset
<1> QED BY <1>1, CpuFacts, FS_CardinalityType, FS_EmptySet

LEMMA CountMore ==
  ASSUME NEW S \in SUBSET Cpus, NEW c \in Cpus, c \notin S
  PROVE  Cardinality(S \cup {c}) = Cardinality(S) + 1 /\ Cardinality(S) < cCpus
<1>1. IsFiniteSet(S) /\ Cardinality(S) \in Nat  BY CountOf
<1>2. Cardinality(S \cup {c}) = Cardinality(S) + 1  BY <1>1, FS_AddElement
<1>3. Cardinality(S \cup {c}) <= cCpus  BY CountOf
<1> QED BY <1>1, <1>2, <1>3, CpuFacts

LEMMA CountLess ==
  ASSUME NEW S \in SUBSET Cpus, NEW c \in S
  PROVE  Cardinality(S \ {c}) = Cardinality(S) - 1 /\ Cardinality(S) > 0
<1>1. IsFiniteSet(S) /\ Cardinality(S) \in Nat /\ Cardinality(S) # 0  BY CountOf
<1>2. Cardinality(S \ {c}) = Cardinality(S) - 1  BY <1>1, FS_RemoveElement
<1> QED BY <1>1, <1>2

LEMMA CountOne ==
  ASSUME NEW S \in SUBSET Cpus, NEW c \in S, \A d \in S : d = c
  PROVE  Cardinality(S) = 1
<1>1. S = {c}  OBVIOUS
<1> QED BY <1>1, FS_Singleton

LEMMA InsideFacts ==
  /\ Inside \in SUBSET Cpus /\ Finished \in SUBSET Cpus
  /\ Inside' \in SUBSET Cpus /\ Finished' \in SUBSET Cpus
BY DEF Inside, Finished

-----------------------------------------------------------------------------
(* The steps. *)

LEMMA Waits ==
  ASSUME IInv, NEW c \in Cpus, emt[c].fl \in Requests
  PROVE  WaitFor(c) = IF emt[c].fl.type = "ONE_BY_ONE" THEN "waitOne"
                      ELSE IF emt[c].fl.type = "ALL_AT_ONCE" THEN "waitAll"
                      ELSE IF emt[c].fl.type = "ONCE" THEN EndOf(c) ELSE "waitOrd"
BY RequestFacts DEF WaitFor, AllTypes, Ordered, EndOf

\* The place of an EMT tells the stage.
LEMMA StageOf ==
  ASSUME IInv, NEW c \in Cpus
  PROVE  /\ emt[c].pc \in Turning => Running
         /\ emt[c].pc \in {"enter", "last"} => Coming
         /\ emt[c].pc \in {"cleanup", "read", "return"} => Leaving
         /\ emt[c].pc \in {"waitOne", "waitAll", "waitOrd"} => Coming \/ Running
         /\ emt[c].pc \in {"waitDone", "waitCaller"} => Coming \/ Running \/ Leaving
         /\ emt[c].pc = "slate" => ~armed /\ ~ff /\ lock = c
         /\ emt[c].pc = "raise" => Calling /\ lock = c
         /\ emt[c].pc \in {"raise", "enter"} \cup Entered
              => emt[c].fl \in Requests /\ emt[c].fl = flags
<1>1. /\ emt[c].pc \in {"raise", "enter"} \cup Entered
            => emt[c].fl \in Requests /\ emt[c].fl = flags
      /\ emt[c].pc = "slate" => lock = c
      /\ emt[c].pc = "raise" => lock = c
      /\ armed <=> lock # NoCpu /\ ~At(lock, "slate")
      /\ ~armed => ~ff
      /\ Calling => ~ff
  BY DEF IInv, LocalsOK, LocalOK, LockOK, Holds, StagesOK
<1>2. ~armed \/ Calling \/ Coming \/ Running \/ Leaving
  BY DEF Calling, Coming, Running, Leaving
<1>3. /\ ~armed => emt[c].pc \in Outside \cup {"slate"}
      /\ Calling => emt[c].pc \in Outside \cup {"raise"}
      /\ Coming => emt[c].pc \in Outside \cup {"enter", "last"} \/ emt[c].pc = WaitFor(c)
      /\ Running => emt[c].pc \in Turning \cup {EndOf(c)} \/ emt[c].pc = WaitFor(c)
      /\ Leaving => emt[c].pc \in Outside \cup {EndOf(c)}
                              \cup IF emt[c].caller THEN {"cleanup"} ELSE {"read", "return"}
  BY DEF IInv, PlacesOK
<1>4. emt[c].fl \in Requests =>
        WaitFor(c) \in {"waitOne", "waitAll", "waitOrd", "waitDone", "waitCaller"}
  BY Waits DEF EndOf
<1>5. EndOf(c) \in {"waitDone", "waitCaller"}  BY DEF EndOf
<1>6. emt[c].pc \in {"slate", "raise", "enter"} \cup Entered => emt[c].fl \in Requests
  BY DEF IInv, LocalsOK, LocalOK
<1>7. emt[c].pc = "slate" => ~armed
  BY <1>1, <1>2, <1>3, <1>4, <1>5, <1>6 DEF At
<1>8. emt[c].pc = "raise" => Calling
  BY <1>1, <1>2, <1>3, <1>4, <1>5, <1>6 DEF Outside, Turning
<1>9. ASSUME emt[c].pc \in Entered \cup {"enter"}
      PROVE  /\ emt[c].pc \in Turning => Running
             /\ emt[c].pc \in {"enter", "last"} => Coming
             /\ emt[c].pc \in {"cleanup", "read", "return"} => Leaving
             /\ emt[c].pc \in {"waitOne", "waitAll", "waitOrd"} => Coming \/ Running
             /\ emt[c].pc \in {"waitDone", "waitCaller"} => Coming \/ Running \/ Leaving
  <2>1. WaitFor(c) \in {"waitOne", "waitAll", "waitOrd", "waitDone", "waitCaller"}
    BY <1>4, <1>6, <1>9
  <2> QED BY <1>2, <1>3, <1>5, <1>9, <2>1 DEF Outside, Turning, Entered
<1> QED BY <1>1, <1>7, <1>8, <1>9 DEF Entered, Turning

\* A step from turn to turn: nothing changes but where the EMT is, and the status.
LEMMA TurningStep ==
  ASSUME IInv, NEW c \in Cpus, NEW r \in EmtType,
         emt' = [emt EXCEPT ![c] = r],
         emt[c].pc \in Turning, r.pc \in Turning,
         r.caller = emt[c].caller, r.fl = emt[c].fl, r.want = emt[c].want,
         r.pc = "merge" \/ r.pc = "cas" => r.rc # 0,
         r.pc = "cas" => ~NotToMerge(r.rc, r.old),
         status' \in Results,
         UNCHANGED <<Shared, ff, Counters, Events, fIn, told, calls>>
  PROVE  IInv'
<1>1. /\ emt'[c] = r /\ \A d \in Cpus \ {c} : emt'[d] = emt[d]
      /\ emt' \in [Cpus -> EmtType]
  BY DEF IInv, TypeOK
<1>2. /\ lock' = lock /\ armed' = armed /\ flags' = flags /\ ff' = ff /\ fIn' = fIn
      /\ cEntered' = cEntered /\ cDone' = cDone /\ cReturned' = cReturned
      /\ enterOne' = enterOne /\ enterAll' = enterAll /\ enterOrd' = enterOrd
      /\ evtDone' = evtDone /\ evtCaller' = evtCaller /\ calls' = calls /\ told' = told
  BY DEF Shared, Counters, Events
<1>3. Running /\ emt[c].fl \in Requests /\ emt[c].fl = flags
  BY StageOf DEF Turning, Entered
<1>4. \A d \in Cpus : /\ emt'[d].caller = emt[d].caller /\ emt'[d].fl = emt[d].fl
                      /\ emt'[d].pc \in Turning <=> emt[d].pc \in Turning
                      /\ emt[d].pc \notin Turning => emt'[d] = emt[d]
  BY <1>1
<1>5. TypeOK'  BY <1>1, <1>2 DEF IInv, TypeOK
<1>6. LockOK'
  <2>1. \A d \in Cpus : Holds(d)' <=> Holds(d)
    BY <1>1, <1>4 DEF Holds, Turning, Entered
  <2>2. lock' # NoCpu => (At(lock, "slate")' <=> At(lock, "slate"))
    BY <1>1, <1>2 DEF At, Turning, IInv, TypeOK
  <2> QED BY <1>2, <2>1, <2>2 DEF IInv, LockOK
<1>7. (Calling' <=> Calling) /\ (Coming' <=> Coming) /\ (Leaving' <=> Leaving)
       /\ (Running' <=> Running) /\ Running'
  BY <1>2, <1>3, <1>1 DEF Calling, Coming, Running, Leaving, At, Turning, IInv, TypeOK, LockOK
<1>8. LocalsOK'
  <2>1. \A d \in Cpus : ~At(d, "return")
    BY <1>3, StageOf DEF Running, Leaving, At
  <2> QED BY <1>1, <1>2, <1>3, <2>1 DEF IInv, LocalsOK, LocalOK, At, Turning, Entered
<1>9. StagesOK'  BY <1>2, <1>7 DEF IInv, StagesOK, Fresh, NoSignals
<1>10. PlacesOK'
  <2>1. armed /\ ~Calling /\ ~Coming /\ ~Leaving
    BY <1>3 DEF Running, Calling, Coming, Leaving
  <2>2. \A d \in Cpus : WaitFor(d)' = WaitFor(d) /\ EndOf(d)' = EndOf(d)
    BY <1>4 DEF WaitFor, EndOf
  <2>3. \A d \in Cpus : /\ emt[d].pc \in Entered
                        /\ emt[d].pc \in Turning \cup {EndOf(d)} \/ emt[d].pc = WaitFor(d)
    BY <1>3 DEF IInv, PlacesOK
  <2>4. \A d \in Cpus : /\ emt'[d].pc \in Entered
                        /\ emt'[d].pc \in Turning \cup {EndOf(d)} \/ emt'[d].pc = WaitFor(d)
    BY <1>1, <2>3 DEF Entered
  <2> QED BY <1>2, <1>7, <2>1, <2>2, <2>4 DEF PlacesOK
<1>11. CountsOK'
  <2>1. Inside' = Inside /\ Finished' = Finished
    BY <1>1 DEF Inside, Finished, Entered, Turning
  <2>2. \A d \in Cpus : At(d, "last")' <=> At(d, "last")
    BY <1>1 DEF At, Turning
  <2>3. ~Coming /\ ~Leaving  BY <1>3 DEF Running, Coming, Leaving
  <2> QED BY <1>2, <1>7, <2>1, <2>2, <2>3 DEF IInv, CountsOK
<1>12. TurnsOK'
  <2>1. \A d \in Cpus : /\ At(d, "waitOrd")' <=> At(d, "waitOrd")
                        /\ emt'[d].pc = EndOf(d)' <=> emt[d].pc = EndOf(d)
                        /\ Rank(d)' = Rank(d)
    BY <1>1, <1>2 DEF At, Turning, EndOf, Rank
  <2> QED BY <1>1, <1>2, <1>3, <1>4, <1>7, <2>1 DEF IInv, TurnsOK
<1> QED BY <1>5, <1>6, <1>8, <1>9, <1>10, <1>11, <1>12 DEF IInv

\* What a jump changes.
LEMMA Gone ==
  ASSUME TypeOK, NEW c \in Cpus, NEW l \in Pcs, Goto(c, l)
  PROVE  /\ emt' \in [Cpus -> EmtType]
         /\ emt'[c] = [emt[c] EXCEPT !.pc = l] /\ emt'[c] \in EmtType
         /\ emt'[c].pc = l /\ emt'[c].caller = emt[c].caller /\ emt'[c].fl = emt[c].fl
         /\ emt'[c].want = emt[c].want /\ emt'[c].rc = emt[c].rc /\ emt'[c].old = emt[c].old
         /\ \A d \in Cpus \ {c} : emt'[d] = emt[d]
<1>1. emt \in [Cpus -> EmtType]  BY DEF TypeOK
<1>2. emt'[c] = [emt[c] EXCEPT !.pc = l] /\ \A d \in Cpus \ {c} : emt'[d] = emt[d]
  BY <1>1 DEF Goto
<1>3. emt'[c] \in EmtType  BY <1>1, <1>2 DEF EmtType
<1> QED BY <1>1, <1>2, <1>3 DEF Goto, EmtType

LEMMA InitInv == Init => IInv
<1> SUFFICES ASSUME Init PROVE IInv  OBVIOUS
<1>1. /\ \A c \in Cpus : emt[c] = Home
      /\ emt = [c \in Cpus |-> Home] /\ lock = NoCpu /\ ~armed /\ ~ff
  BY DEF Init
<1>2. TypeOK
  <2>1. Home \in EmtType  BY ResultFacts DEF Home, EmtType, Pcs
  <2>2. emt \in [Cpus -> EmtType] /\ told \in [Cpus -> Results] /\ fIn \in [Cpus -> BOOLEAN]
        /\ enterOrd \in [Cpus -> BOOLEAN]
    BY <1>1, <2>1, ResultFacts DEF Init
  <2>3. 0 \in 0 .. cCpus /\ 0 \in 0 .. MaxCalls  BY CpuFacts, BoundAssumption
  <2> QED BY <1>1, <2>2, <2>3, ResultFacts DEF Init, TypeOK
<1>3. LockOK  BY <1>1, CpuFacts DEF LockOK, Holds, Home, Entered, Turning
<1>4. LocalsOK  BY <1>1 DEF Init, LocalsOK, LocalOK, Home, At, Entered, Turning
<1>5. StagesOK /\ PlacesOK
  BY <1>1 DEF StagesOK, PlacesOK, Calling, Coming, Running, Leaving, Outside, Home
<1>6. CountsOK /\ TurnsOK
  BY <1>1 DEF CountsOK, TurnsOK, Calling, Coming, Running, Leaving, Home, At
<1> QED BY <1>2, <1>3, <1>4, <1>5, <1>6 DEF IInv

\* An EMT that is not in the rendezvous goes on outside it.
LEMMA OutsideStep ==
  ASSUME IInv, NEW c \in Cpus, NEW r \in EmtType,
         emt' = [emt EXCEPT ![c] = r],
         emt[c].pc \in Outside, r.pc \in Outside,
         r.pc = "spin" => r.want # NoFlags,
         fIn' \in [Cpus -> BOOLEAN], fIn'[c] <=> r.pc = "leave",
         \A d \in Cpus \ {c} : fIn'[d] = fIn[d],
         calls' \in 0 .. MaxCalls,
         UNCHANGED <<Shared, ff, status, Counters, Events, told>>
  PROVE  IInv'
<1>1. /\ emt'[c] = r /\ \A d \in Cpus \ {c} : emt'[d] = emt[d]
      /\ emt' \in [Cpus -> EmtType]
  BY DEF IInv, TypeOK
<1>2. /\ lock' = lock /\ armed' = armed /\ flags' = flags /\ ff' = ff /\ status' = status
      /\ cEntered' = cEntered /\ cDone' = cDone /\ cReturned' = cReturned
      /\ enterOne' = enterOne /\ enterAll' = enterAll /\ enterOrd' = enterOrd
      /\ evtDone' = evtDone /\ evtCaller' = evtCaller /\ told' = told
  BY DEF Shared, Counters, Events
<1>3. lock # c /\ ~Running
  <2>1. ~Holds(c)  BY DEF Holds, Outside, Entered, Turning
  <2>2. Running => emt[c].pc \in Entered  BY DEF IInv, PlacesOK
  <2> QED BY <2>1, <2>2 DEF IInv, LockOK, Outside, Entered, Turning
<1>4. TypeOK'  BY <1>1, <1>2 DEF IInv, TypeOK
<1>5. LockOK'
  <2>1. \A d \in Cpus : Holds(d)' <=> Holds(d)
    BY <1>1 DEF Holds, Outside, Turning, Entered
  <2>2. lock' # NoCpu => (At(lock, "slate")' <=> At(lock, "slate"))
    BY <1>1, <1>2, <1>3 DEF At, IInv, TypeOK
  <2> QED BY <1>2, <2>1, <2>2 DEF IInv, LockOK
<1>6. (Calling' <=> Calling) /\ (Coming' <=> Coming) /\ (Leaving' <=> Leaving) /\ ~Running'
  <2>1. armed => (At(lock, "raise")' <=> At(lock, "raise"))
    BY <1>1, <1>2, <1>3, CpuFacts DEF At, IInv, TypeOK, LockOK
  <2> QED BY <1>2, <1>3, <2>1 DEF Calling, Coming, Running, Leaving
<1>7. LocalsOK'
  <2>1. \A d \in Cpus \ {c} : fIn'[d] = fIn[d] /\ emt'[d] = emt[d]  BY <1>1
  <2> QED BY <1>1, <1>2, <2>1 DEF IInv, LocalsOK, LocalOK, At, Outside, Turning, Entered
<1>8. StagesOK'  BY <1>2, <1>3, <1>6 DEF IInv, StagesOK, Fresh, NoSignals
<1>9. PlacesOK'
  <2>1. \A d \in Cpus \ {c} : WaitFor(d)' = WaitFor(d) /\ EndOf(d)' = EndOf(d)
    BY <1>1 DEF WaitFor, EndOf
  <2> QED BY <1>1, <1>2, <1>6, <2>1 DEF IInv, PlacesOK
<1>10. CountsOK'
  <2>1. Inside' = Inside  BY <1>1 DEF Inside, Outside, Entered, Turning
  <2>2. \A d \in Cpus : At(d, "last")' <=> At(d, "last")
    BY <1>1 DEF At, Outside
  <2>3. armed => (At(lock, "cleanup")' <=> At(lock, "cleanup"))
    BY <1>1, <1>2, <1>3, CpuFacts DEF At, IInv, TypeOK, LockOK
  <2> QED BY <1>2, <1>6, <2>1, <2>2, <2>3 DEF IInv, CountsOK, Leaving
<1>11. TurnsOK'  BY <1>6 DEF TurnsOK
<1> QED BY <1>4, <1>5, <1>7, <1>8, <1>9, <1>10, <1>11 DEF IInv

\* Nobody is in a rendezvous while the lock is free.
LEMMA LockIsTaken ==
  ASSUME IInv, NEW c \in Cpus, NEW fl \in Requests,
         emt[c].pc \in {"idle", "spin"}, lock = NoCpu, lock' = c,
         emt' = [emt EXCEPT ![c] = [Home EXCEPT !.pc = "slate", !.fl = fl]],
         calls' \in 0 .. MaxCalls,
         UNCHANGED <<ff, armed, flags, status, Counters, Events, fIn, told>>
  PROVE  IInv'
<1> DEFINE r == [Home EXCEPT !.pc = "slate", !.fl = fl]
<1>0. r \in EmtType /\ r.pc = "slate" /\ r.fl = fl /\ ~r.caller
  BY ResultFacts DEF Home, EmtType, Pcs
<1> HIDE DEF r
<1>1. /\ emt'[c] = r /\ \A d \in Cpus \ {c} : emt'[d] = emt[d]
      /\ emt' \in [Cpus -> EmtType]
  BY <1>0 DEF IInv, TypeOK, r
<1>2. /\ armed' = armed /\ flags' = flags /\ ff' = ff /\ status' = status /\ fIn' = fIn
      /\ cEntered' = cEntered /\ cDone' = cDone /\ cReturned' = cReturned
      /\ enterOne' = enterOne /\ enterAll' = enterAll /\ enterOrd' = enterOrd
      /\ evtDone' = evtDone /\ evtCaller' = evtCaller /\ told' = told
  BY DEF Counters, Events
<1>3. ~armed /\ ~ff /\ \A d \in Cpus : ~Holds(d)
  BY CpuFacts DEF IInv, LockOK, StagesOK
<1>4. \A d \in Cpus : emt[d].pc \in Outside
  BY <1>3 DEF IInv, PlacesOK, Holds
<1>5. ~Calling' /\ ~Coming' /\ ~Running' /\ ~Leaving'
  BY <1>2, <1>3 DEF Calling, Coming, Running, Leaving
<1>6. TypeOK'  BY <1>1, <1>2 DEF IInv, TypeOK
<1>7. LockOK'
  <2>1. \A d \in Cpus : Holds(d)' <=> d = c
    BY <1>0, <1>1, <1>3 DEF Holds
  <2> QED BY <1>0, <1>1, <1>2, <1>3, <2>1, CpuFacts DEF LockOK, At
<1>8. LocalsOK'
  BY <1>0, <1>1, <1>2 DEF IInv, LocalsOK, LocalOK, At, Turning, Entered
<1>9. StagesOK' /\ PlacesOK' /\ TurnsOK'
  BY <1>0, <1>1, <1>2, <1>3, <1>4, <1>5 DEF StagesOK, PlacesOK, TurnsOK
<1>10. CountsOK'
  BY <1>0, <1>1, <1>2, <1>3, <1>4, <1>5 DEF CountsOK, At, Outside
<1> QED BY <1>6, <1>7, <1>8, <1>9, <1>10 DEF IInv

LEMMA ClearSlateInv ==
  ASSUME IInv, NEW c \in Cpus, ClearSlate(c)
  PROVE  IInv'
<1>1. /\ emt' \in [Cpus -> EmtType] /\ emt'[c].pc = "raise" /\ emt'[c].fl = emt[c].fl
      /\ \A d \in Cpus \ {c} : emt'[d] = emt[d]
  BY Gone DEF ClearSlate, IInv, Pcs
<1>2. /\ lock' = lock /\ armed' = TRUE /\ flags' = emt[c].fl /\ ff' = ff /\ status' = 0
      /\ fIn' = [fIn EXCEPT ![c] = TRUE]
      /\ cEntered' = 0 /\ cDone' = 0 /\ cReturned' = 0
      /\ enterOne' = FALSE /\ enterAll' = FALSE /\ enterOrd' = [d \in Cpus |-> FALSE]
      /\ evtDone' = FALSE /\ evtCaller' = FALSE /\ calls' = calls /\ told' = told
  BY DEF ClearSlate, SlateCounters
<1>3. emt[c].pc = "slate" /\ ~armed /\ ~ff /\ lock = c /\ emt[c].fl \in Requests
  BY StageOf DEF ClearSlate, At, IInv, LocalsOK, LocalOK
<1>4. \A d \in Cpus \ {c} : emt[d].pc \in Outside
  BY <1>3, CpuFacts DEF IInv, LockOK, Holds, PlacesOK
<1>5. Calling' /\ ~Coming' /\ ~Running' /\ ~Leaving'
  BY <1>1, <1>2, <1>3 DEF Calling, Coming, Running, Leaving, At
<1>6. TypeOK'
  <2>1. fIn' \in [Cpus -> BOOLEAN] /\ enterOrd' \in [Cpus -> BOOLEAN]
    BY <1>2 DEF IInv, TypeOK
  <2>2. 0 \in 0 .. cCpus  BY CpuFacts
  <2> QED BY <1>1, <1>2, <1>3, <2>1, <2>2, ResultFacts DEF IInv, TypeOK
<1>7. LockOK'
  <2>1. \A d \in Cpus : Holds(d)' <=> d = c
    BY <1>1, <1>4 DEF Holds, Outside, Entered, Turning
  <2> QED BY <1>1, <1>2, <1>3, <2>1, CpuFacts DEF LockOK, At
<1>8. LocalsOK'
  <2>1. fIn'[c] /\ \A d \in Cpus \ {c} : fIn'[d] = fIn[d]  BY <1>2 DEF IInv, TypeOK
  <2>2. LocalOK(c)'  BY <1>1, <1>2, <1>3, <2>1 DEF LocalOK, At
  <2>3. ASSUME NEW d \in Cpus \ {c} PROVE LocalOK(d)'
    BY <1>1, <1>4, <2>1 DEF IInv, LocalsOK, LocalOK, At, Outside, Turning, Entered
  <2> QED BY <2>2, <2>3 DEF LocalsOK
<1>9. StagesOK'  BY <1>2, <1>3, <1>5 DEF StagesOK, Fresh, NoSignals
<1>10. PlacesOK'  BY <1>1, <1>2, <1>4, <1>5 DEF PlacesOK
<1>11. CountsOK'
  <2>1. Inside' = {}  BY <1>1, <1>4 DEF Inside, Outside, Entered, Turning
  <2> QED BY <1>1, <1>2, <1>4, <1>5, <2>1, FS_EmptySet DEF CountsOK, At, Outside
<1>12. TurnsOK'  BY <1>5 DEF TurnsOK
<1> QED BY <1>6, <1>7, <1>8, <1>9, <1>10, <1>11, <1>12 DEF IInv

\* The flag goes up, and the caller is the first on its way in.
LEMMA RaiseInv ==
  ASSUME IInv, NEW c \in Cpus, Raise(c)
  PROVE  IInv'
<1>1. /\ emt'[c] = [emt[c] EXCEPT !.pc = "enter", !.caller = TRUE]
      /\ \A d \in Cpus \ {c} : emt'[d] = emt[d]
      /\ emt' \in [Cpus -> EmtType]
  <2> DEFINE r == [emt[c] EXCEPT !.pc = "enter", !.caller = TRUE]
  <2>1. emt \in [Cpus -> EmtType]  BY DEF IInv, TypeOK
  <2>2. emt[c] \in EmtType  BY <2>1
  <2>3. r \in EmtType  BY <2>2 DEF EmtType, Pcs
  <2>4. emt' = [emt EXCEPT ![c] = r]  BY DEF Raise
  <2> HIDE DEF r
  <2>5. emt'[c] = r /\ (\A d \in Cpus \ {c} : emt'[d] = emt[d]) /\ emt' \in [Cpus -> EmtType]
    BY <2>1, <2>3, <2>4
  <2> QED BY <2>5 DEF r
<1>2. /\ lock' = lock /\ armed' = armed /\ flags' = flags /\ ff' /\ status' = status
      /\ fIn' = fIn /\ cEntered' = cEntered /\ cDone' = cDone /\ cReturned' = cReturned
      /\ enterOne' = enterOne /\ enterAll' = enterAll /\ enterOrd' = enterOrd
      /\ evtDone' = evtDone /\ evtCaller' = evtCaller /\ calls' = calls /\ told' = told
  BY DEF Raise, Shared, Counters, Events
<1>3. emt[c].pc = "raise" /\ Calling /\ armed /\ ~ff /\ lock = c
  BY StageOf DEF Raise, At, Calling, IInv, StagesOK
<1>4. \A d \in Cpus \ {c} : emt[d].pc \in Outside
  BY <1>3, CpuFacts DEF IInv, LockOK, Holds, PlacesOK
<1>5. ~Calling' /\ Coming' /\ ~Running' /\ ~Leaving'
  BY <1>1, <1>2, <1>3 DEF Calling, Coming, Running, Leaving, At, IInv, TypeOK, EmtType
<1>6. /\ emt'[c].pc = "enter" /\ emt'[c].caller /\ emt'[c].fl = emt[c].fl
  BY <1>1 DEF IInv, TypeOK, EmtType
<1>7. TypeOK'  BY <1>1, <1>2 DEF IInv, TypeOK
<1>8. LockOK'
  <2>1. \A d \in Cpus : Holds(d)' <=> d = c
    BY <1>1, <1>4, <1>6 DEF Holds, Outside, Entered, Turning
  <2> QED BY <1>2, <1>3, <1>6, <2>1, CpuFacts DEF LockOK, At
<1>9. LocalsOK'
  <2>1. emt[c].fl \in Requests /\ emt[c].fl = flags /\ fIn[c]
    BY <1>3 DEF IInv, LocalsOK, LocalOK
  <2>2. LocalOK(c)'  BY <1>2, <1>6, <2>1 DEF LocalOK, At
  <2>3. ASSUME NEW d \in Cpus \ {c} PROVE LocalOK(d)'
    BY <1>1, <1>2 DEF IInv, LocalsOK, LocalOK, At
  <2> QED BY <2>2, <2>3 DEF LocalsOK
<1>10. StagesOK'  BY <1>2, <1>3, <1>5 DEF IInv, StagesOK, Fresh, NoSignals
<1>11. PlacesOK'  BY <1>1, <1>2, <1>3, <1>4, <1>5, <1>6 DEF PlacesOK
<1>12. CountsOK'
  <2>1. \A d \in Cpus : emt'[d].pc \notin Entered
    BY <1>1, <1>4, <1>6 DEF Outside, Entered, Turning
  <2>2. Inside' = {}  BY <2>1 DEF Inside
  <2>3. cEntered' = 0 /\ cReturned' = 0  BY <1>2, <1>3 DEF IInv, StagesOK, Fresh
  <2>4. cEntered' = Cardinality(Inside') + cReturned'  BY <2>2, <2>3, FS_EmptySet
  <2>5. \A d \in Cpus : ~At(d, "last")'  BY <2>1 DEF At, Entered
  <2> QED BY <1>5, <2>3, <2>4, <2>5, CpuFacts DEF CountsOK
<1>13. TurnsOK'  BY <1>5 DEF TurnsOK
<1> QED BY <1>7, <1>8, <1>9, <1>10, <1>11, <1>12, <1>13 DEF IInv

LEMMA FFInv ==
  ASSUME IInv, NEW c \in Cpus, VMMR3EmtRendezvousFF(c)
  PROVE  IInv'
<1>0. armed /\ Coming /\ flags \in Requests \cup {NoFlags}
  BY DEF VMMR3EmtRendezvousFF, IInv, StagesOK, Coming, TypeOK
<1>1. /\ emt'[c] = [emt[c] EXCEPT !.pc = "enter", !.caller = FALSE, !.fl = flags]
      /\ \A d \in Cpus \ {c} : emt'[d] = emt[d]
      /\ emt' \in [Cpus -> EmtType]
  <2>1. emt \in [Cpus -> EmtType]  BY DEF IInv, TypeOK
  <2>2. /\ emt' = [emt EXCEPT ![c] = emt'[c]]
        /\ emt'[c] = [emt[c] EXCEPT !.pc = "enter", !.caller = FALSE, !.fl = flags]
        /\ \A d \in Cpus \ {c} : emt'[d] = emt[d]
    BY <2>1 DEF VMMR3EmtRendezvousFF
  <2>3. emt'[c] \in EmtType  BY <1>0, <2>1, <2>2 DEF EmtType, Pcs
  <2> QED BY <2>1, <2>2, <2>3
<1>2. /\ lock' = lock /\ armed' = armed /\ flags' = flags /\ ff' = ff /\ status' = status
      /\ fIn' = [fIn EXCEPT ![c] = TRUE]
      /\ cEntered' = cEntered /\ cDone' = cDone /\ cReturned' = cReturned
      /\ enterOne' = enterOne /\ enterAll' = enterAll /\ enterOrd' = enterOrd
      /\ evtDone' = evtDone /\ evtCaller' = evtCaller /\ calls' = calls /\ told' = told
  BY DEF VMMR3EmtRendezvousFF, Shared, Counters, Events
<1>3. emt[c].pc \in {"idle", "spin"}  BY DEF VMMR3EmtRendezvousFF
<1>4. lock \in Cpus /\ lock # c /\ ~At(lock, "slate") /\ ~At(lock, "raise") /\ Holds(lock)
  <2>1. ~Holds(c)  BY <1>3 DEF Holds, Entered, Turning
  <2>2. ~Calling /\ lock # NoCpu /\ ~At(lock, "slate")
    BY <1>0 DEF VMMR3EmtRendezvousFF, IInv, StagesOK, LockOK
  <2> QED BY <1>0, <2>1, <2>2 DEF IInv, TypeOK, LockOK, Calling
<1>5. flags \in Requests
  BY <1>4 DEF Holds, At, IInv, LocalsOK, LocalOK
<1>6. /\ emt'[c].pc = "enter" /\ ~emt'[c].caller /\ emt'[c].fl = flags
  BY <1>1 DEF IInv, TypeOK, EmtType
<1>7. ~Calling' /\ Coming' /\ ~Running' /\ ~Leaving'
  BY <1>0, <1>1, <1>2, <1>4 DEF Calling, Coming, Running, Leaving, At, IInv, TypeOK, EmtType
<1>8. TypeOK'
  <2>1. fIn' \in [Cpus -> BOOLEAN]  BY <1>2 DEF IInv, TypeOK
  <2> QED BY <1>1, <1>2, <2>1 DEF IInv, TypeOK
<1>9. LockOK'
  <2>1. \A d \in Cpus : Holds(d)' <=> Holds(d)
    BY <1>1, <1>3, <1>6 DEF Holds, Entered, Turning
  <2> QED BY <1>0, <1>1, <1>2, <1>4, <2>1 DEF IInv, LockOK, At
<1>10. LocalsOK'
  <2>1. fIn'[c] /\ \A d \in Cpus \ {c} : fIn'[d] = fIn[d]  BY <1>2 DEF IInv, TypeOK
  <2>2. LocalOK(c)'  BY <1>2, <1>5, <1>6, <2>1 DEF LocalOK, At
  <2>3. ASSUME NEW d \in Cpus \ {c} PROVE LocalOK(d)'
    BY <1>1, <1>2, <2>1 DEF IInv, LocalsOK, LocalOK, At
  <2> QED BY <2>2, <2>3 DEF LocalsOK
<1>11. StagesOK'  BY <1>0, <1>2, <1>7 DEF IInv, StagesOK, Fresh, NoSignals
<1>12. PlacesOK'
  <2>1. \A d \in Cpus \ {c} : WaitFor(d)' = WaitFor(d)  BY <1>1 DEF WaitFor
  <2> QED BY <1>0, <1>1, <1>2, <1>6, <1>7, <2>1 DEF IInv, PlacesOK
<1>13. CountsOK'
  <2>1. Inside' = Inside  BY <1>1, <1>3, <1>6 DEF Inside, Entered, Turning
  <2>2. \A d \in Cpus : At(d, "last")' <=> At(d, "last")  BY <1>1, <1>3, <1>6 DEF At
  <2> QED BY <1>0, <1>2, <1>7, <2>1, <2>2 DEF IInv, CountsOK
<1>14. TurnsOK'  BY <1>7 DEF TurnsOK
<1> QED BY <1>8, <1>9, <1>10, <1>11, <1>12, <1>13, <1>14 DEF IInv

\* An EMT comes, and the counter tells the last one that it is.
LEMMA EnterInv ==
  ASSUME IInv, NEW c \in Cpus, Enter(c)
  PROVE  IInv'
<1> DEFINE l == IF cEntered + 1 # cCpus THEN WaitFor(c) ELSE "last"
<1>1. emt[c].pc = "enter" /\ Coming /\ emt[c].fl \in Requests /\ emt[c].fl = flags /\ armed
  BY StageOf DEF Enter, At, Coming
<1>2. l \in Entered /\ l \in Pcs /\ (l = "last" \/ l = WaitFor(c))
      /\ (l = "last" <=> cEntered + 1 = cCpus)
  BY <1>1, Waits DEF EndOf, Pcs, Entered
<1>3. Goto(c, l)  BY DEF Enter
<1> HIDE DEF l
<1>4. /\ emt'[c].pc = l /\ emt'[c].caller = emt[c].caller /\ emt'[c].fl = emt[c].fl
      /\ emt' \in [Cpus -> EmtType] /\ \A d \in Cpus \ {c} : emt'[d] = emt[d]
  BY <1>2, <1>3, Gone DEF IInv
<1>5. /\ lock' = lock /\ armed' = armed /\ flags' = flags /\ ff' = ff /\ status' = status
      /\ fIn' = fIn /\ cEntered' = cEntered + 1 /\ cDone' = cDone /\ cReturned' = cReturned
      /\ enterOne' = enterOne /\ enterAll' = enterAll /\ enterOrd' = enterOrd
      /\ evtDone' = evtDone /\ evtCaller' = evtCaller /\ calls' = calls /\ told' = told
  BY DEF Enter, Shared, Events
<1>6. cReturned = 0 /\ cEntered = Cardinality(Inside)
  BY <1>1, InsideFacts, CountOf DEF IInv, StagesOK, Fresh, CountsOK
<1>7. c \notin Inside /\ Inside' = Inside \cup {c}
  BY <1>1, <1>2, <1>4 DEF Inside, Entered, Turning
<1>8. cEntered' = Cardinality(Inside') + cReturned' /\ cEntered \in Nat /\ cEntered < cCpus
  BY <1>5, <1>6, <1>7, InsideFacts, CountMore, CountOf
<1>9. ~Calling' /\ Coming' /\ ~Running' /\ ~Leaving' /\ lock \in Cpus
  <2>1. lock \in Cpus /\ ~At(lock, "raise")
    BY <1>1 DEF IInv, TypeOK, LockOK, StagesOK, Calling, Coming
  <2>2. ~At(lock, "raise")'  BY <1>2, <1>4, <1>5, <2>1 DEF At, Entered, Turning
  <2> QED BY <1>1, <1>5, <2>1, <2>2 DEF Calling, Coming, Running, Leaving
<1>10. TypeOK'  BY <1>4, <1>5, <1>8, CpuFacts DEF IInv, TypeOK
<1>11. LockOK'
  <2>1. \A d \in Cpus : Holds(d)' <=> Holds(d)
    BY <1>1, <1>2, <1>4 DEF Holds, Entered, Turning
  <2>2. ~At(lock, "slate")' /\ ~At(lock, "slate")
    BY <1>1, <1>2, <1>4, <1>5, <1>9 DEF At, Entered, Turning, IInv, LockOK
  <2> QED BY <1>5, <2>1, <2>2 DEF IInv, LockOK
<1>12. LocalsOK'
  <2>1. LocalOK(c)'
    BY <1>1, <1>2, <1>4, <1>5, Waits DEF IInv, LocalsOK, LocalOK, At, Entered, Turning, EndOf
  <2>2. ASSUME NEW d \in Cpus \ {c} PROVE LocalOK(d)'
    BY <1>4, <1>5 DEF IInv, LocalsOK, LocalOK, At
  <2> QED BY <2>1, <2>2 DEF LocalsOK
<1>13. StagesOK'  BY <1>1, <1>5, <1>9 DEF IInv, StagesOK, Fresh, NoSignals
<1>14. PlacesOK'
  <2>1. \A d \in Cpus : WaitFor(d)' = WaitFor(d)  BY <1>4 DEF WaitFor
  <2> QED BY <1>1, <1>2, <1>4, <1>5, <1>9, <2>1 DEF IInv, PlacesOK
<1>15. CountsOK'
  <2>1. \A d \in Cpus : ~At(d, "last")  BY <1>1, <1>8 DEF IInv, CountsOK
  <2>2. \A d \in Cpus : At(d, "last")' <=> d = c /\ cEntered + 1 = cCpus
    BY <1>2, <1>4, <2>1 DEF At
  <2> QED BY <1>5, <1>8, <1>9, <2>2 DEF CountsOK
<1>16. TurnsOK'  BY <1>9 DEF TurnsOK
<1> QED BY <1>10, <1>11, <1>12, <1>13, <1>14, <1>15, <1>16 DEF IInv

LEMMA RankFacts ==
  ASSUME NEW c \in Cpus, NEW d \in Cpus, flags \in Requests
  PROVE  /\ Rank(c) \in Int /\ 0 <= Rank(c) /\ Rank(c) < cCpus
         /\ Rank(c) = Rank(d) => c = d
         /\ First(flags.type) \in Cpus
         /\ flags.type \in Ordered => (Rank(c) = 0 <=> c = First(flags.type))
BY CpuFacts DEF Rank, First, Cpus, Ordered

\* The last EMT finds the others waiting, and starts the callbacks.
LEMMA LastInv ==
  ASSUME IInv, NEW c \in Cpus, Last(c)
  PROVE  IInv'
<1> DEFINE type == flags.type
           other == type \in Ordered /\ c # First(type)
           l == IF other THEN "waitOrd" ELSE "turn"
<1>1. emt[c].pc = "last" /\ Coming /\ emt[c].fl \in Requests /\ emt[c].fl = flags /\ armed
  BY StageOf DEF Last, At, Coming, Entered
<1>2. l \in Pcs /\ Goto(c, l)  BY <1>1 DEF Last, Pcs, Entered, Turning
<1>3. /\ emt'[c].pc = l /\ emt'[c].caller = emt[c].caller /\ emt'[c].fl = emt[c].fl
      /\ emt' \in [Cpus -> EmtType] /\ \A d \in Cpus \ {c} : emt'[d] = emt[d]
  BY <1>2, Gone DEF IInv
<1>4. /\ lock' = lock /\ armed' = armed /\ flags' = flags /\ ff' = FALSE /\ status' = status
      /\ fIn' = fIn /\ cEntered' = cEntered /\ cDone' = cDone /\ cReturned' = cReturned
      /\ enterOne' = enterOne /\ enterAll' \in BOOLEAN
      /\ enterOrd' = IF other THEN [enterOrd EXCEPT ![First(type)] = TRUE] ELSE enterOrd
      /\ evtDone' = evtDone /\ evtCaller' = evtCaller /\ calls' = calls /\ told' = told
  BY <1>1 DEF Last, Shared, Counters
<1>5. cEntered = cCpus /\ Fresh /\ Inside = Cpus
  <2>1. cEntered = cCpus /\ Fresh  BY <1>1 DEF IInv, CountsOK, StagesOK, At
  <2>2. Cardinality(Inside) = cCpus
    BY <1>1, <2>1, InsideFacts, CountOf DEF IInv, CountsOK, Fresh
  <2> QED BY <2>1, <2>2, InsideFacts, CountOf
<1>6. \A d \in Cpus \ {c} : /\ emt[d].pc \in Entered /\ emt[d].pc = WaitFor(d)
                            /\ emt[d].fl \in Requests /\ emt[d].fl = flags
  <2>1. ASSUME NEW d \in Cpus \ {c}
        PROVE  /\ emt[d].pc \in Entered /\ emt[d].pc = WaitFor(d)
               /\ emt[d].fl \in Requests /\ emt[d].fl = flags
    <3>1. emt[d].pc \in Entered  BY <1>5 DEF Inside
    <3>2. emt[d].pc # "last"  BY <1>1 DEF IInv, CountsOK, At
    <3>3. emt[d].pc \notin Outside /\ emt[d].pc # "enter"
      BY <3>1 DEF Outside, Entered, Turning
    <3> QED BY <1>1, <3>1, <3>2, <3>3, StageOf DEF IInv, PlacesOK
  <2> QED BY <2>1
<1>7. \A d \in Cpus \ {c} : emt[d].pc = IF type = "ONE_BY_ONE" THEN "waitOne"
                                       ELSE IF type = "ALL_AT_ONCE" THEN "waitAll"
                                       ELSE IF type = "ONCE" THEN EndOf(d) ELSE "waitOrd"
  BY <1>6, Waits
<1>8. type \in AllTypes /\ type # "NONE"  BY <1>1, RequestFacts
<1> HIDE DEF l
<1>9. l = IF other THEN "waitOrd" ELSE "turn"  BY DEF l
<1>10. ~Calling' /\ ~Coming' /\ Running' /\ ~Leaving' /\ lock \in Cpus
  <2>1. lock \in Cpus /\ ~At(lock, "raise")
    BY <1>1 DEF IInv, TypeOK, LockOK, StagesOK, Calling, Coming
  <2>2. ~At(lock, "raise")'  BY <1>3, <1>4, <1>9, <2>1 DEF At
  <2> QED BY <1>1, <1>4, <1>5, <2>1, <2>2 DEF Calling, Coming, Running, Leaving, Fresh
<1>11. TypeOK'
  <2>1. enterOrd' \in [Cpus -> BOOLEAN]  BY <1>4 DEF IInv, TypeOK
  <2> QED BY <1>3, <1>4, <2>1 DEF IInv, TypeOK
<1>12. LockOK'
  <2>1. \A d \in Cpus : Holds(d)' <=> Holds(d)
    BY <1>1, <1>3, <1>9 DEF Holds, Entered, Turning
  <2>2. ~At(lock, "slate")' /\ ~At(lock, "slate")
    BY <1>1, <1>3, <1>4, <1>9, <1>10 DEF At, IInv, LockOK
  <2> QED BY <1>4, <2>1, <2>2 DEF IInv, LockOK
<1>13. LocalsOK'
  <2>1. LocalOK(c)'
    BY <1>1, <1>3, <1>4, <1>9 DEF IInv, LocalsOK, LocalOK, At, Entered, Turning
  <2>2. ASSUME NEW d \in Cpus \ {c} PROVE LocalOK(d)'
    BY <1>3, <1>4 DEF IInv, LocalsOK, LocalOK, At
  <2> QED BY <2>1, <2>2 DEF LocalsOK
<1>14. StagesOK'  BY <1>1, <1>4, <1>5, <1>10 DEF StagesOK
<1>15. PlacesOK'
  <2>1. \A d \in Cpus : WaitFor(d)' = WaitFor(d)  BY <1>3 DEF WaitFor
  <2>2. other => WaitFor(c) = "waitOrd"  BY <1>1, Waits DEF Ordered
  <2>3. emt'[c].pc \in Entered /\ (emt'[c].pc \in Turning \/ emt'[c].pc = WaitFor(c))
    BY <1>3, <1>9, <2>2 DEF Entered, Turning
  <2> QED BY <1>3, <1>4, <1>6, <1>10, <1>1, <2>1, <2>3 DEF PlacesOK
<1>16. CountsOK'
  <2>1. Inside' = Cpus  BY <1>3, <1>5, <1>9 DEF Inside, Entered, Turning
  <2>2. type # "ONCE" => Finished' = {}
    <3> SUFFICES ASSUME type # "ONCE", NEW d \in Cpus PROVE emt'[d].pc \notin {"waitDone", "waitCaller"}
      BY DEF Finished
    <3> QED BY <1>3, <1>7, <1>9
  <2>3. \A d \in Cpus : ~At(d, "last")'
    BY <1>1, <1>3, <1>7, <1>9 DEF At, EndOf
  <2>4. cDone' = 0 /\ cReturned' = 0 /\ ~evtCaller' /\ cEntered' = cCpus
    BY <1>4, <1>5 DEF Fresh
  <2> QED BY <1>4, <1>10, <2>1, <2>2, <2>3, <2>4, CpuFacts, FS_EmptySet DEF CountsOK
<1>17. TurnsOK'
  <2>1. \A d \in Cpus : emt'[d].pc \in Turning => d = c
    BY <1>3, <1>7 DEF Turning, EndOf
  <2>2. ~enterOne' /\ (~other => \A d \in Cpus : ~enterOrd'[d])
    BY <1>4, <1>5 DEF Fresh, NoSignals
  <2>3. other => \A d \in Cpus : enterOrd'[d] <=> d = First(type)
    BY <1>1, <1>4, <1>5, RankFacts DEF IInv, TypeOK, Fresh, NoSignals
  <2>4. type \in Ordered => \A d \in Cpus :
          /\ ~(Rank(d) < 0)
          /\ Rank(d) = 0 => \/ emt'[d].pc \in Turning /\ ~enterOrd'[d]
                            \/ emt'[d].pc = "waitOrd" /\ enterOrd'[d]
          /\ Rank(d) > 0 => emt'[d].pc = "waitOrd" /\ ~enterOrd'[d]
    <3> SUFFICES ASSUME type \in Ordered, NEW d \in Cpus
                 PROVE  /\ ~(Rank(d) < 0)
                        /\ Rank(d) = 0 => \/ emt'[d].pc \in Turning /\ ~enterOrd'[d]
                                          \/ emt'[d].pc = "waitOrd" /\ enterOrd'[d]
                        /\ Rank(d) > 0 => emt'[d].pc = "waitOrd" /\ ~enterOrd'[d]
      OBVIOUS
    <3>1. Rank(d) \in Int /\ 0 <= Rank(d) /\ (Rank(d) = 0 <=> d = First(type))
      BY <1>1, RankFacts
    <3>2. d # c => emt'[d].pc = "waitOrd"  BY <1>3, <1>7 DEF Ordered
    <3>3. emt'[c].pc = IF c # First(type) THEN "waitOrd" ELSE "turn"  BY <1>3, <1>9
    <3>4. other <=> c # First(type)  OBVIOUS
    <3>5. enterOrd'[d] <=> other /\ d = First(type)  BY <2>2, <2>3
    <3> HIDE DEF other, type
    <3>6. CASE d = First(type)  BY <3>1, <3>2, <3>3, <3>4, <3>5, <3>6 DEF Turning
    <3>7. CASE d # First(type)  BY <3>1, <3>2, <3>3, <3>4, <3>5, <3>7 DEF Turning
    <3> QED BY <3>6, <3>7
  <2>5. cDone' = 0 /\ \A d \in Cpus : Rank(d)' = Rank(d)  BY <1>4, <1>5 DEF Fresh, Rank
  <2>6. type = "ONE_BY_ONE" => emt'[c].pc \in Turning
    BY <1>3, <1>9 DEF Turning, Ordered
  <2>7. other => type \in Ordered  OBVIOUS
  <2> QED BY <1>4, <2>1, <2>2, <2>4, <2>5, <2>6, <2>7 DEF TurnsOK, At
<1> QED BY <1>11, <1>12, <1>13, <1>14, <1>15, <1>16, <1>17 DEF IInv

\* What every step of an EMT inside a rendezvous leaves alone.
LEMMA InsideStep ==
  ASSUME IInv, NEW c \in Cpus, NEW l \in Entered \ {"last", "merge", "cas", "return"},
         emt[c].pc \in Entered, Goto(c, l),
         UNCHANGED <<Shared, ff, status, fIn>>
  PROVE  /\ LockOK' /\ LocalsOK' /\ Inside' = Inside
         /\ emt' \in [Cpus -> EmtType]
         /\ emt'[c].pc = l /\ \A d \in Cpus \ {c} : emt'[d] = emt[d]
         /\ \A d \in Cpus : /\ emt'[d].caller = emt[d].caller /\ EndOf(d)' = EndOf(d)
                            /\ WaitFor(d)' = WaitFor(d)
         /\ (Calling' <=> Calling) /\ (Coming' <=> Coming)
<1>1. l \in Pcs  BY DEF Pcs
<1>2. /\ emt'[c].pc = l /\ emt'[c].caller = emt[c].caller /\ emt'[c].fl = emt[c].fl
      /\ emt' \in [Cpus -> EmtType] /\ \A d \in Cpus \ {c} : emt'[d] = emt[d]
  BY <1>1, Gone DEF IInv
<1>3. /\ lock' = lock /\ armed' = armed /\ flags' = flags /\ ff' = ff /\ status' = status
      /\ fIn' = fIn
  BY DEF Shared
<1>4. lock # NoCpu => /\ At(lock, "slate")' <=> At(lock, "slate")
                      /\ At(lock, "raise")' <=> At(lock, "raise")
  BY <1>2, <1>3 DEF At, IInv, TypeOK, Entered, Turning
<1>5. LockOK'
  <2>1. \A d \in Cpus : Holds(d)' <=> Holds(d)
    BY <1>2 DEF Holds, Entered, Turning
  <2> QED BY <1>3, <1>4, <2>1 DEF IInv, LockOK
<1>6. LocalsOK'
  <2>1. LocalOK(c)'
    BY <1>2, <1>3 DEF IInv, LocalsOK, LocalOK, At, Entered, Turning
  <2>2. ASSUME NEW d \in Cpus \ {c} PROVE LocalOK(d)'
    BY <1>2, <1>3 DEF IInv, LocalsOK, LocalOK, At
  <2> QED BY <2>1, <2>2 DEF LocalsOK
<1>7. Inside' = Inside  BY <1>2 DEF Inside
<1>8. \A d \in Cpus : /\ emt'[d].caller = emt[d].caller /\ EndOf(d)' = EndOf(d)
                      /\ WaitFor(d)' = WaitFor(d)
  BY <1>2 DEF EndOf, WaitFor
<1>9. (Calling' <=> Calling) /\ (Coming' <=> Coming)
  BY <1>3, <1>4 DEF Calling, Coming, IInv, LockOK
<1> QED BY <1>2, <1>5, <1>6, <1>7, <1>8, <1>9

\* In the order of the CPUs, who has the turn or is called to it is the next one.
LEMMA TheNext ==
  ASSUME IInv, Running, flags.type \in Ordered, flags \in Requests,
         NEW c \in Cpus, emt[c].pc \in Turning \/ enterOrd[c]
  PROVE  /\ Rank(c) = cDone
         /\ \A d \in Cpus \ {c} : emt[d].pc \notin Turning /\ ~enterOrd[d]
<1>1. cDone \in Int  BY DEF IInv, TypeOK
<1>2. \A d \in Cpus : Rank(d) \in Int /\ (Rank(d) = Rank(c) => d = c)  BY RankFacts
<1>3. \A d \in Cpus :
       /\ Rank(d) < cDone => emt[d].pc = EndOf(d) /\ ~enterOrd[d]
       /\ Rank(d) > cDone => At(d, "waitOrd") /\ ~enterOrd[d]
  BY DEF IInv, TurnsOK
<1>4. Rank(c) = cDone  BY <1>1, <1>2, <1>3 DEF EndOf, At, Turning
<1>5. \A d \in Cpus \ {c} : Rank(d) < cDone \/ Rank(d) > cDone  BY <1>1, <1>2, <1>4
<1> QED BY <1>3, <1>4, <1>5 DEF EndOf, At, Turning

\* Whoever is woken gets the turn, and the wake-up is gone.
LEMMA WaitTurnInv ==
  ASSUME IInv, NEW c \in Cpus, WaitTurn(c)
  PROVE  IInv'
<1> DEFINE type == flags.type
<1>1. /\ lock' = lock /\ armed' = armed /\ flags' = flags /\ ff' = ff /\ status' = status
      /\ fIn' = fIn /\ cEntered' = cEntered /\ cDone' = cDone /\ cReturned' = cReturned
      /\ evtDone' = evtDone /\ evtCaller' = evtCaller /\ calls' = calls /\ told' = told
      /\ Goto(c, "turn")
  BY DEF WaitTurn, Shared, Counters
<1>2. emt[c].pc \in {"waitOne", "waitAll", "waitOrd"}
  BY DEF WaitTurn, At
<1>3. Running /\ emt[c].fl \in Requests /\ emt[c].fl = flags
  <2>1. Coming \/ Running  BY <1>2, StageOf
  <2>2. ~Coming  BY <1>2 DEF WaitTurn, At, IInv, StagesOK, Fresh, NoSignals
  <2> QED BY <1>2, <2>1, <2>2, StageOf DEF Entered
<1>4. /\ emt[c].pc = "waitOne" => type = "ONE_BY_ONE"
      /\ emt[c].pc = "waitAll" => type = "ALL_AT_ONCE"
      /\ emt[c].pc = "waitOrd" => type \in Ordered
  <2>1. emt[c].pc = WaitFor(c)  BY <1>2, <1>3 DEF IInv, PlacesOK, EndOf, Turning
  <2> QED BY <1>2, <1>3, <2>1, Waits, RequestFacts DEF EndOf, AllTypes, Ordered
<1>5. /\ LockOK' /\ LocalsOK' /\ Inside' = Inside
      /\ emt' \in [Cpus -> EmtType]
      /\ emt'[c].pc = "turn" /\ \A d \in Cpus \ {c} : emt'[d] = emt[d]
      /\ \A d \in Cpus : /\ emt'[d].caller = emt[d].caller /\ EndOf(d)' = EndOf(d)
                         /\ WaitFor(d)' = WaitFor(d)
      /\ (Calling' <=> Calling) /\ (Coming' <=> Coming)
  <2>1. "turn" \in Entered \ {"last", "merge", "cas", "return"} /\ emt[c].pc \in Entered
    BY <1>2 DEF Entered, Turning
  <2>2. UNCHANGED <<Shared, ff, status, fIn>>  BY <1>1 DEF Shared
  <2> QED BY <1>1, <2>1, <2>2, InsideStep
<1>6. Running' /\ ~Leaving' /\ ~Calling' /\ ~Coming'
  BY <1>1, <1>3, <1>5 DEF Running, Leaving, Coming
<1>7. TypeOK'
  <2>1. enterOne' \in BOOLEAN /\ enterAll' \in BOOLEAN /\ enterOrd' \in [Cpus -> BOOLEAN]
    BY DEF WaitTurn, IInv, TypeOK
  <2> QED BY <1>1, <1>5, <2>1 DEF IInv, TypeOK
<1>8. StagesOK'
  BY <1>1, <1>3, <1>6 DEF IInv, StagesOK
<1>9. PlacesOK'
  <2>1. /\ armed'
        /\ \A d \in Cpus : /\ emt[d].pc \in Entered
                           /\ emt[d].pc \in Turning \cup {EndOf(d)} \/ emt[d].pc = WaitFor(d)
    BY <1>1, <1>3 DEF IInv, PlacesOK, Running
  <2>2. emt'[c].pc \in Turning /\ emt'[c].pc \in Entered  BY <1>5 DEF Turning, Entered
  <2>3. \A d \in Cpus : /\ emt'[d].pc \in Entered
                        /\ emt'[d].pc \in Turning \cup {EndOf(d)} \/ emt'[d].pc = WaitFor(d)
    BY <1>5, <2>1, <2>2
  <2>4. \A d \in Cpus : WaitFor(d)' = WaitFor(d) /\ EndOf(d)' = EndOf(d)  BY <1>5
  <2> QED BY <1>6, <2>1, <2>3, <2>4 DEF PlacesOK
<1>10. CountsOK'
  <2>1. Finished' = Finished  BY <1>2, <1>5 DEF Finished
  <2>2. \A d \in Cpus : At(d, "last")' => At(d, "last")  BY <1>5 DEF At
  <2> QED BY <1>1, <1>3, <1>5, <1>6, <2>1, <2>2 DEF IInv, CountsOK
<1>11. TurnsOK'
  <2>1. \A d \in Cpus : Rank(d)' = Rank(d)  BY <1>1 DEF Rank
  <2>2. CASE At(c, "waitOne")
    <3>1. type = "ONE_BY_ONE" /\ enterOne /\ ~enterOne' /\ enterOrd' = enterOrd
      BY <1>4, <2>2 DEF WaitTurn, At
    <3>2. \A d \in Cpus : emt[d].pc \notin Turning  BY <1>3, <3>1 DEF IInv, TurnsOK
    <3>3. \A d \in Cpus : emt'[d].pc \in Turning <=> d = c  BY <1>5, <3>2 DEF Turning
    <3> QED BY <1>1, <1>3, <3>1, <3>3 DEF IInv, TurnsOK, Ordered
  <2>3. CASE At(c, "waitAll")
    <3>1. type = "ALL_AT_ONCE" /\ enterOne' = enterOne /\ enterOrd' = enterOrd
      BY <1>4, <2>3 DEF WaitTurn, At
    <3> QED BY <1>1, <1>3, <3>1 DEF IInv, TurnsOK, Ordered
  <2>4. CASE At(c, "waitOrd")
    <3>1. /\ type \in Ordered /\ enterOrd[c] /\ enterOne' = enterOne
          /\ enterOrd' = [enterOrd EXCEPT ![c] = FALSE]
      BY <1>4, <2>4 DEF WaitTurn, At
    <3>2. Rank(c) = cDone /\ \A d \in Cpus \ {c} : emt[d].pc \notin Turning /\ ~enterOrd[d]
      BY <1>3, <3>1, TheNext
    <3>3. ~enterOrd'[c] /\ \A d \in Cpus \ {c} : enterOrd'[d] = enterOrd[d]
      BY <3>1 DEF IInv, TypeOK
    <3>4. \A d \in Cpus : emt'[d].pc \in Turning <=> d = c  BY <1>5, <3>2 DEF Turning
    <3>5. \A d \in Cpus :
            /\ Rank(d) < cDone => emt'[d].pc = EndOf(d)' /\ ~enterOrd'[d]
            /\ Rank(d) = cDone => \/ emt'[d].pc \in Turning /\ ~enterOrd'[d]
                                  \/ emt'[d].pc = "waitOrd" /\ enterOrd'[d]
            /\ Rank(d) > cDone => emt'[d].pc = "waitOrd" /\ ~enterOrd'[d]
      <4>1. ASSUME NEW d \in Cpus \ {c}
            PROVE /\ Rank(d) < cDone => emt'[d].pc = EndOf(d)' /\ ~enterOrd'[d]
                  /\ Rank(d) = cDone => \/ emt'[d].pc \in Turning /\ ~enterOrd'[d]
                                        \/ emt'[d].pc = "waitOrd" /\ enterOrd'[d]
                  /\ Rank(d) > cDone => emt'[d].pc = "waitOrd" /\ ~enterOrd'[d]
        BY <1>3, <1>5, <3>1, <3>3 DEF IInv, TurnsOK, At
      <4>2. cDone \in Int  BY DEF IInv, TypeOK
      <4> QED BY <3>2, <3>3, <3>4, <4>1, <4>2
    <3>6. ~enterOne  BY <1>3, <3>1 DEF IInv, TurnsOK, Ordered
    <3> QED BY <1>1, <2>1, <3>1, <3>4, <3>5, <3>6 DEF TurnsOK, At, Ordered
  <2> QED BY <1>2, <2>2, <2>3, <2>4 DEF At
<1> QED BY <1>5, <1>7, <1>8, <1>9, <1>10, <1>11 DEF IInv

\* The callback: looked for an error, run, and its result merged.
LEMMA CallbackInv ==
  ASSUME IInv, NEW c \in Cpus, Check(c) \/ Callback(c) \/ MergeRead(c) \/ MergeCas(c)
  PROVE  IInv'
<1>0. emt \in [Cpus -> EmtType] /\ status \in Results  BY DEF IInv, TypeOK
<1>1. CASE Check(c)
  <2>1. PICK l \in {"done", "callback"} : Goto(c, l)  BY <1>1 DEF Check
  <2>2. emt' = [emt EXCEPT ![c] = [emt[c] EXCEPT !.pc = l]]  BY <1>0, <2>1 DEF Goto
  <2>3. [emt[c] EXCEPT !.pc = l] \in EmtType  BY <1>0 DEF EmtType, Pcs, Entered, Turning
  <2> QED BY <1>0, <1>1, <2>2, <2>3, TurningStep DEF Check, At, Turning, EmtType
<1>2. CASE Callback(c)
  <2>1. PICK rc \in Results :
          emt' = [emt EXCEPT ![c] = [emt[c] EXCEPT !.pc = IF rc # 0 THEN "merge" ELSE "done", !.rc = rc]]
    BY <1>0, <1>2 DEF Callback
  <2> DEFINE r == [emt[c] EXCEPT !.pc = IF rc # 0 THEN "merge" ELSE "done", !.rc = rc]
  <2>2. r \in EmtType
    <3>1. emt[c] \in EmtType  BY <1>0
    <3>2. {"merge", "done"} \subseteq Pcs  BY DEF Pcs, Entered, Turning
    <3> QED BY <3>1, <3>2 DEF EmtType
  <2>3. /\ r.pc = IF rc # 0 THEN "merge" ELSE "done"
        /\ r.rc = rc /\ r.caller = emt[c].caller /\ r.fl = emt[c].fl /\ r.want = emt[c].want
    BY <1>0 DEF EmtType
  <2>4. emt' = [emt EXCEPT ![c] = r]  BY <2>1
  <2> HIDE DEF r
  <2> QED BY <1>0, <1>2, <2>2, <2>3, <2>4, TurningStep DEF Callback, At, Turning
<1>3. CASE MergeRead(c)
  <2> DEFINE r == [emt[c] EXCEPT !.pc = IF Keeps(emt[c].rc) THEN "done" ELSE "cas", !.old = status]
  <2>1. emt' = [emt EXCEPT ![c] = r]  BY <1>0, <1>3 DEF MergeRead
  <2>2. r \in EmtType
    <3>1. emt[c] \in EmtType  BY <1>0
    <3>2. {"cas", "done"} \subseteq Pcs  BY DEF Pcs, Entered, Turning
    <3> QED BY <1>0, <3>1, <3>2 DEF EmtType
  <2>3. /\ r.pc = IF NotToMerge(emt[c].rc, status) THEN "done" ELSE "cas"
        /\ r.rc = emt[c].rc /\ r.old = status
        /\ r.caller = emt[c].caller /\ r.fl = emt[c].fl /\ r.want = emt[c].want
    BY <1>0 DEF EmtType, Keeps, NotToMerge
  <2>4. emt[c].rc # 0  BY <1>3 DEF MergeRead, IInv, LocalsOK, LocalOK
  <2> HIDE DEF r
  <2>5. /\ emt[c].pc \in Turning /\ r.pc \in Turning /\ r.rc # 0
        /\ r.pc = "cas" => ~NotToMerge(r.rc, r.old)
    BY <1>3, <2>3, <2>4 DEF MergeRead, At, Turning
  <2>6. status' \in Results /\ UNCHANGED <<Shared, ff, Counters, Events, fIn, told, calls>>
    BY <1>0, <1>3 DEF MergeRead
  <2> QED BY <2>1, <2>2, <2>3, <2>5, <2>6, TurningStep
<1>4. CASE MergeCas(c)
  <2>1. PICK l \in {"done", "merge"} : Goto(c, l)  BY <1>4 DEF MergeCas
  <2>2. emt' = [emt EXCEPT ![c] = [emt[c] EXCEPT !.pc = l]]  BY <1>0, <2>1 DEF Goto
  <2>3. [emt[c] EXCEPT !.pc = l] \in EmtType  BY <1>0 DEF EmtType, Pcs, Entered, Turning
  <2>4. emt[c].rc # 0 /\ emt[c].rc \in Results
    BY <1>0, <1>4 DEF MergeCas, IInv, LocalsOK, LocalOK, EmtType
  <2>5. status' \in Results  BY <1>0, <1>4, <2>4 DEF MergeCas
  <2> QED BY <1>0, <1>4, <2>2, <2>3, <2>4, <2>5, TurningStep DEF MergeCas, At, Turning, EmtType
<1> QED BY <1>1, <1>2, <1>3, <1>4

\* What EMTs other than the one that has the turn do when it is the only one.
LEMMA DoneFacts ==
  ASSUME IInv, NEW c \in Cpus, At(c, "done")
  PROVE  /\ Running /\ flags \in Requests /\ emt[c].fl = flags /\ Inside = Cpus
         /\ cDone \in Nat /\ cDone < cCpus /\ cReturned = 0 /\ ~evtCaller /\ c \notin Finished
         /\ cDone = IF flags.type = "ONCE" THEN 0 ELSE Cardinality(Finished)
         /\ flags.type # "ALL_AT_ONCE" => \A d \in Cpus \ {c} : emt[d].pc \notin Turning
<1>1. Running /\ flags \in Requests /\ emt[c].fl = flags
  BY StageOf DEF At, Turning, Entered
<1>2. /\ cDone < cCpus /\ cReturned = 0 /\ ~evtCaller /\ cDone \in Nat
      /\ cDone = IF flags.type = "ONCE" THEN 0 ELSE Cardinality(Finished)
  BY <1>1, CpuFacts DEF IInv, CountsOK, TypeOK
<1>3. Inside = Cpus
  BY <1>1 DEF IInv, PlacesOK, Inside
<1>4. c \notin Finished  BY DEF At, Finished
<1>5. flags.type # "ALL_AT_ONCE" => \A d \in Cpus \ {c} : emt[d].pc \notin Turning
  BY <1>1 DEF IInv, TurnsOK, At, Turning
<1> QED BY <1>1, <1>2, <1>3, <1>4, <1>5

\* The turn is handed on, and there is somebody to take it.
LEMMA DoneNotOver ==
  ASSUME IInv, NEW c \in Cpus, Done(c), cDone + 1 # cCpus, flags.type # "ONCE"
  PROVE  IInv'
<1> DEFINE type == flags.type
<1>1. /\ Running /\ flags \in Requests /\ emt[c].fl = flags /\ Inside = Cpus
      /\ cDone \in Nat /\ cDone + 1 < cCpus /\ cReturned = 0 /\ ~evtCaller /\ c \notin Finished
      /\ cDone = Cardinality(Finished)
      /\ type # "ALL_AT_ONCE" => \A d \in Cpus \ {c} : emt[d].pc \notin Turning
      /\ emt[c].pc = "done"
  BY DoneFacts, CpuFacts DEF Done, At
<1>2. /\ lock' = lock /\ armed' = armed /\ flags' = flags /\ ff' = ff /\ status' = status
      /\ fIn' = fIn /\ cEntered' = cEntered /\ cDone' = cDone + 1 /\ cReturned' = cReturned
      /\ evtDone' = evtDone /\ evtCaller' = evtCaller /\ calls' = calls /\ told' = told
      /\ enterAll' = enterAll
      /\ enterOne' = (enterOne \/ type = "ONE_BY_ONE")
      /\ enterOrd' = IF type \in Ordered THEN [enterOrd EXCEPT ![NextOne(c)] = TRUE] ELSE enterOrd
      /\ Goto(c, EndOf(c))
  <2>1. evtDone' = (evtDone \/ FALSE)  BY <1>1 DEF Done
  <2>2. evtDone \in BOOLEAN  BY DEF IInv, TypeOK
  <2>3. evtDone' = evtDone  BY <2>1, <2>2
  <2> QED BY <1>1, <2>3 DEF Done, Shared, SignalsOne, EndOf
<1>3. EndOf(c) \in {"waitDone", "waitCaller"}  BY DEF EndOf
<1>4. /\ LockOK' /\ LocalsOK' /\ Inside' = Inside
      /\ emt' \in [Cpus -> EmtType]
      /\ emt'[c].pc = EndOf(c) /\ \A d \in Cpus \ {c} : emt'[d] = emt[d]
      /\ \A d \in Cpus : /\ emt'[d].caller = emt[d].caller /\ EndOf(d)' = EndOf(d)
                         /\ WaitFor(d)' = WaitFor(d)
      /\ (Calling' <=> Calling) /\ (Coming' <=> Coming)
  <2>1. EndOf(c) \in Entered \ {"last", "merge", "cas", "return"} /\ emt[c].pc \in Entered
    BY <1>1, <1>3 DEF Entered, Turning
  <2>2. UNCHANGED <<Shared, ff, status, fIn>>  BY <1>2 DEF Shared
  <2> QED BY <1>2, <2>1, <2>2, InsideStep
<1>5. Running' /\ ~Leaving' /\ ~Calling' /\ ~Coming'
  BY <1>1, <1>2, <1>4 DEF Running, Leaving, Coming
<1>6. TypeOK'
  <2>1. enterOne' \in BOOLEAN /\ enterOrd' \in [Cpus -> BOOLEAN]
    BY <1>2 DEF IInv, TypeOK
  <2>2. cDone + 1 \in 0 .. cCpus  BY <1>1, CpuFacts
  <2> QED BY <1>2, <1>4, <2>1, <2>2 DEF IInv, TypeOK
<1>7. StagesOK'  BY <1>1, <1>2, <1>5 DEF IInv, StagesOK
<1>8. PlacesOK'
  <2>1. /\ armed'
        /\ \A d \in Cpus : /\ emt[d].pc \in Entered
                           /\ emt[d].pc \in Turning \cup {EndOf(d)} \/ emt[d].pc = WaitFor(d)
    BY <1>1, <1>2 DEF IInv, PlacesOK, Running
  <2>2. EndOf(c) \in Entered  BY <1>3 DEF Entered
  <2>3. \A d \in Cpus : /\ emt'[d].pc \in Entered
                        /\ emt'[d].pc \in Turning \cup {EndOf(d)} \/ emt'[d].pc = WaitFor(d)
    BY <1>4, <2>1, <2>2
  <2>4. \A d \in Cpus : WaitFor(d)' = WaitFor(d) /\ EndOf(d)' = EndOf(d)  BY <1>4
  <2> QED BY <1>5, <2>1, <2>3, <2>4 DEF PlacesOK
<1>9. CountsOK'
  <2>1. Finished' = Finished \cup {c}  BY <1>3, <1>4 DEF Finished
  <2>2. Cardinality(Finished') = cDone + 1  BY <1>1, <2>1, InsideFacts, CountMore
  <2>3. \A d \in Cpus : At(d, "last")' => At(d, "last")  BY <1>3, <1>4 DEF At
  <2> QED BY <1>1, <1>2, <1>4, <1>5, <2>2, <2>3 DEF IInv, CountsOK
<1>10. TurnsOK'
  <2>1. \A d \in Cpus : Rank(d)' = Rank(d)  BY <1>2 DEF Rank
  <2>2. emt'[c].pc \notin Turning /\ \A d \in Cpus : emt'[d].pc \in Turning => emt[d].pc \in Turning
    BY <1>3, <1>4 DEF Turning
  <2>3. CASE type = "ONE_BY_ONE"
    <3>1. enterOne' /\ enterOrd' = enterOrd  BY <1>2, <2>3 DEF Ordered
    <3>2. \A d \in Cpus : emt'[d].pc \notin Turning  BY <1>1, <2>2, <2>3
    <3> QED BY <1>1, <1>2, <2>3, <3>1, <3>2 DEF IInv, TurnsOK, Ordered
  <2>4. CASE type = "ALL_AT_ONCE"
    <3>1. enterOne' = enterOne /\ enterOrd' = enterOrd
      BY <1>2, <2>4 DEF Ordered, IInv, TypeOK
    <3> QED BY <1>1, <1>2, <2>4, <3>1 DEF IInv, TurnsOK, Ordered
  <2>5. CASE type \in Ordered
    <3>1. /\ ~enterOne' /\ enterOrd' = [enterOrd EXCEPT ![NextOne(c)] = TRUE]
      BY <1>1, <1>2, <2>5 DEF Ordered, IInv, TurnsOK
    <3>2. Rank(c) = cDone /\ \A d \in Cpus \ {c} : emt[d].pc \notin Turning /\ ~enterOrd[d]
      BY <1>1, <2>5, TheNext DEF Turning
    <3>3. c \in Int /\ 0 <= c /\ c < cCpus /\ cCpus \in Nat  BY CpuFacts
    <3>4. NextOne(c) \in Cpus /\ Rank(NextOne(c)) = cDone + 1
      BY <1>1, <2>5, <3>2, <3>3 DEF NextOne, Rank, Cpus, Ordered
    <3>5. \A d \in Cpus : Rank(d) \in Int /\ (d = NextOne(c) <=> Rank(d) = cDone + 1)
      BY <1>1, <3>4, RankFacts
    <3>6. \A d \in Cpus : enterOrd'[d] <=> (enterOrd[d] \/ d = NextOne(c))
      BY <3>1, <3>4 DEF IInv, TypeOK
    <3>7. /\ Rank(c) < cDone => emt[c].pc = EndOf(c) /\ ~enterOrd[c]
          /\ Rank(c) = cDone => ~enterOrd[c]
      BY <1>1, <2>5 DEF IInv, TurnsOK, At
    <3>8. \A d \in Cpus \ {c} :
            /\ Rank(d) < cDone => emt[d].pc = EndOf(d) /\ ~enterOrd[d]
            /\ Rank(d) > cDone => emt[d].pc = "waitOrd" /\ ~enterOrd[d]
            /\ Rank(d) # cDone
      BY <1>1, <2>5, <3>2, RankFacts DEF IInv, TurnsOK, At
    <3>9. \A d \in Cpus :
            /\ Rank(d) < cDone + 1 => emt'[d].pc = EndOf(d) /\ ~enterOrd'[d]
            /\ Rank(d) = cDone + 1 => emt'[d].pc = "waitOrd" /\ enterOrd'[d]
            /\ Rank(d) > cDone + 1 => emt'[d].pc = "waitOrd" /\ ~enterOrd'[d]
      BY <1>1, <1>4, <3>2, <3>5, <3>6, <3>7, <3>8
    <3>10. \A d \in Cpus : emt'[d].pc \notin Turning  BY <1>1, <2>2, <2>5 DEF Ordered
    <3> QED BY <1>2, <1>4, <2>1, <2>5, <3>1, <3>9, <3>10 DEF TurnsOK, At, Ordered
  <2>6. type \in AllTypes  BY <1>1, RequestFacts
  <2> QED BY <2>3, <2>4, <2>5, <2>6 DEF AllTypes, Ordered
<1> QED BY <1>4, <1>6, <1>7, <1>8, <1>9, <1>10 DEF IInv

\* The last one finds that all the others are waiting for the end.
LEMMA DoneOver ==
  ASSUME IInv, NEW c \in Cpus, Done(c), cDone + 1 = cCpus \/ flags.type = "ONCE"
  PROVE  IInv'
<1> DEFINE type == flags.type
           l == IF emt[c].caller THEN "waitCaller" ELSE "read"
<1>1. /\ Running /\ flags \in Requests /\ emt[c].fl = flags /\ Inside = Cpus
      /\ cDone \in Nat /\ cDone < cCpus /\ cReturned = 0 /\ ~evtCaller /\ c \notin Finished
      /\ cDone = IF type = "ONCE" THEN 0 ELSE Cardinality(Finished)
      /\ type # "ALL_AT_ONCE" => \A d \in Cpus \ {c} : emt[d].pc \notin Turning
      /\ emt[c].pc = "done"
  BY DoneFacts DEF Done, At
<1>2. /\ lock' = lock /\ armed' = armed /\ flags' = flags /\ ff' = ff /\ status' = status
      /\ fIn' = fIn /\ cEntered' = cEntered /\ cDone' = cDone + 1 /\ cReturned' = cReturned
      /\ evtDone' = TRUE /\ evtCaller' = evtCaller /\ calls' = calls /\ told' = told
      /\ enterAll' = enterAll /\ enterOrd' = enterOrd
      /\ enterOne' = enterOne
      /\ Goto(c, l)
  <2>1. enterOne \in BOOLEAN  BY DEF IInv, TypeOK
  <2>2. ~SignalsOne(c)  BY <1>1 DEF SignalsOne
  <2>3. enterOne' = enterOne  BY <2>1, <2>2 DEF Done
  <2> QED BY <1>1, <2>3 DEF Done, Shared
<1>3. l \in {"read", "waitCaller"}  OBVIOUS
<1> HIDE DEF l
<1>4. /\ LockOK' /\ LocalsOK' /\ Inside' = Inside
      /\ emt' \in [Cpus -> EmtType]
      /\ emt'[c].pc = l /\ \A d \in Cpus \ {c} : emt'[d] = emt[d]
      /\ \A d \in Cpus : /\ emt'[d].caller = emt[d].caller /\ EndOf(d)' = EndOf(d)
                         /\ WaitFor(d)' = WaitFor(d)
      /\ (Calling' <=> Calling) /\ (Coming' <=> Coming)
  <2>1. l \in Entered \ {"last", "merge", "cas", "return"} /\ emt[c].pc \in Entered
    BY <1>1, <1>3 DEF Entered, Turning
  <2>2. UNCHANGED <<Shared, ff, status, fIn>>  BY <1>2 DEF Shared
  <2> QED BY <1>2, <2>1, <2>2, InsideStep
<1>5. ~Running' /\ Leaving' /\ ~Calling' /\ ~Coming'
  BY <1>1, <1>2, <1>4 DEF Running, Leaving, Coming
<1>6. TypeOK'
  <2>1. cDone + 1 \in 0 .. cCpus  BY <1>1, CpuFacts
  <2> QED BY <1>2, <1>4, <2>1 DEF IInv, TypeOK
<1>7. type \in AllTypes  BY <1>1, RequestFacts
<1>8. NoSignals
  <2>1. type = "ONE_BY_ONE" => ~enterOne
    BY <1>1 DEF IInv, TurnsOK, Turning
  <2>2. ~enterOne  BY <1>1, <2>1 DEF IInv, TurnsOK
  <2>3. CASE type \in Ordered
    <3>1. cDone + 1 = cCpus  BY <2>3 DEF Ordered
    <3>2. Rank(c) = cDone /\ \A d \in Cpus \ {c} : ~enterOrd[d]
      BY <1>1, <2>3, TheNext DEF Turning
    <3>3. ~enterOrd[c]  BY <1>1, <2>3, <3>2 DEF IInv, TurnsOK, At
    <3> QED BY <2>2, <3>2, <3>3 DEF NoSignals
  <2>4. CASE type \notin Ordered
    BY <1>1, <2>2, <2>4 DEF IInv, TurnsOK, NoSignals
  <2> QED BY <2>3, <2>4
<1>9. StagesOK'  BY <1>1, <1>2, <1>5, <1>8 DEF IInv, StagesOK, NoSignals
<1>10. \A d \in Cpus \ {c} : emt[d].pc = EndOf(d)
  <2>1. \A d \in Cpus : /\ emt[d].pc \in Entered
                        /\ emt[d].pc \in Turning \cup {EndOf(d)} \/ emt[d].pc = WaitFor(d)
    BY <1>1 DEF IInv, PlacesOK
  <2>2. \A d \in Cpus : emt[d].fl = flags  BY <2>1 DEF IInv, LocalsOK, LocalOK
  <2>3. CASE type = "ONCE"
    <3>1. \A d \in Cpus : WaitFor(d) = EndOf(d)  BY <1>1, <2>2, <2>3, Waits
    <3> QED BY <1>1, <2>1, <2>3, <3>1
  <2>4. CASE type # "ONCE"
    <3>1. Finished \cup {c} = Cpus
      <4>1. cDone = Cardinality(Finished) /\ cDone + 1 = cCpus  BY <1>1, <2>4
      <4>2. Cardinality(Finished \cup {c}) = cCpus  BY <1>1, <4>1, InsideFacts, CountMore
      <4>3. Finished \cup {c} \in SUBSET Cpus  BY InsideFacts
      <4> QED BY <4>2, <4>3, CountOf
    <3>2. \A d \in Cpus \ {c} : emt[d].pc \in {"waitDone", "waitCaller"}
      BY <3>1 DEF Finished
    <3>3. \A d \in Cpus : WaitFor(d) \in {"waitOne", "waitAll", "waitOrd"}
      BY <1>1, <2>2, <2>4, Waits
    <3> QED BY <2>1, <3>2, <3>3 DEF Turning
  <2> QED BY <2>3, <2>4
<1>11. PlacesOK'
  <2>1. emt'[c].pc = IF emt'[c].caller THEN "waitCaller" ELSE "read"
    BY <1>4 DEF l
  <2>2. \A d \in Cpus : EndOf(d)' = EndOf(d)  BY <1>4
  <2>3. \A d \in Cpus \ {c} : emt'[d].pc = EndOf(d)  BY <1>4, <1>10
  <2>4. armed'  BY <1>1, <1>2 DEF Running
  <2> QED BY <1>5, <2>1, <2>2, <2>3, <2>4 DEF PlacesOK, EndOf
<1>12. CountsOK'
  <2>1. \A d \in Cpus : ~At(d, "last")'  BY <1>3, <1>4, <1>10 DEF At, EndOf
  <2>2. ~At(lock, "cleanup")'
    BY <1>1, <1>2, <1>3, <1>4, <1>10 DEF At, EndOf, IInv, TypeOK, LockOK, Running
  <2> QED BY <1>1, <1>2, <1>4, <1>5, <2>1, <2>2 DEF IInv, CountsOK, Running
<1>13. TurnsOK'  BY <1>5 DEF TurnsOK
<1> QED BY <1>4, <1>6, <1>9, <1>11, <1>12, <1>13 DEF IInv

\* On the way out: from the end of the callbacks to the last increment or clean-up.
LEMMA WaitEndInv ==
  ASSUME IInv, NEW c \in Cpus, WaitDone(c) \/ WaitCaller(c)
  PROVE  IInv'
<1> DEFINE l == IF At(c, "waitDone") THEN "read" ELSE "cleanup"
<1>1. /\ lock' = lock /\ armed' = armed /\ flags' = flags /\ ff' = ff /\ status' = status
      /\ fIn' = fIn /\ cEntered' = cEntered /\ cDone' = cDone /\ cReturned' = cReturned
      /\ evtDone' = evtDone /\ calls' = calls /\ told' = told
      /\ enterAll' = enterAll /\ enterOrd' = enterOrd /\ enterOne' = enterOne
      /\ evtCaller' \in BOOLEAN /\ (evtCaller' => evtCaller)
      /\ emt[c].pc \in {"waitDone", "waitCaller"}
      /\ l = "read" => evtDone
      /\ l = "cleanup" => evtCaller /\ ~evtCaller'
      /\ Goto(c, l)
  <2>1. evtCaller \in BOOLEAN  BY DEF IInv, TypeOK
  <2>2. CASE WaitDone(c)
    <3>1. emt[c].pc = "waitDone" /\ l = "read"  BY <2>2 DEF WaitDone, At
    <3>2. evtCaller' = evtCaller  BY <2>2 DEF WaitDone, Events
    <3> QED BY <2>1, <2>2, <3>1, <3>2 DEF WaitDone, Shared, Counters, Events
  <2>3. CASE WaitCaller(c)
    <3>1. emt[c].pc = "waitCaller" /\ l = "cleanup"  BY <2>3 DEF WaitCaller, At
    <3> QED BY <2>1, <2>3, <3>1 DEF WaitCaller, Shared, Counters
  <2> QED BY <2>2, <2>3
<1>2. l \in {"read", "cleanup"} /\ (l = "read" <=> emt[c].pc = "waitDone")  BY DEF At
<1> HIDE DEF l
<1>3. Leaving /\ armed
  <2>1. Coming \/ Running \/ Leaving  BY <1>1, StageOf
  <2>2. Coming => ~evtDone /\ ~evtCaller  BY DEF IInv, StagesOK, Fresh
  <2>3. Running => ~evtDone /\ ~evtCaller  BY DEF Running, IInv, CountsOK
  <2> QED BY <1>1, <1>2, <2>1, <2>2, <2>3 DEF Leaving
<1>4. /\ LockOK' /\ LocalsOK' /\ Inside' = Inside
      /\ emt' \in [Cpus -> EmtType]
      /\ emt'[c].pc = l /\ \A d \in Cpus \ {c} : emt'[d] = emt[d]
      /\ \A d \in Cpus : /\ emt'[d].caller = emt[d].caller /\ EndOf(d)' = EndOf(d)
                         /\ WaitFor(d)' = WaitFor(d)
      /\ (Calling' <=> Calling) /\ (Coming' <=> Coming)
  <2>1. l \in Entered \ {"last", "merge", "cas", "return"} /\ emt[c].pc \in Entered
    BY <1>1, <1>2 DEF Entered
  <2>2. UNCHANGED <<Shared, ff, status, fIn>>  BY <1>1 DEF Shared
  <2> QED BY <1>1, <2>1, <2>2, InsideStep
<1>5. ~Running' /\ Leaving' /\ ~Calling' /\ ~Coming'
  BY <1>1, <1>3, <1>4 DEF Running, Leaving, Coming
<1>6. emt[c].pc = EndOf(c)
  BY <1>1, <1>3 DEF IInv, PlacesOK, Outside
<1>7. TypeOK'  BY <1>1, <1>4 DEF IInv, TypeOK
<1>8. StagesOK'  BY <1>1, <1>3, <1>5 DEF IInv, StagesOK, NoSignals
<1>9. PlacesOK'
  <2>1. emt'[c].pc \in IF emt'[c].caller THEN {"cleanup"} ELSE {"read", "return"}
    BY <1>1, <1>2, <1>4, <1>6 DEF EndOf
  <2>2. \A d \in Cpus \ {c} : emt'[d].pc \in Outside \cup {EndOf(d)}
                \cup IF emt'[d].caller THEN {"cleanup"} ELSE {"read", "return"}
    BY <1>3, <1>4 DEF IInv, PlacesOK
  <2>3. \A d \in Cpus : EndOf(d)' = EndOf(d)  BY <1>4
  <2> QED BY <1>1, <1>3, <1>5, <2>1, <2>2, <2>3 DEF PlacesOK
<1>10. CountsOK'
  <2>1. \A d \in Cpus : At(d, "last")' => At(d, "last")  BY <1>2, <1>4 DEF At
  <2>2. At(lock, "cleanup")' => l = "cleanup" \/ At(lock, "cleanup")
    BY <1>1, <1>3, <1>4 DEF At, IInv, TypeOK, LockOK
  <2> QED BY <1>1, <1>3, <1>4, <1>5, <2>1, <2>2 DEF IInv, CountsOK
<1>11. TurnsOK'  BY <1>5 DEF TurnsOK
<1> QED BY <1>4, <1>7, <1>8, <1>9, <1>10, <1>11 DEF IInv

\* The status is read while nobody can clear it.
LEMMA ReturnReadInv ==
  ASSUME IInv, NEW c \in Cpus, ReturnRead(c)
  PROVE  IInv'
<1> DEFINE res == IF Failed(status) THEN 0 ELSE status
           r == [emt[c] EXCEPT !.pc = "return", !.rc = res]
<1>0. emt \in [Cpus -> EmtType] /\ res \in Results  BY ResultFacts DEF IInv, TypeOK
<1>1. /\ lock' = lock /\ armed' = armed /\ flags' = flags /\ ff' = ff /\ status' = status
      /\ fIn' = fIn /\ cEntered' = cEntered /\ cDone' = cDone /\ cReturned' = cReturned
      /\ evtDone' = evtDone /\ calls' = calls /\ told' = told /\ evtCaller' = evtCaller
      /\ enterAll' = enterAll /\ enterOrd' = enterOrd /\ enterOne' = enterOne
      /\ emt[c].pc = "read" /\ emt' = [emt EXCEPT ![c] = r]
  BY <1>0 DEF ReturnRead, At, Shared, Counters, Events
<1>2. r \in EmtType /\ r.pc = "return" /\ r.rc = res /\ r.caller = emt[c].caller /\ r.fl = emt[c].fl
  BY <1>0 DEF EmtType, Pcs, Entered
<1> HIDE DEF r
<1>3. /\ emt'[c] = r /\ \A d \in Cpus \ {c} : emt'[d] = emt[d]
      /\ emt' \in [Cpus -> EmtType]
  BY <1>0, <1>1, <1>2
<1>4. Leaving /\ emt[c].fl \in Requests /\ emt[c].fl = flags /\ ~emt[c].caller
  <2>1. Leaving /\ emt[c].fl \in Requests /\ emt[c].fl = flags
    BY <1>1, StageOf DEF Entered
  <2>2. ~emt[c].caller  BY <1>1, <2>1 DEF IInv, PlacesOK, EndOf, Outside
  <2> QED BY <2>1, <2>2
<1>5. lock # c /\ lock \in Cpus
  BY <1>1, <1>4 DEF IInv, LockOK, Holds, TypeOK, Leaving
<1>6. ~Running' /\ Leaving' /\ ~Calling' /\ ~Coming'
  BY <1>1, <1>3, <1>4, <1>5 DEF Running, Leaving, Coming, Calling, At
<1>7. TypeOK'  BY <1>1, <1>3 DEF IInv, TypeOK
<1>8. LockOK'
  <2>1. \A d \in Cpus : Holds(d)' <=> Holds(d)
    BY <1>1, <1>2, <1>3 DEF Holds, Entered, Turning
  <2> QED BY <1>1, <1>3, <1>5, <2>1 DEF IInv, LockOK, At
<1>9. LocalsOK'
  <2>1. LocalOK(c)'
    BY <1>1, <1>2, <1>3, <1>4 DEF IInv, LocalsOK, LocalOK, At
  <2>2. ASSUME NEW d \in Cpus \ {c} PROVE LocalOK(d)'
    BY <1>1, <1>3 DEF IInv, LocalsOK, LocalOK, At
  <2> QED BY <2>1, <2>2 DEF LocalsOK
<1>10. StagesOK'  BY <1>1, <1>4, <1>6 DEF IInv, StagesOK, NoSignals
<1>11. PlacesOK'
  <2>1. \A d \in Cpus : EndOf(d)' = EndOf(d)  BY <1>2, <1>3 DEF EndOf
  <2>2. emt'[c].pc = "return" /\ ~emt'[c].caller  BY <1>2, <1>3, <1>4
  <2>3. \A d \in Cpus \ {c} : emt'[d].pc \in Outside \cup {EndOf(d)}
                \cup IF emt'[d].caller THEN {"cleanup"} ELSE {"read", "return"}
    BY <1>3, <1>4 DEF IInv, PlacesOK
  <2> QED BY <1>1, <1>4, <1>6, <2>1, <2>2, <2>3 DEF PlacesOK, Leaving
<1>12. CountsOK'
  <2>1. \A d \in Cpus : At(d, "last")' => At(d, "last")  BY <1>2, <1>3 DEF At
  <2>2. At(lock, "cleanup")' => At(lock, "cleanup")  BY <1>1, <1>3, <1>5 DEF At
  <2>3. Inside' = Inside  BY <1>1, <1>2, <1>3 DEF Inside, Entered
  <2> QED BY <1>1, <1>4, <1>6, <2>1, <2>2, <2>3 DEF IInv, CountsOK
<1>13. TurnsOK'  BY <1>6 DEF TurnsOK
<1> QED BY <1>7, <1>8, <1>9, <1>10, <1>11, <1>12, <1>13 DEF IInv

\* The caller is there as long as anybody else is.
LEMMA CallerIsInside ==
  ASSUME IInv, Leaving
  PROVE  /\ lock \in Cpus /\ emt[lock].pc \in {"waitCaller", "cleanup"} /\ emt[lock].caller
         /\ lock \in Inside
         /\ cReturned \in Nat /\ cCpus = Cardinality(Inside) + cReturned
<1>1. lock \in Cpus /\ ~At(lock, "slate") /\ ~At(lock, "raise") /\ Holds(lock)
  BY DEF IInv, LockOK, Leaving, Calling, TypeOK
<1>2. emt[lock].caller /\ emt[lock].pc \in {"enter"} \cup Entered
  BY <1>1 DEF Holds, At
<1>3. emt[lock].pc \in Outside \cup {EndOf(lock)} \cup {"cleanup"}
  BY <1>1, <1>2 DEF IInv, PlacesOK
<1>4. emt[lock].pc \in {"waitCaller", "cleanup"}
  BY <1>2, <1>3 DEF EndOf, Outside, Entered, Turning
<1>5. lock \in Inside  BY <1>1, <1>4 DEF Inside, Entered
<1>6. cReturned \in Nat /\ cCpus = Cardinality(Inside) + cReturned
  BY DEF IInv, TypeOK, StagesOK, CountsOK, Leaving
<1> QED BY <1>1, <1>2, <1>4, <1>5, <1>6

\* An EMT other than the caller goes: the counter lets the caller go after the last one.
LEMMA ReturnInv ==
  ASSUME IInv, NEW c \in Cpus, Return(c)
  PROVE  IInv'
<1>1. /\ lock' = lock /\ armed' = armed /\ flags' = flags /\ ff' = ff /\ status' = status
      /\ fIn' = fIn /\ cEntered' = cEntered /\ cDone' = cDone /\ cReturned' = cReturned + 1
      /\ evtDone' = evtDone /\ calls' = calls /\ told' = [told EXCEPT ![c] = emt[c].rc]
      /\ evtCaller' = (evtCaller \/ cReturned + 1 = cCpus - 1)
      /\ enterAll' = enterAll /\ enterOrd' = enterOrd /\ enterOne' = enterOne
      /\ emt[c].pc = "return"
  BY DEF Return, At, Shared, AllOthers
<1>2. /\ emt' \in [Cpus -> EmtType] /\ emt'[c].pc = "leave"
      /\ \A d \in Cpus \ {c} : emt'[d] = emt[d]
  BY Gone DEF Return, IInv, Pcs
<1>3. Leaving /\ emt[c].fl = flags /\ ~emt[c].caller
  <2>1. Leaving /\ emt[c].fl = flags  BY <1>1, StageOf DEF Entered
  <2>2. ~emt[c].caller  BY <1>1, <2>1 DEF IInv, PlacesOK, EndOf, Outside
  <2> QED BY <2>1, <2>2
<1>4. lock # c /\ lock \in Cpus /\ emt[lock].pc \in {"waitCaller", "cleanup"}
      /\ cReturned \in Nat /\ cCpus = Cardinality(Inside) + cReturned /\ lock \in Inside
  BY <1>1, <1>3, CallerIsInside
<1>5. c \in Inside /\ Inside' = Inside \ {c}
  BY <1>1, <1>2 DEF Inside, Entered, Turning
<1>6. Cardinality(Inside') = Cardinality(Inside) - 1 /\ Cardinality(Inside') > 0
      /\ Cardinality(Inside) \in Nat
  <2>1. Cardinality(Inside') = Cardinality(Inside) - 1 /\ Cardinality(Inside) \in Nat
    BY <1>5, InsideFacts, CountLess, CountOf
  <2>2. Cardinality(Inside') # 0 /\ Cardinality(Inside') \in Nat
    BY <1>4, <1>5, InsideFacts, CountOf
  <2> QED BY <2>1, <2>2
<1>7. cReturned + 1 < cCpus /\ ~evtCaller /\ emt[lock].pc = "waitCaller"
  <2>1. cReturned + 1 < cCpus  BY <1>4, <1>6, CpuFacts
  <2>2. ~(evtCaller \/ At(lock, "cleanup"))  BY <1>3, <2>1, <1>4, CpuFacts DEF IInv, CountsOK
  <2> QED BY <1>4, <2>1, <2>2 DEF At
<1>8. ~Running' /\ Leaving' /\ ~Calling' /\ ~Coming'
  BY <1>1, <1>2, <1>3, <1>4 DEF Running, Leaving, Coming, Calling, At
<1>9. TypeOK'
  <2>1. told' \in [Cpus -> Results] /\ evtCaller' \in BOOLEAN
    BY <1>1 DEF IInv, TypeOK, EmtType
  <2>2. cReturned + 1 \in 0 .. cCpus  BY <1>4, <1>7, CpuFacts
  <2> QED BY <1>1, <1>2, <2>1, <2>2 DEF IInv, TypeOK
<1>10. LockOK'
  <2>1. \A d \in Cpus : Holds(d)' <=> Holds(d)
    BY <1>1, <1>2, <1>3 DEF Holds, Entered, Turning
  <2> QED BY <1>1, <1>2, <1>4, <2>1 DEF IInv, LockOK, At
<1>11. LocalsOK'
  <2>1. LocalOK(c)'
    BY <1>1, <1>2 DEF IInv, LocalsOK, LocalOK, At, Entered, Turning
  <2>2. ASSUME NEW d \in Cpus \ {c} PROVE LocalOK(d)'
    BY <1>1, <1>2 DEF IInv, LocalsOK, LocalOK, At
  <2> QED BY <2>1, <2>2 DEF LocalsOK
<1>12. StagesOK'  BY <1>1, <1>3, <1>8 DEF IInv, StagesOK, NoSignals
<1>13. PlacesOK'
  <2>1. \A d \in Cpus \ {c} : emt'[d].pc \in Outside \cup {EndOf(d)'}
                \cup IF emt'[d].caller THEN {"cleanup"} ELSE {"read", "return"}
    BY <1>2, <1>3 DEF IInv, PlacesOK, EndOf
  <2> QED BY <1>1, <1>2, <1>3, <1>8, <2>1 DEF PlacesOK, Leaving, Outside
<1>14. CountsOK'
  <2>1. \A d \in Cpus : At(d, "last")' => At(d, "last")  BY <1>2 DEF At
  <2>2. cEntered' = Cardinality(Inside') + cReturned'
    BY <1>1, <1>3, <1>4, <1>6, CpuFacts DEF IInv, StagesOK
  <2>3. ~At(lock, "cleanup")'  BY <1>1, <1>2, <1>4, <1>7 DEF At
  <2>4. evtCaller' => cReturned' = cCpus - 1  BY <1>1, <1>7
  <2> QED BY <1>1, <1>3, <1>8, <2>1, <2>2, <2>3, <2>4 DEF IInv, CountsOK
<1>15. TurnsOK'  BY <1>8 DEF TurnsOK
<1> QED BY <1>9, <1>10, <1>11, <1>12, <1>13, <1>14, <1>15 DEF IInv

\* The caller is the last to go, and leaves nobody behind.
LEMMA AloneAtCleanup ==
  ASSUME IInv, NEW c \in Cpus, At(c, "cleanup")
  PROVE  /\ Leaving /\ lock = c
         /\ \A d \in Cpus \ {c} : emt[d].pc \in Outside
<1>1. Leaving  BY StageOf DEF At
<1>2. emt[c].caller  BY <1>1 DEF At, IInv, PlacesOK, EndOf, Outside
<1>3. lock = c  BY <1>2 DEF At, IInv, LockOK, Holds, Entered
<1>4. cReturned = cCpus - 1  BY <1>1, <1>3 DEF IInv, CountsOK
<1>5. Cardinality(Inside) = 1
  BY <1>1, <1>4, CallerIsInside, InsideFacts, CountOf, CpuFacts
<1>6. c \in Inside  BY DEF At, Inside, Entered
<1>7. \A d \in Inside : d = c
  <2>1. PICK x : Inside = {x}  BY <1>5, InsideFacts, CountOf, FS_Singleton
  <2> QED BY <1>6, <2>1
<1>8. \A d \in Cpus \ {c} : emt[d].pc \notin Entered  BY <1>7 DEF Inside
<1>9. \A d \in Cpus \ {c} : emt[d].pc \in Outside
  BY <1>1, <1>8 DEF IInv, PlacesOK, EndOf, Entered
<1> QED BY <1>1, <1>3, <1>9

LEMMA CleanupInv ==
  ASSUME IInv, NEW c \in Cpus, Cleanup(c)
  PROVE  IInv'
<1>1. /\ lock' = NoCpu /\ armed' = FALSE /\ flags' = flags /\ ff' = ff /\ status' = status
      /\ fIn' = fIn /\ cEntered' = cEntered /\ cDone' = cDone /\ cReturned' = cReturned
      /\ evtDone' = evtDone /\ calls' = calls /\ told' = [told EXCEPT ![c] = status]
      /\ evtCaller' = evtCaller
      /\ enterAll' = enterAll /\ enterOrd' = enterOrd /\ enterOne' = enterOne
      /\ emt[c].pc = "cleanup"
  BY DEF Cleanup, At, Counters, Events
<1>2. /\ emt' \in [Cpus -> EmtType] /\ emt'[c].pc = "leave"
      /\ \A d \in Cpus \ {c} : emt'[d] = emt[d]
  BY Gone DEF Cleanup, IInv, Pcs
<1>3. Leaving /\ \A d \in Cpus \ {c} : emt[d].pc \in Outside
  BY <1>1, AloneAtCleanup DEF At
<1>4. \A d \in Cpus : emt'[d].pc \in Outside  BY <1>2, <1>3 DEF Outside
<1>5. ~Running' /\ ~Leaving' /\ ~Calling' /\ ~Coming' /\ ~ff'
  BY <1>1, <1>3 DEF Running, Leaving, Coming, Calling
<1>6. TypeOK'
  <2>1. told' \in [Cpus -> Results]  BY <1>1 DEF IInv, TypeOK
  <2> QED BY <1>1, <1>2, <2>1 DEF IInv, TypeOK
<1>7. LockOK'
  BY <1>1, <1>4, CpuFacts DEF LockOK, Holds, Outside, Entered, Turning
<1>8. LocalsOK'
  <2>1. LocalOK(c)'
    BY <1>1, <1>2 DEF IInv, LocalsOK, LocalOK, At, Entered, Turning
  <2>2. ASSUME NEW d \in Cpus \ {c} PROVE LocalOK(d)'
    BY <1>1, <1>2 DEF IInv, LocalsOK, LocalOK, At
  <2> QED BY <2>1, <2>2 DEF LocalsOK
<1>9. StagesOK' /\ TurnsOK'  BY <1>1, <1>5 DEF StagesOK, TurnsOK
<1>10. PlacesOK'  BY <1>4, <1>5 DEF PlacesOK
<1>11. CountsOK'
  <2>1. \A d \in Cpus : ~At(d, "last")'  BY <1>4 DEF At, Outside
  <2> QED BY <1>1, <1>5, <2>1 DEF CountsOK
<1> QED BY <1>6, <1>7, <1>8, <1>9, <1>10, <1>11 DEF IInv

LEMMA LeaveInv ==
  ASSUME IInv, NEW c \in Cpus, Leave(c)
  PROVE  IInv'
<1> DEFINE next == IF emt[c].want # NoFlags THEN "spin" ELSE "idle"
           r == [Home EXCEPT !.want = emt[c].want, !.pc = next]
<1>0. emt \in [Cpus -> EmtType] /\ calls \in 0 .. MaxCalls /\ fIn \in [Cpus -> BOOLEAN]
  BY DEF IInv, TypeOK
<1>1. emt' = [emt EXCEPT ![c] = r] /\ emt[c].pc = "leave"  BY DEF Leave, At
<1>2. r \in EmtType /\ r.pc = next /\ r.want = emt[c].want
  BY <1>0, ResultFacts DEF Home, EmtType, Pcs
<1>3. next \in {"spin", "idle"} /\ (next = "spin" => emt[c].want # NoFlags)  OBVIOUS
<1> HIDE DEF r, next
<1>4. fIn' \in [Cpus -> BOOLEAN] /\ ~fIn'[c] /\ \A d \in Cpus \ {c} : fIn'[d] = fIn[d]
  BY <1>0 DEF Leave
<1>5. calls' = calls /\ UNCHANGED <<Shared, ff, status, Counters, Events, told>>
  BY DEF Leave
<1> QED BY <1>0, <1>1, <1>2, <1>3, <1>4, <1>5, OutsideStep DEF Outside

LEMMA CallInv ==
  ASSUME IInv, NEW c \in Cpus, NEW fl \in Requests, VMMR3EmtRendezvous(c, fl)
  PROVE  IInv'
<1>0. emt \in [Cpus -> EmtType] /\ calls \in 0 .. MaxCalls /\ fIn \in [Cpus -> BOOLEAN]
  BY DEF IInv, TypeOK
<1>1. calls' \in 0 .. MaxCalls  BY <1>0, BoundAssumption DEF VMMR3EmtRendezvous
<1>2. CASE lock = NoCpu
  <2>1. UNCHANGED <<ff, armed, flags, status, Counters, Events, fIn, told>>
    BY DEF VMMR3EmtRendezvous
  <2> QED BY <1>1, <1>2, <2>1, LockIsTaken DEF VMMR3EmtRendezvous, At
<1>3. CASE lock # NoCpu
  <2> DEFINE r == [Home EXCEPT !.pc = "spin", !.want = fl]
  <2>1. emt' = [emt EXCEPT ![c] = r] /\ emt[c].pc = "idle" /\ lock' = lock
    BY <1>3 DEF VMMR3EmtRendezvous, At
  <2>2. r \in EmtType /\ r.pc = "spin" /\ r.want = fl
    BY ResultFacts DEF Home, EmtType, Pcs
  <2> HIDE DEF r
  <2>3. fl # NoFlags  BY RequestFacts
  <2>4. fIn' = fIn /\ ~fIn[c]  BY <2>1 DEF VMMR3EmtRendezvous, IInv, LocalsOK, LocalOK
  <2>5. UNCHANGED <<Shared, ff, status, Counters, Events, told>>
    BY <2>1 DEF VMMR3EmtRendezvous, Shared
  <2> QED BY <1>0, <1>1, <2>1, <2>2, <2>3, <2>4, <2>5, OutsideStep DEF Outside
<1> QED BY <1>2, <1>3

LEMMA SpinLockInv ==
  ASSUME IInv, NEW c \in Cpus, SpinLock(c)
  PROVE  IInv'
<1>1. emt[c].want \in Requests /\ calls' \in 0 .. MaxCalls
  BY DEF SpinLock, TryLock, At, IInv, TypeOK, EmtType, LocalsOK, LocalOK
<1>2. UNCHANGED <<ff, armed, flags, status, Counters, Events, fIn, told>>
  BY DEF SpinLock
<1> QED BY <1>1, <1>2, LockIsTaken DEF SpinLock, TryLock, At

LEMMA DoneInv ==
  ASSUME IInv, NEW c \in Cpus, Done(c)
  PROVE  IInv'
BY DoneNotOver, DoneOver

LEMMA StepInv ==
  ASSUME IInv, [Next]_vars
  PROVE  IInv'
<1>1. ASSUME NEW c \in Cpus, Step(c) PROVE IInv'
  BY <1>1, SpinLockInv, ClearSlateInv, RaiseInv, FFInv, EnterInv, LastInv, WaitTurnInv,
     CallbackInv, DoneInv, WaitEndInv, ReturnReadInv, ReturnInv, CleanupInv, LeaveInv DEF Step
<1>2. ASSUME NEW c \in Cpus, NEW fl \in Requests, VMMR3EmtRendezvous(c, fl) PROVE IInv'
  BY <1>2, CallInv
<1>3. CASE UNCHANGED vars
  <2>1. /\ lock' = lock /\ armed' = armed /\ flags' = flags /\ ff' = ff /\ status' = status
        /\ cEntered' = cEntered /\ cDone' = cDone /\ cReturned' = cReturned
        /\ enterOne' = enterOne /\ enterAll' = enterAll /\ enterOrd' = enterOrd
        /\ evtDone' = evtDone /\ evtCaller' = evtCaller
        /\ fIn' = fIn /\ emt' = emt /\ told' = told /\ calls' = calls
    BY <1>3 DEF vars, Shared, Counters, Events
  <2>2. TypeOK'  BY <2>1 DEF IInv, TypeOK
  <2>3. LockOK' /\ LocalsOK'  BY <2>1 DEF IInv, LockOK, LocalsOK, LocalOK, Holds, At
  <2>4. (Calling' <=> Calling) /\ (Coming' <=> Coming) /\ (Running' <=> Running) /\ (Leaving' <=> Leaving)
    BY <2>1 DEF Calling, Coming, Running, Leaving, At
  <2>5. StagesOK'  BY <2>1, <2>4 DEF IInv, StagesOK, Fresh, NoSignals
  <2>6. PlacesOK'
    <3>1. \A d \in Cpus : WaitFor(d)' = WaitFor(d) /\ EndOf(d)' = EndOf(d)
      BY <2>1 DEF WaitFor, EndOf
    <3> QED BY <2>1, <2>4, <3>1 DEF IInv, PlacesOK
  <2>7. CountsOK'  BY <2>1, <2>4 DEF IInv, CountsOK, Inside, Finished, At
  <2>8. TurnsOK'  BY <2>1, <2>4 DEF IInv, TurnsOK, EndOf, Rank, At
  <2> QED BY <2>2, <2>3, <2>5, <2>6, <2>7, <2>8 DEF IInv
<1> QED BY <1>1, <1>2, <1>3 DEF Next

\* The inductive invariant holds in every behaviour, for every number of CPUs.
THEOREM Inductive == Spec => []IInv
BY InitInv, StepInv, PTL DEF Spec

-----------------------------------------------------------------------------
(* The invariants. *)

\* Every variable has its type: the counters never pass the number of CPUs.
THEOREM TypeCorrect == Spec => []TypeOK
<1>1. IInv => TypeOK  BY DEF IInv
<1> QED BY <1>1, Inductive, PTL

\* One rendezvous never meets what is left of another.
THEOREM RendezvousKeptApart == Spec => []KeptApart
<1>1. ASSUME IInv PROVE CountersMatch
  <2>1. armed => cEntered = Cardinality(Inside) + cReturned  BY <1>1 DEF IInv, CountsOK
  <2>2. \A c \in Cpus : At(c, "slate") => ~armed  BY <1>1, StageOf DEF At
  <2>3. \A c \in Cpus : emt[c].pc \in {"enter"} \cup Entered => fIn[c] /\ emt[c].fl = flags
    BY <1>1 DEF IInv, LocalsOK, LocalOK, Entered, Turning
  <2> QED BY <2>1, <2>2, <2>3 DEF CountersMatch, Inside, At
<1>2. ASSUME IInv PROVE AssertionsHold
  <2> SUFFICES ASSUME NEW c \in Cpus
               PROVE  /\ At(c, "slate") => ~ff /\ ~fIn[c]
                      /\ emt[c].pc \in {"idle", "spin"} => ~fIn[c]
                      /\ At(c, "done") /\ emt[c].fl.type = "ASCENDING" => cDone = c
                      /\ At(c, "done") /\ emt[c].fl.type = "DESCENDING" => cDone = cCpus - 1 - c
    BY DEF AssertionsHold
  <2>1. At(c, "slate") => ~ff  BY <1>2, StageOf DEF At
  <2>2. emt[c].pc \in {"idle", "spin", "slate"} => ~fIn[c]
    BY <1>2 DEF IInv, LocalsOK, LocalOK
  <2>3. ASSUME At(c, "done"), emt[c].fl.type \in Ordered PROVE cDone = Rank(c) /\ emt[c].fl = flags
    <3>1. Running /\ flags \in Requests /\ emt[c].fl = flags  BY <1>2, <2>3, DoneFacts
    <3> QED BY <1>2, <2>3, <3>1, TheNext DEF At, Turning
  <2>4. At(c, "done") /\ emt[c].fl.type = "ASCENDING" => cDone = c
    BY <2>3 DEF Ordered, Rank
  <2>5. At(c, "done") /\ emt[c].fl.type = "DESCENDING" => cDone = cCpus - 1 - c
    BY <2>3 DEF Ordered, Rank
  <2> QED BY <2>1, <2>2, <2>4, <2>5 DEF At
<1> QED BY <1>1, <1>2, Inductive, PTL DEF KeptApart

\* Where one EMT runs at a time, exactly one has the turn or was given it.
THEOREM TurnsAreHandedOn == Spec => []OneTurn
<1> DEFINE sig == (IF enterOne THEN 1 ELSE 0) + Cardinality({c \in Cpus : enterOrd[c]})
           alone == armed /\ flags.type \notin {"ALL_AT_ONCE", "ONCE"} /\ cEntered = cCpus /\ cDone < cCpus
           turns == {c \in Cpus : emt[c].pc \in Turning \cup {"last"}}
<1>1. ASSUME IInv, NoSignals PROVE sig = 0
  <2>1. {c \in Cpus : enterOrd[c]} = {} /\ ~enterOne  BY <1>1 DEF NoSignals
  <2> QED BY <2>1, FS_EmptySet
<1>2. ASSUME IInv, Calling \/ Coming \/ Leaving PROVE sig = 0
  BY <1>1, <1>2 DEF IInv, StagesOK, Fresh
<1>3. ASSUME IInv, Running PROVE IF alone THEN Cardinality(turns) + sig = 1 ELSE sig = 0
  <2>1. cEntered = cCpus /\ cDone < cCpus /\ armed /\ cDone \in Int
    BY <1>3 DEF IInv, StagesOK, CountsOK, Running, TypeOK
  <2>2. flags \in Requests /\ \A c \in Cpus : emt[c].pc # "last"
    <3>1. \A c \in Cpus : emt[c].pc \in Entered /\ emt[c].pc # "last"
      BY <1>3, StageOf DEF Running, Coming, IInv, PlacesOK
    <3>2. 0 \in Cpus  BY CpusAssumption DEF Cpus
    <3> QED BY <1>3, <3>1, <3>2, StageOf
  <2>3. turns = {c \in Cpus : emt[c].pc \in Turning}  BY <2>2
  <2>4. CASE flags.type \in {"ALL_AT_ONCE", "ONCE"}
    <3>1. NoSignals  BY <1>3, <2>4 DEF IInv, TurnsOK, Ordered, NoSignals
    <3> QED BY <1>1, <1>3, <2>4, <3>1
  <2>5. CASE flags.type = "ONE_BY_ONE"
    <3>1. {c \in Cpus : enterOrd[c]} = {}  BY <1>3, <2>5 DEF IInv, TurnsOK, Ordered
    <3>2. sig = IF enterOne THEN 1 ELSE 0  BY <3>1, FS_EmptySet
    <3>3. CASE enterOne
      <4>1. turns = {}  BY <1>3, <2>3, <2>5, <3>3 DEF IInv, TurnsOK
      <4>2. Cardinality(turns) = 0  BY <4>1, FS_EmptySet
      <4> QED BY <2>1, <2>5, <3>2, <3>3, <4>2
    <3>4. CASE ~enterOne
      <4>1. PICK c \in Cpus : emt[c].pc \in Turning  BY <1>3, <2>5, <3>4 DEF IInv, TurnsOK
      <4>2. \A d \in turns : d = c  BY <1>3, <2>3, <2>5, <4>1 DEF IInv, TurnsOK
      <4>3. Cardinality(turns) = 1  BY <2>3, <4>1, <4>2, CountOne
      <4> QED BY <2>1, <2>5, <3>2, <3>4, <4>3
    <3> QED BY <3>3, <3>4
  <2>6. CASE flags.type \in Ordered
    <3>1. ~enterOne  BY <1>3, <2>6 DEF IInv, TurnsOK, Ordered
    <3>2. PICK c \in Cpus : Rank(c) = cDone
      <4>1. cDone \in Cpus /\ cCpus - 1 - cDone \in Cpus
        BY <1>3, <2>1, CpuFacts DEF IInv, TypeOK, Cpus
      <4> QED BY <2>1, <4>1, CpuFacts DEF Rank
    <3>3. (emt[c].pc \in Turning /\ ~enterOrd[c]) \/ (At(c, "waitOrd") /\ enterOrd[c])
      BY <1>3, <2>6, <3>2 DEF IInv, TurnsOK
    <3>4. \A d \in Cpus \ {c} : emt[d].pc \notin Turning /\ ~enterOrd[d]
      BY <1>3, <2>2, <2>6, <3>3, TheNext
    <3>5. CASE enterOrd[c]
      <4>1. turns = {} /\ {d \in Cpus : enterOrd[d]} = {c}
        BY <2>3, <3>3, <3>4, <3>5 DEF At, Turning
      <4>2. Cardinality(turns) = 0 /\ Cardinality({d \in Cpus : enterOrd[d]}) = 1
        BY <4>1, FS_EmptySet, FS_Singleton
      <4> QED BY <2>1, <2>6, <3>1, <4>2 DEF Ordered
    <3>6. CASE ~enterOrd[c]
      <4>1. turns = {c} /\ {d \in Cpus : enterOrd[d]} = {}
        BY <2>3, <3>3, <3>4, <3>6
      <4>2. Cardinality(turns) = 1 /\ Cardinality({d \in Cpus : enterOrd[d]}) = 0
        BY <4>1, FS_EmptySet, FS_Singleton
      <4> QED BY <2>1, <2>6, <3>1, <4>2 DEF Ordered
    <3> QED BY <3>5, <3>6
  <2>7. flags.type \in AllTypes  BY <2>2, RequestFacts
  <2> QED BY <2>4, <2>5, <2>6, <2>7 DEF AllTypes, Ordered
<1>4. ASSUME IInv, alone, ~Running PROVE Cardinality(turns) = 1
  <2>1. Coming
    <3>1. ~Calling  BY <1>4, CpuFacts DEF IInv, StagesOK
    <3>2. ~Leaving  BY <1>4, CpuFacts DEF IInv, CountsOK
    <3> QED BY <1>4, <3>1, <3>2 DEF Coming, Running, Leaving
  <2>2. PICK c \in Cpus : At(c, "last")  BY <1>4, <2>1 DEF IInv, CountsOK
  <2>3. \A d \in turns : At(d, "last")
    BY <1>4, <2>1, StageOf DEF At, Coming, Running
  <2>4. \A d \in turns : d = c  BY <1>4, <2>2, <2>3 DEF IInv, CountsOK
  <2> QED BY <2>2, <2>4, CountOne DEF At
<1>5. ASSUME IInv PROVE OneTurn
  <2>1. armed => Calling \/ Coming \/ Running \/ Leaving  BY DEF Calling, Coming, Running, Leaving
  <2>2. IF alone THEN Cardinality(turns) + sig = 1 ELSE armed => sig = 0
    BY <1>2, <1>3, <1>4, <1>5, <2>1
  <2> QED BY <2>2 DEF OneTurn, Count
<1> QED BY <1>5, Inductive, PTL

-----------------------------------------------------------------------------
(* The refinement. *)

\* Where the gathering sees an EMT, whose record is e.
SeenAt(e, over, type) ==
  IF e.pc \notin Entered THEN "away"
  ELSE IF over \/ e.pc = "done" THEN "ran"
  ELSE IF e.pc \in {"callback", "merge", "cas"} THEN "running"
  ELSE IF e.pc \in {"waitDone", "waitCaller"} /\ type # "ONCE" THEN "ran" ELSE "here"

Where == [c \in Cpus |-> Place(c)]

\* No callback is at work after the end, and the end comes after all have come.
InTime ==
  /\ evtDone \in BOOLEAN /\ cEntered \in Int /\ cEntered <= cCpus
  /\ armed /\ evtDone => cEntered = cCpus
  /\ \A c \in Cpus : emt[c].pc \in Turning => ~evtDone

LEMMA IsInTime == IInv => InTime
<1> SUFFICES ASSUME IInv PROVE InTime  OBVIOUS
<1>1. armed /\ evtDone => Leaving
  BY DEF Leaving, Calling, IInv, StagesOK, Fresh, Coming
<1>2. \A c \in Cpus : emt[c].pc \in Turning => ~evtDone  BY StageOf DEF Running
<1> QED BY <1>1, <1>2, CpuFacts DEF IInv, StagesOK, TypeOK, InTime

LEMMA Seen ==
  ASSUME InTime
  PROVE  /\ Where = [c \in Cpus |-> SeenAt(emt[c], evtDone, flags.type)]
         /\ Phase = IF ~armed THEN "none" ELSE IF cEntered # cCpus THEN "gather"
                    ELSE IF evtDone THEN "leave" ELSE "run"
<1>1. ASSUME NEW c \in Cpus PROVE Place(c) = SeenAt(emt[c], evtDone, flags.type)
  BY DEF InTime, Place, SeenAt, At, Turning, Entered
<1>2. Phase = IF ~armed THEN "none" ELSE IF cEntered # cCpus THEN "gather"
              ELSE IF evtDone THEN "leave" ELSE "run"
  BY CpuFacts DEF InTime, Phase
<1> QED BY <1>1, <1>2 DEF Where

LEMMA SeenNext ==
  ASSUME InTime'
  PROVE  /\ Where' = [c \in Cpus |-> SeenAt(emt'[c], evtDone', flags'.type)]
         /\ Phase' = IF ~armed' THEN "none" ELSE IF cEntered' # cCpus THEN "gather"
                     ELSE IF evtDone' THEN "leave" ELSE "run"
<1>1. ASSUME NEW c \in Cpus PROVE Place(c)' = SeenAt(emt'[c], evtDone', flags'.type)
  BY DEF InTime, Place, SeenAt, At, Turning, Entered
<1>2. Phase' = IF ~armed' THEN "none" ELSE IF cEntered' # cCpus THEN "gather"
               ELSE IF evtDone' THEN "leave" ELSE "run"
  BY CpuFacts DEF InTime, Phase
<1> QED BY <1>1, <1>2 DEF Where

\* The gathering does not notice a step that keeps what it sees.
Unseen == Where' = Where /\ Phase' = Phase /\ flags' = flags /\ status' = status /\ told' = told

LEMMA UnseenStep ==
  ASSUME IInv, InTime, InTime', NEW c \in Cpus,
         \A d \in Cpus \ {c} : emt'[d] = emt[d],
         SeenAt(emt'[c], evtDone, flags.type) = SeenAt(emt[c], evtDone, flags.type),
         armed' = armed, cEntered' = cEntered, evtDone' = evtDone, flags' = flags,
         status' = status, told' = told
  PROVE  Unseen
<1>1. \A d \in Cpus : SeenAt(emt'[d], evtDone', flags'.type) = SeenAt(emt[d], evtDone, flags.type)
  OBVIOUS
<1>2. Where' = Where  BY <1>1, Seen, SeenNext
<1>3. Phase' = Phase  BY Seen, SeenNext
<1> QED BY <1>2, <1>3 DEF Unseen

\* What a step that moves one EMT changes for the gathering.
LEMMA OneMoves ==
  ASSUME InTime, InTime', NEW c \in Cpus, NEW p,
         \A d \in Cpus \ {c} : emt'[d] = emt[d],
         evtDone' = evtDone, flags' = flags,
         SeenAt(emt'[c], evtDone, flags.type) = p
  PROVE  Where' = [Where EXCEPT ![c] = p]
<1>1. \A d \in Cpus \ {c} : SeenAt(emt'[d], evtDone', flags'.type) = SeenAt(emt[d], evtDone, flags.type)
  OBVIOUS
<1> QED BY <1>1, Seen, SeenNext

LEMMA SlateStarts ==
  ASSUME IInv, InTime, InTime', NEW c \in Cpus, ClearSlate(c)
  PROVE  Phase = "none" /\ Phase' = "gather" /\ flags' \in Requests /\ status' = 0
         /\ Where' = Where /\ told' = told
<1>1. /\ emt'[c].pc = "raise" /\ \A d \in Cpus \ {c} : emt'[d] = emt[d]
  BY Gone DEF ClearSlate, IInv, Pcs
<1>2. /\ armed' = TRUE /\ flags' = emt[c].fl /\ status' = 0 /\ cEntered' = 0 /\ told' = told
  BY DEF ClearSlate, SlateCounters
<1>3. emt[c].pc = "slate" /\ ~armed /\ emt[c].fl \in Requests
  BY StageOf DEF ClearSlate, At, IInv, LocalsOK, LocalOK
<1>4. \A d \in Cpus : emt[d].pc \notin Entered /\ emt'[d].pc \notin Entered
  BY <1>1, <1>3 DEF IInv, PlacesOK, Outside, Entered, Turning
<1>5. \A d \in Cpus : SeenAt(emt'[d], evtDone', flags'.type) = "away"
                      /\ SeenAt(emt[d], evtDone, flags.type) = "away"
  BY <1>4 DEF SeenAt
<1>6. Where' = Where  BY <1>5, Seen, SeenNext
<1> QED BY <1>2, <1>3, <1>6, Seen, SeenNext, CpuFacts

LEMMA EnterComes ==
  ASSUME IInv, InTime, InTime', NEW c \in Cpus, Enter(c)
  PROVE  Phase = "gather" /\ Where[c] = "away" /\ Where' = [Where EXCEPT ![c] = "here"]
         /\ Phase' = (IF \A d \in Cpus : Where'[d] = "here" THEN "run" ELSE "gather")
         /\ flags' = flags /\ status' = status /\ told' = told
<1> DEFINE l == IF cEntered + 1 # cCpus THEN WaitFor(c) ELSE "last"
<1>1. emt[c].pc = "enter" /\ Coming /\ emt[c].fl \in Requests /\ emt[c].fl = flags /\ armed
  BY StageOf DEF Enter, At, Coming
<1>2. l \in Entered \ Turning /\ l \in Pcs
      /\ (l \in {"waitDone", "waitCaller"} => flags.type = "ONCE")
  BY <1>1, Waits DEF EndOf, Pcs, Entered, Turning
<1>3. /\ emt'[c].pc = l /\ \A d \in Cpus \ {c} : emt'[d] = emt[d]
  BY <1>2, Gone DEF IInv, Enter
<1> HIDE DEF l
<1>4. /\ armed' = armed /\ flags' = flags /\ status' = status /\ cEntered' = cEntered + 1
      /\ evtDone' = evtDone /\ told' = told
  BY DEF Enter, Shared, Events
<1>5. ~evtDone /\ cReturned = 0 /\ cEntered = Cardinality(Inside)
  BY <1>1, InsideFacts, CountOf DEF IInv, StagesOK, Fresh, CountsOK
<1>6. c \notin Inside /\ Inside' = Inside \cup {c}
  BY <1>1, <1>2, <1>3 DEF Inside, Entered, Turning
<1>7. cEntered < cCpus /\ cEntered \in Nat /\ cEntered + 1 = Cardinality(Inside')
  BY <1>5, <1>6, InsideFacts, CountMore, CountOf
<1>8. SeenAt(emt[c], evtDone, flags.type) = "away" /\ SeenAt(emt'[c], evtDone, flags.type) = "here"
  BY <1>1, <1>2, <1>3, <1>5 DEF SeenAt, Entered, Turning
<1>9. \A d \in Cpus : SeenAt(emt'[d], evtDone', flags'.type) = "here" <=> d \in Inside'
  <2>1. ASSUME NEW d \in Cpus \ {c}, emt[d].pc \in Entered
        PROVE  emt[d].pc \notin Turning /\ (emt[d].pc \in {"waitDone", "waitCaller"} => flags.type = "ONCE")
    <3>1. emt[d].fl \in Requests /\ emt[d].fl = flags /\ (emt[d].pc = "last" \/ emt[d].pc = WaitFor(d))
      BY <1>1, <2>1, StageOf DEF IInv, PlacesOK, Outside, Entered, Turning
    <3> QED BY <3>1, Waits DEF Turning, EndOf
  <2>2. \A d \in Cpus \ {c} : SeenAt(emt'[d], evtDone', flags'.type) = "here" <=> emt[d].pc \in Entered
    BY <1>3, <1>4, <1>5, <2>1 DEF SeenAt, Turning
  <2> QED BY <1>3, <1>4, <1>6, <1>8, <2>2 DEF Inside
<1>10. (\A d \in Cpus : Where'[d] = "here") <=> cEntered' = cCpus
  <2>1. (\A d \in Cpus : Where'[d] = "here") <=> Inside' = Cpus
    BY <1>9, SeenNext, InsideFacts
  <2> QED BY <1>4, <1>7, <2>1, InsideFacts, CountOf
<1>11. Where[c] = "away" /\ Where' = [Where EXCEPT ![c] = "here"]
  BY <1>3, <1>4, <1>8, Seen, OneMoves
<1>12. Phase = "gather"  BY <1>1, <1>7, Seen, CpuFacts
<1>13. Phase' = IF cEntered' # cCpus THEN "gather" ELSE "run"
  BY <1>1, <1>4, <1>5, SeenNext
<1> QED BY <1>4, <1>10, <1>11, <1>12, <1>13

\* The turn is the one that the type asks for.
LEMMA TurnIsRight ==
  ASSUME IInv, InTime, NEW c \in Cpus, At(c, "turn")
  PROVE  /\ Phase = "run" /\ Where[c] = "here" /\ emt[c].fl = flags
         /\ flags.type # "ALL_AT_ONCE" => \A d \in Cpus : Where[d] # "running"
         /\ flags.type = "ONCE" => \A d \in Cpus : Where[d] # "ran"
         /\ flags.type \in Ordered => \A d \in Cpus : Where[d] = "ran" <=> Rank(d) < Rank(c)
<1>1. Running /\ flags \in Requests /\ emt[c].fl = flags /\ ~evtDone /\ cEntered = cCpus /\ armed
  BY StageOf DEF At, Turning, Entered, Running, IInv, StagesOK
<1>2. \A d \in Cpus : Where[d] = SeenAt(emt[d], FALSE, flags.type)
  <2>1. evtDone = FALSE  BY <1>1 DEF InTime
  <2> QED BY <2>1, Seen
<1>3. Phase = "run" /\ Where[c] = "here"
  BY <1>1, <1>2, Seen DEF At, SeenAt, Entered, Turning
<1>4. ASSUME flags.type # "ALL_AT_ONCE", NEW d \in Cpus \ {c} PROVE emt[d].pc \notin Turning
  BY <1>1, <1>4 DEF IInv, TurnsOK, At, Turning
<1>5. ASSUME flags.type # "ALL_AT_ONCE", NEW d \in Cpus PROVE Where[d] # "running"
  BY <1>2, <1>3, <1>4, <1>5 DEF SeenAt, Turning
<1>6. ASSUME flags.type = "ONCE", NEW d \in Cpus PROVE Where[d] # "ran"
  BY <1>2, <1>3, <1>4, <1>6 DEF SeenAt, Turning
<1>7. ASSUME flags.type \in Ordered, NEW d \in Cpus PROVE Where[d] = "ran" <=> Rank(d) < Rank(c)
  <2>1. Rank(c) = cDone /\ cDone \in Int  BY <1>1, <1>7, TheNext DEF At, Turning, IInv, TypeOK
  <2>2. Rank(d) \in Int /\ (Rank(d) = Rank(c) => d = c)  BY <1>1, RankFacts
  <2>3. /\ Rank(d) < cDone => emt[d].pc = EndOf(d)
        /\ Rank(d) > cDone => At(d, "waitOrd")
    BY <1>1, <1>7 DEF IInv, TurnsOK
  <2>4. Rank(d) < cDone => Where[d] = "ran"
    BY <1>2, <1>7, <2>3 DEF SeenAt, EndOf, Entered, Ordered
  <2>5. Rank(d) > cDone => Where[d] = "here"
    BY <1>2, <2>3 DEF SeenAt, At, Entered
  <2> QED BY <1>3, <2>1, <2>2, <2>4, <2>5
<1> QED BY <1>1, <1>3, <1>5, <1>6, <1>7

LEMMA RankOfRan ==
  ASSUME NEW c \in Cpus, flags.type \in Ordered
  PROVE  {d \in Cpus : Rank(d) < Rank(c)} =
           IF flags.type = "ASCENDING" THEN 0 .. c - 1 ELSE c + 1 .. cCpus - 1
BY CpuFacts DEF Rank, Cpus

LEMMA CheckRuns ==
  ASSUME IInv, InTime, InTime', NEW c \in Cpus, Check(c)
  PROVE  /\ Phase' = Phase /\ flags' = flags /\ status' = status /\ told' = told
         /\ IF flags.stop /\ Failed(status) THEN Where' = [Where EXCEPT ![c] = "ran"]
            ELSE Where' = [Where EXCEPT ![c] = "running"]
<1>1. emt[c].fl = flags /\ Running  BY StageOf DEF Check, At, Turning, Entered
<1> DEFINE l == IF flags.stop /\ Failed(status) THEN "done" ELSE "callback"
<1>2. l \in Pcs /\ Goto(c, l)  BY <1>1 DEF Check, Pcs, Entered, Turning
<1>3. emt'[c].pc = l /\ \A d \in Cpus \ {c} : emt'[d] = emt[d]
  BY <1>2, Gone DEF IInv
<1>4. /\ armed' = armed /\ flags' = flags /\ status' = status /\ cEntered' = cEntered
      /\ evtDone' = evtDone /\ told' = told
  BY DEF Check, Shared, Events, Counters
<1>5. SeenAt(emt'[c], evtDone, flags.type) = IF flags.stop /\ Failed(status) THEN "ran" ELSE "running"
  BY <1>1, <1>3 DEF SeenAt, Running, Entered, Turning
<1>6. Where' = [Where EXCEPT ![c] = IF flags.stop /\ Failed(status) THEN "ran" ELSE "running"]
  BY <1>3, <1>4, <1>5, OneMoves
<1>7. Phase' = Phase  BY <1>4, Seen, SeenNext
<1> QED BY <1>4, <1>6, <1>7

\* A callback has ended once its result is merged, or has not to be.
LEMMA CallbackFinishes ==
  ASSUME IInv, InTime, InTime', NEW c \in Cpus, Callback(c) \/ MergeRead(c) \/ MergeCas(c)
  PROVE  \/ Unseen
         \/ /\ Where[c] = "running" /\ Where' = [Where EXCEPT ![c] = "ran"]
            /\ \E rc \in Results : status' = Promise!Merge(status, rc)
            /\ Phase' = Phase /\ flags' = flags /\ told' = told
<1>0. emt \in [Cpus -> EmtType] /\ status \in Results /\ emt[c].rc \in Results
      /\ emt[c].old \in Results
  BY DEF IInv, TypeOK, EmtType
<1>1. /\ armed' = armed /\ flags' = flags /\ cEntered' = cEntered
      /\ evtDone' = evtDone /\ told' = told
      /\ \A d \in Cpus \ {c} : emt'[d] = emt[d]
      /\ emt[c].pc \in {"callback", "merge", "cas"} /\ ~evtDone
  <2>1. emt[c].pc \in {"callback", "merge", "cas"}  BY DEF Callback, MergeRead, MergeCas, At
  <2>2. ~evtDone  BY <2>1 DEF InTime, Turning
  <2>3. \A d \in Cpus \ {c} : emt'[d] = emt[d]
    BY <1>0 DEF Callback, MergeRead, MergeCas, Goto
  <2>4. armed' = armed /\ flags' = flags /\ cEntered' = cEntered /\ evtDone' = evtDone /\ told' = told
    BY DEF Callback, MergeRead, MergeCas, Shared, Counters, Events
  <2> QED BY <2>1, <2>2, <2>3, <2>4
<1>2. SeenAt(emt[c], evtDone, flags.type) = "running" /\ Where[c] = "running"
  <2>1. SeenAt(emt[c], evtDone, flags.type) = "running"
    BY <1>1 DEF SeenAt, Entered, Turning
  <2> QED BY <2>1, Seen
<1>3. ASSUME emt'[c].pc \in {"callback", "merge", "cas"}, status' = status PROVE Unseen
  <2>1. SeenAt(emt'[c], evtDone, flags.type) = "running"
    BY <1>1, <1>3 DEF SeenAt, Entered, Turning
  <2> QED BY <1>1, <1>2, <1>3, <2>1, UnseenStep
<1>4. ASSUME emt'[c].pc = "done" PROVE Where' = [Where EXCEPT ![c] = "ran"] /\ Phase' = Phase
  <2>1. SeenAt(emt'[c], evtDone, flags.type) = "ran"  BY <1>4 DEF SeenAt, Entered, Turning
  <2>2. Where' = [Where EXCEPT ![c] = "ran"]  BY <1>1, <2>1, OneMoves
  <2>3. Phase' = Phase  BY <1>1, Seen, SeenNext
  <2> QED BY <2>2, <2>3
<1>5. CASE Callback(c)
  <2>1. status' = status  BY <1>5 DEF Callback
  <2>2. emt'[c].pc \in {"merge", "done"}  BY <1>0, <1>5 DEF Callback, EmtType
  <2>3. status' = Promise!Merge(status, 0)  BY <2>1 DEF Promise!Merge
  <2> QED BY <1>1, <1>2, <1>3, <1>4, <2>1, <2>2, <2>3, ResultFacts
<1>6. CASE MergeRead(c)
  <2>1. status' = status  BY <1>6 DEF MergeRead
  <2>2. emt'[c].pc = IF Keeps(emt[c].rc) THEN "done" ELSE "cas"
    BY <1>0, <1>6 DEF MergeRead, EmtType
  <2>3. Keeps(emt[c].rc) => status' = Promise!Merge(status, emt[c].rc)
    BY <2>1 DEF Keeps, Failed, Promise!Merge, Promise!Failed
  <2> QED BY <1>0, <1>1, <1>2, <1>3, <1>4, <2>1, <2>2, <2>3
<1>7. CASE MergeCas(c)
  <2>1. /\ emt'[c].pc = IF status = emt[c].old THEN "done" ELSE "merge"
        /\ status' = IF status = emt[c].old THEN emt[c].rc ELSE status
    BY <1>0, <1>7 DEF MergeCas, Goto, EmtType
  <2>2. ~NotToMerge(emt[c].rc, emt[c].old) /\ emt[c].rc # 0
    BY <1>7 DEF MergeCas, IInv, LocalsOK, LocalOK
  <2>3. status = emt[c].old => status' = Promise!Merge(status, emt[c].rc)
    BY <2>1, <2>2 DEF NotToMerge, Failed, Promise!Merge, Promise!Failed
  <2> QED BY <1>0, <1>1, <1>2, <1>3, <1>4, <2>1, <2>3
<1> QED BY <1>5, <1>6, <1>7

\* The turn is over, and after the last one so is the gathering's run.
LEMMA DoneCloses ==
  ASSUME IInv, IInv', InTime, InTime', NEW c \in Cpus, Done(c)
  PROVE  \/ Unseen
         \/ /\ Phase = "run" /\ Phase' = "leave" /\ Where' = [d \in Cpus |-> "ran"]
            /\ \A d \in Cpus : Where[d] # "running"
            /\ flags.type # "ONCE" => \A d \in Cpus : Where[d] = "ran"
            /\ Where[c] = "ran"
            /\ flags' = flags /\ status' = status /\ told' = told
<1>1. /\ Running /\ flags \in Requests /\ emt[c].fl = flags /\ Inside = Cpus
      /\ cDone \in Nat /\ cDone < cCpus /\ c \notin Finished
      /\ cDone = IF flags.type = "ONCE" THEN 0 ELSE Cardinality(Finished)
      /\ flags.type # "ALL_AT_ONCE" => \A d \in Cpus \ {c} : emt[d].pc \notin Turning
      /\ emt[c].pc = "done"
  BY DoneFacts DEF Done, At
<1> DEFINE over == cDone + 1 = cCpus \/ flags.type = "ONCE"
           l == IF emt[c].caller THEN "waitCaller" ELSE IF over THEN "read" ELSE "waitDone"
<1>2. /\ armed' = armed /\ flags' = flags /\ cEntered' = cEntered /\ status' = status
      /\ told' = told /\ evtDone' = (evtDone \/ over) /\ Goto(c, l) /\ ff' = ff
  BY <1>1 DEF Done, Shared
<1>3. l \in Pcs /\ l \in {"waitCaller", "waitDone", "read"}  BY DEF Pcs, Entered
<1>4. emt'[c].pc = l /\ \A d \in Cpus \ {c} : emt'[d] = emt[d]
  BY <1>2, <1>3, Gone DEF IInv
<1>5. evtDone = FALSE /\ armed /\ cEntered = cCpus
  BY <1>1 DEF Running, InTime, IInv, StagesOK
<1>6. CASE ~over
  <2>1. evtDone' = evtDone  BY <1>2, <1>5, <1>6
  <2>2. emt'[c].pc \in {"waitCaller", "waitDone"}  BY <1>4, <1>6
  <2>3. SeenAt(emt[c], evtDone, flags.type) = "ran"  BY <1>1 DEF SeenAt, Entered, Turning
  <2>4. SeenAt(emt'[c], evtDone, flags.type) = "ran"  BY <1>5, <1>6, <2>2 DEF SeenAt, Entered
  <2>5. Unseen
    <3> HIDE DEF over, l
    <3> QED BY <1>2, <1>4, <2>1, <2>3, <2>4, UnseenStep
  <2> QED BY <2>5
<1>7. CASE over
  <2>1. evtDone' = TRUE  BY <1>2, <1>7
  <2>2. Phase = "run" /\ Phase' = "leave"  BY <1>2, <1>5, <2>1, Seen, SeenNext
  <2>3. \A d \in Cpus : emt[d].pc \in Entered /\ emt'[d].pc \in Entered
    BY <1>1, <1>3, <1>4 DEF Inside, Entered
  <2>4. Where' = [d \in Cpus |-> "ran"]
    <3>1. \A d \in Cpus : SeenAt(emt'[d], evtDone', flags'.type) = "ran"
      BY <2>1, <2>3 DEF SeenAt
    <3> QED BY <3>1, SeenNext
  <2>5. \A d \in Cpus : Where[d] = SeenAt(emt[d], FALSE, flags.type)  BY <1>5, Seen
  <2>6. Where[c] = "ran"  BY <1>1, <2>3, <2>5 DEF SeenAt
  <2>7. CASE flags.type = "ONCE"
    <3>1. \A d \in Cpus \ {c} : emt[d].pc \notin Turning  BY <1>1, <2>7
    <3>2. \A d \in Cpus : Where[d] # "running"  BY <2>5, <2>6, <3>1 DEF SeenAt, Turning
    <3> QED BY <1>2, <2>2, <2>4, <2>6, <2>7, <3>2
  <2>8. CASE flags.type # "ONCE"
    <3>1. Cardinality(Finished \cup {c}) = cCpus
      BY <1>1, <1>7, <2>8, InsideFacts, CountMore
    <3>2. Finished \cup {c} = Cpus
      <4>1. Finished \cup {c} \in SUBSET Cpus  BY InsideFacts
      <4> QED BY <3>1, <4>1, CountOf
    <3>3. \A d \in Cpus \ {c} : emt[d].pc \in {"waitDone", "waitCaller"}  BY <3>2 DEF Finished
    <3>4. \A d \in Cpus : Where[d] = "ran"
      BY <2>3, <2>5, <2>6, <2>8, <3>3 DEF SeenAt
    <3> QED BY <1>2, <2>2, <2>4, <2>6, <2>8, <3>4
  <2> QED BY <2>7, <2>8
<1> QED BY <1>6, <1>7

LEMMA ReturnLeaves ==
  ASSUME IInv, InTime, InTime', NEW c \in Cpus, Return(c)
  PROVE  /\ Phase = "leave" /\ Phase' = "leave" /\ Where[c] # "away"
         /\ Where' = [Where EXCEPT ![c] = "away"]
         /\ told' = [told EXCEPT ![c] = IF Failed(status) THEN 0 ELSE status]
         /\ flags' = flags /\ status' = status
<1>1. emt[c].pc = "return" /\ Leaving /\ emt[c].rc = IF Failed(status) THEN 0 ELSE status
  BY StageOf DEF Return, At, IInv, LocalsOK, LocalOK
<1>2. emt'[c].pc = "leave" /\ \A d \in Cpus \ {c} : emt'[d] = emt[d]
  BY Gone DEF Return, IInv, Pcs
<1>3. /\ armed' = armed /\ flags' = flags /\ cEntered' = cEntered /\ status' = status
      /\ told' = [told EXCEPT ![c] = emt[c].rc] /\ evtDone' = evtDone
  BY DEF Return, Shared
<1>4. evtDone /\ armed /\ cEntered = cCpus  BY <1>1 DEF Leaving, IInv, StagesOK
<1>5. SeenAt(emt[c], evtDone, flags.type) = "ran"  BY <1>1, <1>4 DEF SeenAt, Entered
<1>6. SeenAt(emt'[c], evtDone, flags.type) = "away"  BY <1>2 DEF SeenAt, Entered, Turning
<1>7. Where' = [Where EXCEPT ![c] = "away"] /\ Where[c] = "ran"
  BY <1>2, <1>3, <1>5, <1>6, Seen, OneMoves
<1>8. Phase = "leave" /\ Phase' = "leave"  BY <1>3, <1>4, Seen, SeenNext
<1> QED BY <1>1, <1>3, <1>7, <1>8

LEMMA CleanupEnds ==
  ASSUME IInv, InTime, InTime', NEW c \in Cpus, Cleanup(c)
  PROVE  /\ Phase = "leave" /\ Phase' = "none"
         /\ \A d \in Cpus : Where[d] = "away" <=> d # c
         /\ Where' = [Where EXCEPT ![c] = "away"]
         /\ told' = [told EXCEPT ![c] = status]
         /\ flags' = flags /\ status' = status
<1>1. emt[c].pc = "cleanup" /\ Leaving /\ \A d \in Cpus \ {c} : emt[d].pc \in Outside
  BY AloneAtCleanup DEF Cleanup, At
<1>2. emt'[c].pc = "leave" /\ \A d \in Cpus \ {c} : emt'[d] = emt[d]
  BY Gone DEF Cleanup, IInv, Pcs
<1>3. /\ armed' = FALSE /\ flags' = flags /\ cEntered' = cEntered /\ status' = status
      /\ told' = [told EXCEPT ![c] = status] /\ evtDone' = evtDone
  BY DEF Cleanup, Counters, Events
<1>4. evtDone /\ armed /\ cEntered = cCpus  BY <1>1 DEF Leaving, IInv, StagesOK
<1>5. /\ SeenAt(emt[c], evtDone, flags.type) = "ran"
      /\ SeenAt(emt'[c], evtDone, flags.type) = "away"
      /\ \A d \in Cpus \ {c} : SeenAt(emt[d], evtDone, flags.type) = "away"
  BY <1>1, <1>2, <1>4 DEF SeenAt, Entered, Turning, Outside
<1>6. Where' = [Where EXCEPT ![c] = "away"]  BY <1>2, <1>3, <1>5, OneMoves
<1>7. \A d \in Cpus : Where[d] = "away" <=> d # c  BY <1>5, Seen
<1>8. Phase = "leave" /\ Phase' = "none"  BY <1>3, <1>4, Seen, SeenNext
<1> QED BY <1>3, <1>6, <1>7, <1>8

\* Outside the gathering, and between the places where it changes hands, the EMTs
\* go on unseen.
LEMMA OutsideUnseen ==
  ASSUME IInv, InTime, InTime', NEW c \in Cpus,
         \/ \E fl \in Requests : VMMR3EmtRendezvous(c, fl)
         \/ SpinLock(c) \/ Raise(c) \/ VMMR3EmtRendezvousFF(c) \/ Leave(c)
  PROVE  Unseen
<1>0. emt \in [Cpus -> EmtType]  BY DEF IInv, TypeOK
<1>1. emt[c].pc \notin Entered
  BY DEF VMMR3EmtRendezvous, SpinLock, Raise, VMMR3EmtRendezvousFF, Leave, At, Entered, Turning
<1>2. emt'[c].pc \notin Entered /\ \A d \in Cpus \ {c} : emt'[d] = emt[d]
  <2>1. CASE \E fl \in Requests : VMMR3EmtRendezvous(c, fl)
    <3>1. PICK fl \in Requests : VMMR3EmtRendezvous(c, fl)  BY <2>1
    <3>2. \/ emt' = [emt EXCEPT ![c] = [Home EXCEPT !.pc = "slate", !.fl = fl]]
          \/ emt' = [emt EXCEPT ![c] = [Home EXCEPT !.pc = "spin", !.want = fl]]
      BY <3>1 DEF VMMR3EmtRendezvous
    <3>3. /\ [Home EXCEPT !.pc = "slate", !.fl = fl].pc = "slate"
          /\ [Home EXCEPT !.pc = "spin", !.want = fl].pc = "spin"
      BY DEF Home
    <3>4. emt'[c].pc \in {"slate", "spin"} /\ \A d \in Cpus \ {c} : emt'[d] = emt[d]
      BY <1>0, <3>2, <3>3
    <3> QED BY <3>4 DEF Entered, Turning
  <2>2. CASE SpinLock(c)  BY <1>0, <2>2 DEF SpinLock, TryLock, Home, Entered, Turning
  <2>3. CASE Raise(c)  BY <1>0, <2>3 DEF Raise, EmtType, Entered, Turning
  <2>4. CASE VMMR3EmtRendezvousFF(c)
    BY <1>0, <2>4 DEF VMMR3EmtRendezvousFF, EmtType, Entered, Turning
  <2>5. CASE Leave(c)  BY <1>0, <2>5 DEF Leave, Home, Entered, Turning
  <2> QED BY <2>1, <2>2, <2>3, <2>4, <2>5
<1>3. /\ armed' = armed /\ cEntered' = cEntered /\ evtDone' = evtDone /\ flags' = flags
      /\ status' = status /\ told' = told
  BY DEF VMMR3EmtRendezvous, SpinLock, Raise, VMMR3EmtRendezvousFF, Leave, Shared, Counters, Events
<1> QED BY <1>1, <1>2, <1>3, UnseenStep DEF SeenAt

LEMMA WaitingUnseen ==
  ASSUME IInv, InTime, InTime', NEW c \in Cpus,
         Last(c) \/ WaitTurn(c) \/ WaitDone(c) \/ ReturnRead(c) \/ WaitCaller(c)
  PROVE  Unseen
<1>0. emt \in [Cpus -> EmtType]  BY DEF IInv, TypeOK
<1>1. /\ armed' = armed /\ cEntered' = cEntered /\ evtDone' = evtDone /\ flags' = flags
      /\ status' = status /\ told' = told
  BY DEF Last, WaitTurn, WaitDone, ReturnRead, WaitCaller, Shared, Counters, Events
<1>2. \A d \in Cpus \ {c} : emt'[d] = emt[d]
  BY <1>0 DEF Last, WaitTurn, WaitDone, ReturnRead, WaitCaller, Goto
<1>3. CASE Last(c) \/ WaitTurn(c)
  <2>1. emt[c].pc \in {"last", "waitOne", "waitAll", "waitOrd"}
    BY <1>3 DEF Last, WaitTurn, At
  <2>2. emt'[c].pc \in {"waitOrd", "turn"}
    BY <1>0, <1>3 DEF Last, WaitTurn, Goto, EmtType
  <2>3. ~evtDone  BY <2>1, StageOf DEF IInv, StagesOK, Fresh, Running
  <2>4. SeenAt(emt'[c], evtDone, flags.type) = "here" /\ SeenAt(emt[c], evtDone, flags.type) = "here"
    BY <2>1, <2>2, <2>3 DEF SeenAt, Entered, Turning
  <2> QED BY <1>1, <1>2, <2>4, UnseenStep
<1>4. CASE WaitDone(c) \/ ReturnRead(c) \/ WaitCaller(c)
  <2>1. emt[c].pc \in {"waitDone", "read", "waitCaller"}
    BY <1>4 DEF WaitDone, ReturnRead, WaitCaller, At
  <2>2. emt'[c].pc \in {"read", "return", "cleanup"}
    BY <1>0, <1>4 DEF WaitDone, ReturnRead, WaitCaller, Goto, EmtType
  <2>3. evtDone
    BY <1>4, <2>1, StageOf
    DEF WaitDone, ReturnRead, WaitCaller, At, Leaving, IInv, StagesOK, CountsOK, Fresh
  <2>4. SeenAt(emt'[c], evtDone, flags.type) = "ran" /\ SeenAt(emt[c], evtDone, flags.type) = "ran"
    BY <2>1, <2>2, <2>3 DEF SeenAt, Entered
  <2> QED BY <1>1, <1>2, <2>4, UnseenStep
<1> QED BY <1>3, <1>4

\* The turn that an EMT has is the gathering's: it runs the callback or leaves it out.
LEMMA CheckIsRunOrSkip ==
  ASSUME IInv, InTime, InTime', NEW c \in Cpus, Check(c)
  PROVE  Promise!Run(c) \/ Promise!Skip(c)
<1>1. /\ Phase = "run" /\ Where[c] = "here" /\ flags \in Requests
      /\ flags.type # "ALL_AT_ONCE" => \A d \in Cpus : Where[d] # "running"
      /\ flags.type = "ONCE" => \A d \in Cpus : Where[d] # "ran"
      /\ flags.type \in Ordered => \A d \in Cpus : Where[d] = "ran" <=> Rank(d) < Rank(c)
  BY TurnIsRight, StageOf DEF Check, At, Entered, Turning
<1>2. flags.type \in Ordered =>
        {d \in Cpus : Where[d] = "ran"} =
          IF flags.type = "ASCENDING" THEN 0 .. c - 1 ELSE c + 1 .. cCpus - 1
  BY <1>1, RankOfRan
<1> DEFINE where == [d \in Cpus |-> Place(d)]
<1>3. Where = where /\ Where' = where'  BY DEF Where
<1>4. Promise!Ran = {d \in Cpus : Where[d] = "ran"}
      /\ Promise!Running = {d \in Cpus : Where[d] = "running"}
  BY <1>3 DEF Promise!Ran, Promise!Running, Promise!Cpus, Cpus
<1>5. Promise!InTurn(c)
  BY <1>1, <1>2, <1>4 DEF Promise!InTurn, Promise!Exclusive, Ordered
<1>6. /\ Phase' = Phase /\ flags' = flags /\ status' = status /\ told' = told
      /\ IF flags.stop /\ Failed(status) THEN Where' = [Where EXCEPT ![c] = "ran"]
         ELSE Where' = [Where EXCEPT ![c] = "running"]
  BY CheckRuns
<1> HIDE DEF where
<1> QED BY <1>1, <1>3, <1>5, <1>6 DEF Promise!Run, Promise!Skip, Promise!Failed, Failed, where

\* Every step is one of the gathering, or is not seen by it.
LEMMA StepOfGathering ==
  ASSUME IInv, IInv', InTime, InTime', Next
  PROVE  Promise!GNext \/ Unseen
<1> DEFINE where == [d \in Cpus |-> Place(d)]
<1>0. Where = where /\ Where' = where' /\ Promise!Cpus = Cpus
  BY DEF Where, Promise!Cpus, Cpus
<1>1. PICK c \in Cpus : Step(c) \/ \E fl \in Requests : VMMR3EmtRendezvous(c, fl)
  BY DEF Next
<1> HIDE DEF where
<1>2. CASE ClearSlate(c)
  <2>1. Phase = "none" /\ Phase' = "gather" /\ flags' \in Requests /\ status' = 0
        /\ where' = where /\ told' = told
    BY <1>0, <1>2, SlateStarts
  <2>2. Promise!Start  BY <2>1 DEF Promise!Start, where
  <2> QED BY <2>2 DEF Promise!GNext
<1>3. CASE Enter(c)
  <2>1. Phase = "gather" /\ where[c] = "away" /\ where' = [where EXCEPT ![c] = "here"]
        /\ Phase' = (IF \A d \in Cpus : where'[d] = "here" THEN "run" ELSE "gather")
        /\ flags' = flags /\ status' = status /\ told' = told
    BY <1>0, <1>3, EnterComes
  <2>2. Promise!Come(c)  BY <1>0, <2>1 DEF Promise!Come, where
  <2> QED BY <1>0, <2>2 DEF Promise!GNext
<1>4. CASE Check(c)
  <2>1. Promise!Run(c) \/ Promise!Skip(c)  BY <1>4, CheckIsRunOrSkip
  <2> QED BY <1>0, <2>1 DEF Promise!GNext
<1>5. CASE Callback(c) \/ MergeRead(c) \/ MergeCas(c)
  <2>1. \/ Unseen
        \/ /\ where[c] = "running" /\ where' = [where EXCEPT ![c] = "ran"]
           /\ \E rc \in Results : status' = Promise!Merge(status, rc)
           /\ Phase' = Phase /\ flags' = flags /\ told' = told
    BY <1>0, <1>5, CallbackFinishes
  <2>2. Unseen \/ Promise!Finish(c)  BY <2>1 DEF Promise!Finish, where
  <2> QED BY <1>0, <2>2 DEF Promise!GNext
<1>6. CASE Done(c)
  <2>1. \/ Unseen
        \/ /\ Phase = "run" /\ Phase' = "leave" /\ where' = [d \in Cpus |-> "ran"]
           /\ \A d \in Cpus : where[d] # "running"
           /\ flags.type # "ONCE" => \A d \in Cpus : where[d] = "ran"
           /\ where[c] = "ran"
           /\ flags' = flags /\ status' = status /\ told' = told
    BY <1>0, <1>6, DoneCloses
  <2>2. ASSUME ~Unseen PROVE Promise!AllRan /\ Promise!Running = {}
    BY <1>0, <2>1, <2>2 DEF Promise!AllRan, Promise!Ran, Promise!Running, where
  <2>3. Unseen \/ Promise!Close  BY <1>0, <2>1, <2>2 DEF Promise!Close, where
  <2> QED BY <2>3 DEF Promise!GNext
<1>7. CASE Return(c)
  <2>1. /\ Phase = "leave" /\ Phase' = "leave" /\ where[c] # "away"
        /\ where' = [where EXCEPT ![c] = "away"]
        /\ told' = [told EXCEPT ![c] = IF Failed(status) THEN 0 ELSE status]
        /\ flags' = flags /\ status' = status
    BY <1>0, <1>7, ReturnLeaves
  <2>2. Promise!Leave(c)  BY <2>1 DEF Promise!Leave, Promise!Failed, Failed, where
  <2> QED BY <1>0, <2>2 DEF Promise!GNext
<1>8. CASE Cleanup(c)
  <2>1. /\ Phase = "leave" /\ Phase' = "none"
        /\ \A d \in Cpus : where[d] = "away" <=> d # c
        /\ where' = [where EXCEPT ![c] = "away"]
        /\ told' = [told EXCEPT ![c] = status]
        /\ flags' = flags /\ status' = status
    BY <1>0, <1>8, CleanupEnds
  <2>2. Promise!End(c)  BY <1>0, <2>1 DEF Promise!End, where
  <2> QED BY <1>0, <2>2 DEF Promise!GNext
<1>9. CASE \/ \E fl \in Requests : VMMR3EmtRendezvous(c, fl)
           \/ SpinLock(c) \/ Raise(c) \/ VMMR3EmtRendezvousFF(c) \/ Leave(c)
  BY <1>9, OutsideUnseen
<1>10. CASE Last(c) \/ WaitTurn(c) \/ WaitDone(c) \/ ReturnRead(c) \/ WaitCaller(c)
  BY <1>10, WaitingUnseen
<1> QED BY <1>1, <1>2, <1>3, <1>4, <1>5, <1>6, <1>7, <1>8, <1>9, <1>10 DEF Step

\* For every number of CPUs, the rendezvous is a gathering: no callback runs while
\* an EMT is away, each runs it once and in its turn, and nobody leaves early.
THEOREM ImplementsPromise == Spec => ImplementsGathering
<1>1. Init => Promise!GInit
  <2> SUFFICES ASSUME Init PROVE Promise!GInit  OBVIOUS
  <2>1. \A c \in Cpus : Place(c) = "away"
    BY DEF Init, Place, Home, Entered, Turning
  <2>2. [c \in Cpus |-> Place(c)] = [c \in Promise!Cpus |-> "away"]
    BY <2>1 DEF Promise!Cpus, Cpus
  <2>3. Phase = "none"  BY DEF Init, Phase
  <2> QED BY <2>2, <2>3 DEF Promise!GInit, Init, NoFlags, Promise!Cpus, Cpus
<1>2. IInv /\ IInv' /\ [Next]_vars => [Promise!GNext]_(Promise!gvars)
  <2> SUFFICES ASSUME IInv, IInv', [Next]_vars PROVE [Promise!GNext]_(Promise!gvars)
    OBVIOUS
  <2>1. InTime  BY IsInTime
  <2>2. IInv' => InTime'  BY IsInTime, PTL
  <2>3. CASE Next
    <3>1. Promise!GNext \/ Unseen  BY <2>1, <2>2, <2>3, StepOfGathering
    <3>2. Unseen => UNCHANGED Promise!gvars  BY DEF Unseen, Promise!gvars, Where
    <3> QED BY <3>1, <3>2
  <2>4. CASE UNCHANGED vars
    <3>1. /\ emt' = emt /\ armed' = armed /\ cEntered' = cEntered /\ evtDone' = evtDone
          /\ flags' = flags /\ status' = status /\ told' = told
      BY <2>4 DEF vars, Shared, Counters, Events
    <3>2. Phase' = Phase /\ \A c \in Cpus : Place(c)' = Place(c)
      BY <3>1 DEF Phase, Place, At
    <3> QED BY <3>1, <3>2 DEF Promise!gvars
  <2> QED BY <2>3, <2>4
<1> QED BY <1>1, <1>2, Inductive, PTL DEF Spec, ImplementsGathering, Promise!Spec

-----------------------------------------------------------------------------
(* The rendezvous never stands still. *)

\* What is there for those who wait for the callbacks, or for the end.
HasNext ==
  /\ Running /\ flags.type = "ALL_AT_ONCE" => enterAll
  /\ Running /\ flags.type = "ONCE" => \E c \in Cpus : emt[c].pc \in Turning
  /\ Leaving /\ cReturned = cCpus - 1 => evtCaller \/ At(lock, "cleanup")

\* A step of an EMT that is not about a stage.
LEMMA NextKept ==
  ASSUME IInv, HasNext, NEW c \in Cpus,
         UNCHANGED <<lock, armed, flags, ff, evtDone, evtCaller, cReturned, enterAll>>,
         \A d \in Cpus \ {c} : emt'[d].pc = emt[d].pc,
         emt[c].pc \notin {"raise", "cleanup"},
         emt[c].pc \in Turning => emt'[c].pc \in Turning \/ flags.type # "ONCE"
  PROVE  HasNext'
<1>1. armed => lock \in Cpus  BY DEF IInv, LockOK, TypeOK
<1>2. Running' => Running  BY <1>1 DEF Running, Calling, At
<1>3. Leaving' => Leaving  BY <1>1 DEF Leaving, Calling, At
<1>4. Running' /\ flags'.type = "ALL_AT_ONCE" => enterAll'  BY <1>2 DEF HasNext
<1>5. ASSUME Running', flags'.type = "ONCE" PROVE \E d \in Cpus : emt'[d].pc \in Turning
  <2>1. PICK d \in Cpus : emt[d].pc \in Turning  BY <1>2, <1>5 DEF HasNext
  <2>2. emt'[d].pc \in Turning  BY <1>5, <2>1
  <2> QED BY <2>2
<1>6. ASSUME Leaving', cReturned' = cCpus - 1 PROVE evtCaller' \/ At(lock, "cleanup")'
  <2>1. evtCaller \/ At(lock, "cleanup")  BY <1>3, <1>6 DEF HasNext
  <2>2. lock \in Cpus  BY <1>1, <1>6 DEF Leaving
  <2> QED BY <2>1, <2>2 DEF At
<1> QED BY <1>4, <1>5, <1>6 DEF HasNext

LEMMA CallHasNext ==
  ASSUME IInv, HasNext, NEW c \in Cpus,
         \/ \E fl \in Requests : VMMR3EmtRendezvous(c, fl)
         \/ SpinLock(c) \/ ClearSlate(c) \/ Raise(c) \/ VMMR3EmtRendezvousFF(c) \/ Leave(c)
  PROVE  HasNext'
<1>0. emt \in [Cpus -> EmtType]  BY DEF IInv, TypeOK
<1>1. CASE armed' = FALSE
  BY <1>1 DEF HasNext, Running, Leaving
<1>2. CASE ClearSlate(c)
  <2>1. At(c, "slate") /\ lock' = lock /\ Goto(c, "raise")  BY <1>2 DEF ClearSlate, Shared
  <2>2. lock = c  BY <2>1, StageOf DEF At
  <2>3. emt'[c].pc = "raise"  BY <2>1, Gone DEF IInv, Pcs
  <2>4. ~ Running' /\ ~ Leaving'  BY <2>1, <2>2, <2>3 DEF Running, Leaving, Calling, At
  <2> QED BY <2>4 DEF HasNext
<1>3. CASE Raise(c)
  BY <1>3 DEF Raise, HasNext, Running, Leaving
<1>4. CASE VMMR3EmtRendezvousFF(c)
  BY <1>4 DEF VMMR3EmtRendezvousFF, HasNext, Running, Leaving
<1>5. CASE Leave(c)
  <2>1. /\ emt[c].pc = "leave" /\ \A d \in Cpus \ {c} : emt'[d].pc = emt[d].pc
        /\ UNCHANGED <<lock, armed, flags, ff, evtDone, evtCaller, cReturned, enterAll>>
    BY <1>0, <1>5 DEF Leave, At, Shared, Counters, Events
  <2> QED BY <2>1, NextKept DEF Turning
<1>6. CASE \/ SpinLock(c) /\ armed' # FALSE
           \/ \E fl \in Requests : VMMR3EmtRendezvous(c, fl) /\ armed' # FALSE
  <2>1. armed' = armed /\ armed  BY <1>6 DEF SpinLock, VMMR3EmtRendezvous, Shared, IInv, TypeOK
  <2>2. lock # NoCpu  BY <2>1 DEF IInv, LockOK
  <2>3. PICK fl \in Requests : VMMR3EmtRendezvous(c, fl)
    BY <1>6, <2>2 DEF SpinLock, TryLock
  <2>4. /\ emt[c].pc = "idle" /\ \A d \in Cpus \ {c} : emt'[d].pc = emt[d].pc
        /\ UNCHANGED <<lock, armed, flags, ff, evtDone, evtCaller, cReturned, enterAll>>
    BY <1>0, <2>2, <2>3 DEF VMMR3EmtRendezvous, At, Shared, Counters, Events
  <2> QED BY <2>4, NextKept DEF Turning
<1> QED BY <1>1, <1>2, <1>3, <1>4, <1>5, <1>6

LEMMA TurnHasNext ==
  ASSUME IInv, HasNext, NEW c \in Cpus,
         \/ Enter(c) \/ WaitTurn(c) \/ Check(c) \/ Callback(c) \/ MergeRead(c) \/ MergeCas(c)
         \/ WaitDone(c) \/ ReturnRead(c)
  PROVE  HasNext'
<1>0. emt \in [Cpus -> EmtType] /\ TypeOK  BY DEF IInv, TypeOK
<1>1. UNCHANGED <<lock, armed, flags, ff, evtDone, evtCaller, cReturned, enterAll>>
  BY DEF Enter, WaitTurn, Check, Callback, MergeRead, MergeCas, WaitDone, ReturnRead,
         Shared, Counters, Events
<1>2. CASE Enter(c) \/ WaitDone(c) \/ ReturnRead(c) \/ WaitTurn(c)
  <2>1. /\ emt[c].pc \in {"enter", "waitDone", "read", "waitOne", "waitAll", "waitOrd"}
        /\ \E r : emt' = [emt EXCEPT ![c] = r]
    BY <1>2 DEF Enter, WaitDone, ReturnRead, WaitTurn, Goto, At
  <2>2. \A d \in Cpus \ {c} : emt'[d].pc = emt[d].pc  BY <1>0, <2>1
  <2> QED BY <1>1, <2>1, <2>2, NextKept DEF Turning
<1>3. CASE Check(c) \/ Callback(c) \/ MergeRead(c) \/ MergeCas(c)
  <2> DEFINE Later == {"callback", "merge", "cas", "done"}
  <2>1. CASE Check(c) \/ MergeCas(c)
    <3>1. PICK l \in Later : Goto(c, l)  BY <2>1 DEF Check, MergeCas
    <3>2. emt[c].pc \in {"turn", "cas"}  BY <2>1 DEF Check, MergeCas, At
    <3>3. emt'[c].pc \in Later /\ \A d \in Cpus \ {c} : emt'[d] = emt[d]
      BY <1>0, <3>1, Gone DEF Pcs, Entered, Turning
    <3> QED BY <1>1, <3>2, <3>3, NextKept DEF Turning
  <2>2. CASE Callback(c)
    <3>1. PICK rc \in Results :
             emt' = [emt EXCEPT ![c].pc = IF rc # 0 THEN "merge" ELSE "done", ![c].rc = rc]
      BY <2>2 DEF Callback
    <3>2. emt[c].pc = "callback"  BY <2>2 DEF Callback, At
    <3>3. \A d \in Cpus \ {c} : emt'[d] = emt[d]  BY <1>0, <3>1
    <3>4. emt'[c].pc = IF rc # 0 THEN "merge" ELSE "done"  BY <1>0, <3>1 DEF EmtType
    <3> QED BY <1>1, <3>2, <3>3, <3>4, NextKept DEF Turning
  <2>3. CASE MergeRead(c)
    <3>1. /\ emt[c].pc = "merge"
          /\ emt' = [emt EXCEPT ![c].pc = IF Keeps(emt[c].rc) THEN "done" ELSE "cas",
                               ![c].old = status]
      BY <2>3 DEF MergeRead, At
    <3>2. \A d \in Cpus \ {c} : emt'[d] = emt[d]  BY <1>0, <3>1
    <3>3. emt'[c].pc = IF Keeps(emt[c].rc) THEN "done" ELSE "cas"  BY <1>0, <3>1 DEF EmtType
    <3> QED BY <1>1, <3>1, <3>2, <3>3, NextKept DEF Turning
  <2> QED BY <1>3, <2>1, <2>2, <2>3
<1> QED BY <1>2, <1>3

LEMMA StageHasNext ==
  ASSUME IInv, HasNext, NEW c \in Cpus,
         Last(c) \/ Done(c) \/ Return(c) \/ WaitCaller(c) \/ Cleanup(c)
  PROVE  HasNext'
<1>0. emt \in [Cpus -> EmtType] /\ TypeOK  BY DEF IInv, TypeOK
<1>1. CASE Last(c)
  <2> DEFINE other == emt[c].fl.type \in Ordered /\ c # First(emt[c].fl.type)
  <2>1. /\ emt[c].pc = "last" /\ Goto(c, IF other THEN "waitOrd" ELSE "turn")
        /\ flags' = flags /\ evtDone' = evtDone
        /\ enterAll' = (enterAll \/ emt[c].fl.type = "ALL_AT_ONCE")
    BY <1>1 DEF Last, At, Shared
  <2>2. emt[c].fl = flags /\ Coming  BY <2>1, StageOf DEF Entered
  <2>3. ~ evtDone  BY <2>2 DEF IInv, StagesOK, Fresh
  <2>4. flags.type = "ONCE" => emt'[c].pc = "turn"
    BY <1>0, <2>1, <2>2, Gone DEF Ordered, Pcs, Entered, Turning
  <2> QED BY <2>1, <2>2, <2>3, <2>4 DEF HasNext, Leaving, Turning
<1>2. CASE Done(c)
  <2>1. /\ Running /\ flags \in Requests /\ emt[c].fl = flags /\ cReturned = 0
    BY <1>2, DoneFacts DEF Done
  <2>2. CASE cDone + 1 = cCpus \/ flags.type = "ONCE"
    <3>1. evtDone' /\ cReturned' = cReturned  BY <1>2, <2>1, <2>2 DEF Done
    <3>2. cReturned' # cCpus - 1  BY <2>1, <3>1, CpuFacts
    <3> QED BY <3>1, <3>2 DEF HasNext, Running
  <2>3. CASE cDone + 1 # cCpus /\ flags.type # "ONCE"
    <3> DEFINE l == IF emt[c].caller THEN "waitCaller" ELSE "waitDone"
    <3>1. /\ UNCHANGED <<lock, armed, flags, ff, evtCaller, cReturned, enterAll>>
          /\ emt[c].pc = "done"
      BY <1>2 DEF Done, At, Shared
    <3>2. emt[c].fl.type # "ONCE"  BY <2>1, <2>3
    <3>3. evtDone' = (evtDone \/ FALSE)  BY <1>2, <2>3, <3>2 DEF Done
    <3>4. evtDone' = evtDone  BY <1>0, <3>3 DEF TypeOK
    <3>5. Goto(c, l)  BY <1>2, <2>3, <3>2 DEF Done
    <3>6. \A d \in Cpus \ {c} : emt'[d] = emt[d]
      BY <1>0, <3>5, Gone DEF Pcs, Entered, Turning
    <3> QED BY <2>3, <3>1, <3>4, <3>6, NextKept
  <2> QED BY <2>2, <2>3
<1>3. CASE Return(c)
  <2>1. /\ emt[c].pc = "return" /\ cReturned' = cReturned + 1 /\ evtDone' = evtDone
        /\ evtCaller' = (evtCaller \/ cReturned + 1 = cCpus - 1)
    BY <1>3 DEF Return, At, AllOthers
  <2>2. Leaving  BY <2>1, StageOf
  <2> QED BY <2>1, <2>2 DEF HasNext, Leaving, Running
<1>4. CASE WaitCaller(c)
  <2>1. emt[c].pc = "waitCaller" /\ evtCaller /\ Goto(c, "cleanup") /\ lock' = lock /\ evtDone' = evtDone
    BY <1>4 DEF WaitCaller, At, Shared
  <2>2. Leaving
    <3>1. ~ (Coming /\ evtCaller)  BY DEF IInv, StagesOK, Fresh
    <3>2. ~ (Running /\ evtCaller)  BY DEF IInv, CountsOK
    <3> QED BY <2>1, <3>1, <3>2, StageOf
  <2>3. emt[c].caller
    BY <2>1, <2>2 DEF IInv, PlacesOK, EndOf, Outside
  <2>4. lock = c  BY <2>1, <2>3 DEF IInv, LockOK, Holds, Entered
  <2>5. emt'[c].pc = "cleanup"  BY <1>0, <2>1, Gone DEF Pcs, Entered
  <2> QED BY <2>1, <2>2, <2>4, <2>5 DEF HasNext, Running, Leaving, At
<1>5. CASE Cleanup(c)
  BY <1>5 DEF Cleanup, HasNext, Running, Leaving
<1> QED BY <1>1, <1>2, <1>3, <1>4, <1>5

LEMMA NextAlways == Spec => []HasNext
<1>1. Init => HasNext  BY DEF Init, HasNext, Running, Leaving
<1>2. IInv /\ HasNext /\ [Next]_vars => HasNext'
  <2> SUFFICES ASSUME IInv, HasNext, [Next]_vars PROVE HasNext'  OBVIOUS
  <2>1. CASE UNCHANGED vars
    BY <2>1 DEF vars, Shared, Counters, Events, HasNext, Running, Leaving, Calling, At
  <2>2. ASSUME NEW c \in Cpus, Step(c) PROVE HasNext'
    BY <2>2, CallHasNext, TurnHasNext, StageHasNext DEF Step
  <2>3. ASSUME NEW c \in Cpus, NEW fl \in Requests, VMMR3EmtRendezvous(c, fl) PROVE HasNext'
    BY <2>3, CallHasNext
  <2> QED BY <2>1, <2>2, <2>3 DEF Next
<1> QED BY <1>1, <1>2, Inductive, PTL DEF Spec

\* The EMT waits neither for an event nor for the lock nor for a call.
CanGo(c) ==
  CASE At(c, "idle")       -> ff
    [] At(c, "spin")       -> ff \/ lock = NoCpu
    [] At(c, "waitOne")    -> enterOne
    [] At(c, "waitAll")    -> enterAll
    [] At(c, "waitOrd")    -> enterOrd[c]
    [] At(c, "waitDone")   -> evtDone
    [] At(c, "waitCaller") -> evtCaller
    [] OTHER               -> TRUE

\* While an EMT is in a call or in a rendezvous, some EMT can go on.
NoStandstill == (\E c \in Cpus : ~ At(c, "idle")) => \E c \in Cpus : CanGo(c)

LEMMA Goers ==
  ASSUME NEW c \in Cpus
  PROVE  /\ emt[c].pc \notin {"idle", "spin", "waitOne", "waitAll", "waitOrd", "waitDone",
                              "waitCaller"} => CanGo(c)
         /\ emt[c].pc = "idle" /\ ff => CanGo(c)
         /\ emt[c].pc = "spin" /\ (ff \/ lock = NoCpu) => CanGo(c)
         /\ emt[c].pc = "waitOne" /\ enterOne => CanGo(c)
         /\ emt[c].pc = "waitAll" /\ enterAll => CanGo(c)
         /\ emt[c].pc = "waitOrd" /\ enterOrd[c] => CanGo(c)
         /\ emt[c].pc = "waitDone" /\ evtDone => CanGo(c)
         /\ emt[c].pc = "waitCaller" /\ evtCaller => CanGo(c)
BY DEF CanGo, At

\* While the EMTs come, one is called, comes or is the last.
LEMMA ComingGoes ==
  ASSUME IInv, Coming
  PROVE  \E c \in Cpus : CanGo(c)
<1> SUFFICES ASSUME \A c \in Cpus : ~ CanGo(c) PROVE FALSE  OBVIOUS
<1>1. ASSUME NEW c \in Cpus PROVE emt[c].pc \in Entered \ {"last"}
  <2>1. emt[c].pc \notin Outside \cup {"enter", "last"}
    BY <1>1, Goers DEF Coming, Outside
  <2> QED BY <2>1 DEF IInv, PlacesOK
<1>2. Inside = Cpus  BY <1>1 DEF Inside
<1>3. cReturned = 0 /\ cEntered = Cardinality(Inside) + cReturned
  BY DEF IInv, StagesOK, Fresh, CountsOK, Coming
<1>4. cEntered = cCpus  BY <1>2, <1>3, CpuFacts
<1> QED BY <1>1, <1>4 DEF IInv, CountsOK, At

\* While the callbacks run, one runs or somebody was given the turn.
LEMMA RunningGoes ==
  ASSUME IInv, HasNext, Running
  PROVE  \E c \in Cpus : CanGo(c)
<1> SUFFICES ASSUME \A c \in Cpus : ~ CanGo(c) PROVE FALSE  OBVIOUS
<1>1. \A c \in Cpus : emt[c].pc \notin Turning  BY Goers DEF Turning
<1>2. \A c \in Cpus : /\ emt[c].pc = EndOf(c) \/ emt[c].pc = WaitFor(c)
                      /\ emt[c].pc \in Entered
  BY <1>1 DEF IInv, PlacesOK
<1>3. 0 \in Cpus  BY CpuFacts DEF Cpus
<1>4. flags \in Requests /\ \A c \in Cpus : emt[c].fl = flags
  BY <1>2, <1>3, StageOf
<1>5. flags.type # "ONCE"  BY <1>1 DEF HasNext
<1>6. cDone < cCpus /\ cDone = Cardinality(Finished) /\ cDone \in Nat
  BY <1>5 DEF IInv, CountsOK, TypeOK
<1>7. PICK c \in Cpus : c \notin Finished
  <2>1. Finished # Cpus  BY <1>6, CpuFacts
  <2> QED BY <2>1 DEF Finished
<1>8. emt[c].pc = WaitFor(c)  BY <1>2, <1>7 DEF EndOf, Finished
<1>9. WaitFor(c) = IF flags.type = "ONE_BY_ONE" THEN "waitOne"
                   ELSE IF flags.type = "ALL_AT_ONCE" THEN "waitAll" ELSE "waitOrd"
  BY <1>4, <1>5, Waits
<1>10. CASE flags.type = "ONE_BY_ONE"
  <2>1. enterOne  BY <1>1, <1>10 DEF IInv, TurnsOK
  <2> QED BY <1>8, <1>9, <1>10, <2>1, Goers
<1>11. CASE flags.type = "ALL_AT_ONCE"
  <2>1. enterAll  BY <1>11 DEF HasNext
  <2> QED BY <1>8, <1>9, <1>11, <2>1, Goers
<1>12. CASE flags.type \in Ordered
  <2>1. PICK d \in Cpus : Rank(d) = cDone
    <3>1. cDone \in Cpus /\ cCpus - 1 - cDone \in Cpus  BY <1>6, CpuFacts DEF Cpus
    <3>2. CASE flags.type = "ASCENDING"  BY <3>1, <3>2 DEF Rank
    <3>3. CASE flags.type # "ASCENDING"
      <4>1. Rank(cCpus - 1 - cDone) = cDone  BY <1>6, <3>3, CpuFacts DEF Rank
      <4> QED BY <3>1, <4>1
    <3> QED BY <3>2, <3>3
  <2>2. emt[d].pc = "waitOrd" /\ enterOrd[d]
    BY <1>1, <1>12, <2>1 DEF IInv, TurnsOK, At
  <2> QED BY <2>2, Goers
<1> QED BY <1>4, <1>5, <1>10, <1>11, <1>12, RequestFacts DEF AllTypes, Ordered

\* While the EMTs leave, one leaves or the caller is let go.
LEMMA LeavingGoes ==
  ASSUME IInv, HasNext, Leaving
  PROVE  \E c \in Cpus : CanGo(c)
<1> SUFFICES ASSUME \A c \in Cpus : ~ CanGo(c) PROVE FALSE  OBVIOUS
<1>1. lock \in Cpus /\ lock \in Inside /\ cReturned \in Nat /\ cCpus = Cardinality(Inside) + cReturned
  BY CallerIsInside
<1>2. emt[lock].pc = "waitCaller" /\ ~ evtCaller
  BY <1>1, CallerIsInside, Goers
<1>3. ASSUME NEW c \in Inside PROVE c = lock
  <2>1. c \in Cpus /\ emt[c].pc \in Entered  BY <1>3 DEF Inside
  <2>2. emt[c].pc \notin {"cleanup", "read", "return", "waitDone"}
    BY <2>1, Goers DEF Leaving
  <2>3. emt[c].pc = EndOf(c)
    BY <2>1, <2>2 DEF IInv, PlacesOK, Outside, Entered, Turning
  <2>4. emt[c].caller  BY <2>2, <2>3 DEF EndOf
  <2> QED BY <2>1, <2>4 DEF IInv, LockOK, Holds
<1>4. Cardinality(Inside) = 1  BY <1>1, <1>3, CountOne, InsideFacts
<1>5. cReturned = cCpus - 1  BY <1>1, <1>4, CpuFacts
<1> QED BY <1>2, <1>5 DEF HasNext, At

(* No rendezvous hangs, and none keeps later callers out: in every state with a
   call, a rendezvous or its rest some EMT has a step to make, whatever the type,
   the order in which the EMTs come and the results of the callbacks.  An event
   that is cleared too late, signalled too early or to the wrong EMT would leave
   all of them waiting for each other. *)
THEOREM NobodyHangs == Spec => []NoStandstill
<1>1. IInv /\ HasNext => NoStandstill
  <2> SUFFICES ASSUME IInv, HasNext, NEW c \in Cpus, ~ At(c, "idle")
               PROVE  \E d \in Cpus : CanGo(d)
    BY DEF NoStandstill
  <2>1. CASE ~ armed /\ lock # NoCpu
    <3>1. lock \in Cpus /\ emt[lock].pc = "slate"  BY <2>1 DEF IInv, LockOK, TypeOK, At
    <3> QED BY <3>1, Goers
  <2>2. CASE ~ armed /\ lock = NoCpu
    <3>1. emt[c].pc \in {"spin", "leave", "slate"}
      BY <2>2 DEF IInv, PlacesOK, Outside, At
    <3> QED BY <2>2, <3>1, Goers
  <2>3. CASE Calling
    <3>1. lock \in Cpus /\ emt[lock].pc = "raise"
      BY <2>3 DEF Calling, IInv, LockOK, TypeOK, At
    <3> QED BY <3>1, Goers
  <2>4. CASE Coming  BY <2>4, ComingGoes
  <2>5. CASE Running  BY <2>5, RunningGoes
  <2>6. CASE Leaving  BY <2>6, LeavingGoes
  <2> QED BY <2>1, <2>2, <2>3, <2>4, <2>5, <2>6 DEF Calling, Coming, Running, Leaving
<1> QED BY <1>1, Inductive, NextAlways, PTL

=============================================================================
