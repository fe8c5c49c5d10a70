----------------------------- MODULE PDMQueue ------------------------------
(***************************************************************************)
(* A PDM queue that is driven by the force flag (FF) VM_FF_PDM_QUEUES:     *)
(* VBox/VMM/VMMAll/PDMAllQueue.cpp, VBox/VMM/VMMR3/PDMQueue.cpp.           *)
(*                                                                         *)
(* Any thread takes an item from a ring of free ones and pushes it on a    *)
(* LIFO list of its context, without a lock; some EMT sees the FF, takes   *)
(* the lists, reverses them and feeds the items to the consumer, which may *)
(* say "enough!".  Of two EMTs that see the FF one flushes and the other   *)
(* leaves it to that one.                                                  *)
(***************************************************************************)
EXTENDS Naturals, Sequences, FiniteSets, SequencesExt

CONSTANTS
  Emts,        \* the emulation threads
  Others,      \* the other threads that insert: of devices, drivers, the GUI
  cItems,      \* the number of items of the queue
  FreeSlack,   \* PDMQUEUE_FREE_SLACK: what the ring has more
  CtxsOf,      \* CtxsOf[t]: the contexts that thread t inserts from
  MaxInserts,  \* bound on the number of items that are allocated
  MaxRefusals  \* bound on how often the consumer says "enough!"

Ctxs == {"R3", "RC", "R0"}
Threads == Emts \cup Others
Items == 1 .. cItems
RingSize == cItems + FreeSlack

ASSUME ItemsAssumption == cItems \in Nat \ {0} /\ FreeSlack \in Nat \ {0}
ASSUME ThreadsAssumption == Emts \cap Others = {}
\* Only an EMT is ever in ring-0 or in the guest.
ASSUME CtxAssumption ==
  CtxsOf \in [Threads -> SUBSET Ctxs] /\ \A t \in Others : CtxsOf[t] \subseteq {"R3"}
ASSUME BoundAssumption == MaxInserts \in Nat /\ MaxRefusals \in Nat

VARIABLES
  aFreeItems, iFreeHead, iFreeTail, \* the ring of free items
  pPending,   \* pPendingR3, RC and R0: LIFO lists, the newest item first
  ff,         \* VM_FF_PDM_QUEUES
  flushing,   \* the bits of fQueueFlushing: [active, pending]
  ins,        \* where each thread is in PDMQueueAlloc and PDMQueueInsert
  emt,        \* where each EMT is in PDMR3QueueFlushAll, and what it has taken
  consumed,   \* the last item the consumer has dealt with
  leftOver,   \* history: the items the consumer did not want, until they are pushed again
  missed,     \* history: an EMT left the work to another before the pending bit was raised
  late,       \* history: the threads in PDMQueueAlloc that slept while the ring went round
  stale,      \* history: such a thread has got an item that was not there any more
  inserts, refusals

ring == <<aFreeItems, iFreeHead, iFreeTail>>
flags == <<ff, flushing>>
past == <<late, stale>>
counts == <<inserts, refusals>>
vars == <<ring, pPending, flags, ins, emt, consumed, leftOver, missed, past, counts>>

NoItem == 0
NoneTaken == [ctx \in Ctxs |-> <<>>]
Away == [pc |-> "away", item |-> NoItem, i |-> 0, ctx |-> "R3"]
Idle == [pc |-> "idle", taken |-> NoneTaken]

\* pdmR3QueueCreate.
Init ==
  /\ aFreeItems = [i \in 0 .. RingSize - 1 |-> IF i < cItems THEN i + 1 ELSE NoItem]
  /\ iFreeHead = cItems /\ iFreeTail = 0
  /\ pPending = NoneTaken
  /\ ff = FALSE /\ flushing = [active |-> FALSE, pending |-> FALSE]
  /\ ins = [t \in Threads |-> Away]
  /\ emt = [e \in Emts |-> Idle]
  /\ consumed = NoItem /\ leftOver = {} /\ missed = FALSE
  /\ late = {} /\ stale = FALSE
  /\ inserts = 0 /\ refusals = 0

\* Mutant: the index is not taken modulo the size.
NoWrap(i) == i + 1
NextSlot(i) == (i + 1) % RingSize

-----------------------------------------------------------------------------
(* PDMQueueAlloc and PDMQueueInsert, by any thread. *)

InsAt(t, l) == ins[t].pc = l
InsGoto(t, l) == ins' = [ins EXCEPT ![t].pc = l]

\* An EMT does one thing at a time.
MayInsert(t) == InsAt(t, "away") /\ (t \in Emts => emt[t].pc = "idle")

\* The loop of PDMQueueAlloc up to the compare-and-swap.  A failure changes nothing.
AllocRead(t, ctx) ==
  /\ MayInsert(t) /\ ctx \in CtxsOf[t]
  /\ inserts < MaxInserts /\ inserts' = inserts + 1
  /\ iFreeTail # iFreeHead
  /\ ins' = [ins EXCEPT ![t] = [pc |-> "alloc", item |-> aFreeItems[iFreeTail],
                                i |-> iFreeTail, ctx |-> ctx]]
  /\ UNCHANGED <<ring, pPending, flags, emt, consumed, leftOver, missed, refusals, past>>

\* Mutant: the item is read only once.
ItemOnce(t) == ins[t].item
ItemNow(t) == aFreeItems[iFreeTail]

\* The item that was read is still the one to hand out.
Fresh(t) == iFreeTail # iFreeHead /\ aFreeItems[iFreeTail] = ins[t].item

\* The tail is about to come to the index that a thread has read before, the whole
\* ring later: its compare-and-swap cannot tell.
ComesRoundTo == {t \in Threads : InsAt(t, "alloc") /\ ins[t].i = NextSlot(iFreeTail)}

\* The compare-and-swap of the tail; when it fails the loop starts again.
AllocCas(t) ==
  /\ InsAt(t, "alloc")
  /\ \/ /\ iFreeTail = ins[t].i
        /\ iFreeTail' = NextSlot(iFreeTail)
        /\ InsGoto(t, "push")
        /\ late' = (late \cup ComesRoundTo) \ {t}
        /\ stale' = (t \in late /\ ~ Fresh(t))
     \/ /\ iFreeTail # ins[t].i
        /\ IF iFreeTail # iFreeHead
           THEN ins' = [ins EXCEPT ![t].item = ItemNow(t), ![t].i = iFreeTail]
           ELSE ins' = [ins EXCEPT ![t] = Away]
        /\ late' = late \ {t} /\ UNCHANGED <<iFreeTail, stale>>
  /\ UNCHANGED <<aFreeItems, iFreeHead, pPending, flags, emt, consumed, leftOver, missed, counts>>

\* The push is one compare-and-swap: one that fails changes nothing and is tried again.
Push(t) ==
  /\ InsAt(t, "push")
  /\ pPending' = [pPending EXCEPT ![ins[t].ctx] = <<ins[t].item>> \o @]
  /\ leftOver' = leftOver \ {ins[t].item}
  /\ ins' = [ins EXCEPT ![t].pc = "setFF", ![t].item = NoItem]
  /\ UNCHANGED <<ring, flags, emt, consumed, missed, counts, past>>

SetFF(t) ==
  /\ InsAt(t, "setFF")
  /\ ff' = TRUE /\ missed' = FALSE
  /\ InsGoto(t, "setPending")
  /\ UNCHANGED <<ring, pPending, flushing, emt, consumed, leftOver, counts, past>>

\* Mutant: only the FF is raised.
NoPendingBit(t) ==
  /\ InsAt(t, "setPending")
  /\ ins' = [ins EXCEPT ![t] = Away]
  /\ UNCHANGED <<ring, pPending, flags, emt, consumed, leftOver, missed, counts, past>>

\* ASMAtomicBitSet; VMR3NotifyGlobalFFU makes the EMTs look at the FF.
SetPending(t) ==
  /\ InsAt(t, "setPending")
  /\ flushing' = [flushing EXCEPT !.pending = TRUE]
  /\ ins' = [ins EXCEPT ![t] = Away]
  /\ UNCHANGED <<ring, pPending, ff, emt, consumed, leftOver, missed, counts, past>>

-----------------------------------------------------------------------------
(* PDMR3QueueFlushAll, by an EMT. *)

At(e, l) == emt[e].pc = l
Goto(e, l) == emt' = [emt EXCEPT ![e].pc = l]

PDMR3QueueFlushAll(e) ==
  /\ At(e, "idle") /\ InsAt(e, "away") /\ ff
  /\ ff' = FALSE
  /\ Goto(e, "try")
  /\ UNCHANGED <<ring, pPending, flushing, ins, consumed, leftOver, missed, counts, past>>

\* Mutant: the bit is tested and then set, so that both EMTs may pass.
BitFree == TRUE
ActiveFree == ~flushing.active

\* ASMAtomicBitTestAndSet of the active bit.
TestAndSet(e) ==
  /\ At(e, "try")
  /\ IF ActiveFree
     THEN flushing' = [flushing EXCEPT !.active = TRUE] /\ Goto(e, "clear") /\ UNCHANGED missed
     ELSE /\ Goto(e, "idle") /\ UNCHANGED flushing
          /\ missed' = (missed \/ \E t \in Threads : InsAt(t, "setPending"))
  /\ UNCHANGED <<ring, pPending, ff, ins, consumed, leftOver, counts, past>>

ClearPending(e) ==
  /\ At(e, "clear")
  /\ flushing' = [flushing EXCEPT !.pending = FALSE]
  /\ Goto(e, "scan")
  /\ UNCHANGED <<ring, pPending, ff, ins, consumed, leftOver, missed, counts, past>>

\* The loop over the forced queues passes by one that has nothing pending.
Scan(e) ==
  /\ At(e, "scan")
  /\ Goto(e, IF pPending # NoneTaken THEN "takeR3" ELSE "release")
  /\ UNCHANGED <<ring, pPending, flags, ins, consumed, leftOver, missed, counts, past>>

Release(e) ==
  /\ At(e, "release")
  /\ flushing' = [flushing EXCEPT !.active = FALSE]
  /\ Goto(e, "check")
  /\ UNCHANGED <<ring, pPending, ff, ins, consumed, leftOver, missed, counts, past>>

\* Mutant: the pending bit is not looked at.
NothingCame == TRUE
NothingPending == ~flushing.pending

\* "We're done if there were no inserts while we were busy."
CheckPending(e) ==
  /\ At(e, "check")
  /\ Goto(e, IF NothingPending THEN "checkFF" ELSE "again")
  /\ UNCHANGED <<ring, pPending, flags, ins, consumed, leftOver, missed, counts, past>>

CheckFF(e) ==
  /\ At(e, "checkFF")
  /\ Goto(e, IF ff THEN "again" ELSE "idle")
  /\ UNCHANGED <<ring, pPending, flags, ins, consumed, leftOver, missed, counts, past>>

Again(e) ==
  /\ At(e, "again")
  /\ ff' = FALSE
  /\ Goto(e, "try")
  /\ UNCHANGED <<ring, pPending, flushing, ins, consumed, leftOver, missed, counts, past>>

-----------------------------------------------------------------------------
(* pdmR3QueueFlush. *)

OldestFirst(list) == Reverse(list)

\* The three exchanges, one after the other.
Take(e, ctx, here, next) ==
  /\ At(e, here)
  /\ emt' = [emt EXCEPT ![e].pc = next, ![e].taken[ctx] = OldestFirst(pPending[ctx])]
  /\ pPending' = [pPending EXCEPT ![ctx] = <<>>]
  /\ UNCHANGED <<ring, flags, ins, consumed, leftOver, missed, counts, past>>

TakeLists(e) ==
  \/ Take(e, "R3", "takeR3", "takeRC")
  \/ Take(e, "RC", "takeRC", "takeR0")
  \/ Take(e, "R0", "takeR0", "feed")

\* The items of ring-0 come first, then those of the guest context, then ring-3.
InOrder(taken) == taken["R0"] \o (taken["RC"] \o taken["R3"])
First(taken) == IF taken["R0"] # <<>> THEN "R0" ELSE IF taken["RC"] # <<>> THEN "RC" ELSE "R3"

\* The consumer deals with the first item and says whether it goes on.
Consume(e) ==
  LET taken == emt[e].taken
  IN  /\ At(e, "feed") /\ taken # NoneTaken
      /\ consumed' = Head(InOrder(taken))
      /\ emt' = [emt EXCEPT ![e].pc = "free", ![e].taken[First(taken)] = Tail(@)]
      /\ UNCHANGED <<ring, pPending, flags, ins, leftOver, missed, counts, past>>

\* pdmR3QueueFree.
Free(e) ==
  /\ At(e, "free")
  /\ aFreeItems' = [aFreeItems EXCEPT ![iFreeHead] = consumed]
  /\ iFreeHead' = NextSlot(iFreeHead)
  /\ Goto(e, "feed")
  /\ UNCHANGED <<iFreeTail, pPending, flags, ins, consumed, leftOver, missed, counts, past>>

Fed(e) ==
  /\ At(e, "feed") /\ emt[e].taken = NoneTaken
  /\ Goto(e, "release")
  /\ UNCHANGED <<ring, pPending, flags, ins, consumed, leftOver, missed, counts, past>>

\* "Enough!": what is left goes back, all of it to the list of ring-3.
Refuse(e) ==
  LET taken == emt[e].taken
  IN  /\ At(e, "feed") /\ taken # NoneTaken
      /\ refusals < MaxRefusals /\ refusals' = refusals + 1
      /\ emt' = [emt EXCEPT ![e] = [pc |-> "putBack", taken |-> [NoneTaken EXCEPT !["R3"] = InOrder(taken)]]]
      /\ leftOver' = leftOver \cup ToSet(InOrder(taken))
      /\ UNCHANGED <<ring, pPending, flags, ins, consumed, missed, inserts, past>>

\* Mutant: what came meanwhile is put behind what is left, where it looks older.
BeforeNew(left, new) == Reverse(new) \o left
AfterOld(left, new) == left \o Reverse(new)

\* The list goes back when the pending list is empty, else takes it along first.
PutBack(e) ==
  LET left == emt[e].taken["R3"]
  IN  /\ At(e, "putBack")
      /\ \/ /\ pPending["R3"] = <<>>
            /\ pPending' = [pPending EXCEPT !["R3"] = Reverse(left)]
            /\ emt' = [emt EXCEPT ![e] = [pc |-> "release", taken |-> NoneTaken]]
         \/ /\ pPending["R3"] # <<>>
            /\ emt' = [emt EXCEPT ![e].taken["R3"] = AfterOld(left, pPending["R3"])]
            /\ pPending' = [pPending EXCEPT !["R3"] = <<>>]
      /\ UNCHANGED <<ring, flags, ins, consumed, leftOver, missed, counts, past>>

-----------------------------------------------------------------------------
Insert(t) == AllocCas(t) \/ Push(t) \/ SetFF(t) \/ SetPending(t)

Flush(e) ==
  \/ PDMR3QueueFlushAll(e) \/ TestAndSet(e) \/ ClearPending(e) \/ Scan(e) \/ TakeLists(e)
  \/ Consume(e) \/ Free(e) \/ Fed(e) \/ PutBack(e) \/ Release(e) \/ CheckPending(e)
  \/ CheckFF(e) \/ Again(e)

\* Two owners of one item would link it twice, and the lists would no longer be
\* sequences: the model ends when that comes about.
Next ==
  /\ ~ stale
  /\ \/ \E t \in Threads : Insert(t) \/ \E ctx \in Ctxs : AllocRead(t, ctx)
     \/ \E e \in Emts : Flush(e) \/ Refuse(e)

Spec == Init /\ [][Next]_vars

\* A thread that has begun to insert goes on; an EMT looks at the FFs again and
\* again and finishes a flush.  Nobody has to insert, and the consumer need not refuse.
LiveSpec ==
  /\ Spec
  /\ \A t \in Threads : WF_vars(~ stale /\ Insert(t))
  /\ \A e \in Emts : WF_vars(~ stale /\ Flush(e))

-----------------------------------------------------------------------------
(* Properties. *)

InsPcs == {"away", "alloc", "push", "setFF", "setPending"}
Flushing == {"clear", "scan", "takeR3", "takeRC", "takeR0", "feed", "free", "putBack", "release"}
EmtPcs == {"idle", "try", "check", "checkFF", "again"} \cup Flushing

Slots == 0 .. RingSize - 1
InsType == [pc : InsPcs, item : Items \cup {NoItem}, i : Slots, ctx : Ctxs]
EmtType == [pc : EmtPcs, taken : [Ctxs -> Seq(Items)]]

\* The types; the indices of the ring stay in the ring.
TypeOK ==
  /\ aFreeItems \in [Slots -> Items \cup {NoItem}]
  /\ iFreeHead \in Slots /\ iFreeTail \in Slots
  /\ pPending \in [Ctxs -> Seq(Items)]
  /\ ff \in BOOLEAN /\ flushing \in [active : BOOLEAN, pending : BOOLEAN]
  /\ ins \in [Threads -> InsType]
  /\ emt \in [Emts -> EmtType]
  /\ consumed \in Items \cup {NoItem} /\ leftOver \subseteq Items /\ missed \in BOOLEAN
  /\ late \subseteq Threads /\ stale \in BOOLEAN
  /\ inserts \in 0 .. MaxInserts /\ refusals \in 0 .. MaxRefusals

\* One EMT flushes at a time, and only while the active bit says so; nobody else
\* holds items that were taken from the lists.
OneFlusher ==
  /\ \A e \in Emts : emt[e].pc \in Flushing => flushing.active
  /\ \A e, f \in Emts : emt[e].pc \in Flushing /\ emt[f].pc \in Flushing => e = f
  /\ \A e \in Emts : emt[e].pc \notin Flushing => emt[e].taken = NoneTaken

FreeSlots == {i \in Slots : IF iFreeTail <= iFreeHead THEN iFreeTail <= i /\ i < iFreeHead
                            ELSE iFreeTail <= i \/ i < iFreeHead}

\* The places that hold item x.
Places(x) ==
  {<<"ring", i>> : i \in {j \in FreeSlots : aFreeItems[j] = x}}
  \cup {<<"thread", t>> : t \in {u \in Threads : InsAt(u, "push") /\ ins[u].item = x}}
  \cup {<<"list", c>> : c \in {ctx \in Ctxs : x \in ToSet(pPending[ctx])}}
  \cup {<<"taken", e>> : e \in {f \in Emts : x \in ToSet(InOrder(emt[f].taken))}}
  \cup {<<"consumer", e>> : e \in {f \in Emts : At(f, "free") /\ consumed = x}}

\* An item is in one place, and once: free, with the thread that fills it, on one
\* list, or with the EMT that flushes.  None is lost and none is handed out twice.
\* This is what PDMQueueAlloc and pdmR3QueueFree are after, not what they achieve.
InOnePlace ==
  /\ \A x \in Items : Cardinality(Places(x)) = 1
  /\ \A ctx \in Ctxs : IsInjective(pPending[ctx])
  /\ \A e \in Emts : IsInjective(InOrder(emt[e].taken))

\* An item gets a second owner, and another gets none, in one case only: a thread
\* slept in PDMQueueAlloc, between reading the item and the compare-and-swap, while
\* the tail went round the whole ring.  Whatever else happens, InOnePlace holds.
KeptUnlessStale == stale \/ InOnePlace

Waiting(x) == \E ctx \in Ctxs : x \in ToSet(pPending[ctx])
Quiet == (\A t \in Threads : InsAt(t, "away")) /\ (\A e \in Emts : At(e, "idle"))

\* "Queue inserts occurring during the flush are caught using the pending bit."
InsertsCaught == Quiet /\ ~ff => \A x \in Items : Waiting(x) => x \in leftOver

\* An insert goes unnoticed in one case only: another EMT has lowered the FF and
\* left the work to the one that flushes before the pending bit was raised.
CaughtUnlessMissed == missed \/ InsertsCaught

\* Whatever is inserted is taken up, except in that case and when the ring has
\* given out an item that it did not have.
TakenUp ==
  \A x \in Items : Waiting(x) ~> (~Waiting(x) \/ x \in leftOver \/ missed \/ stale)

\* The queue implements its promise: the items of a context come in order, each is
\* offered once, and "enough!" puts those that were taken in front in ring-3.  That
\* is so until a stale item is handed out.
Taken(ctx) ==
  IF \E e \in Emts : emt[e].taken # NoneTaken
  THEN emt[CHOOSE e \in Emts : emt[e].taken # NoneTaken].taken[ctx] ELSE <<>>

Promise == INSTANCE PDMQueueService WITH
  line <- [ctx \in Ctxs |-> Taken(ctx) \o Reverse(pPending[ctx])],
  consumed <- consumed

ImplementsService == Promise!Spec
=============================================================================
