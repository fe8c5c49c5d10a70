--------------------------- MODULE PDMQueueProofs ---------------------------
(***************************************************************************)
(* Theorems about PDMQueue, for every number of EMTs, of inserting threads *)
(* and of items.                                                           *)
(*                                                                         *)
(* An item that waits is owed to somebody: a thread that is about to raise *)
(* the force flag, the flag itself, an EMT that has lowered it, a flusher  *)
(* that has not come to the list yet, or a flusher that will find the      *)
(* pending bit set when it is done.                                        *)
(***************************************************************************)
EXTENDS PDMQueue, SequenceTheorems, FiniteSetTheorems, TLAPS

-----------------------------------------------------------------------------
(* Lemmas about the data. *)

LEMMA Sizes == RingSize \in Nat /\ RingSize > cItems /\ cItems > 0 /\ cItems \in Nat
BY ItemsAssumption DEF RingSize

LEMMA NextSlotIs ==
  ASSUME NEW i \in Slots
  PROVE  NextSlot(i) \in Slots /\ NextSlot(i) = IF i = RingSize - 1 THEN 0 ELSE i + 1
BY Sizes DEF NextSlot, Slots

LEMMA ToSetReverse ==
  ASSUME NEW s \in Seq(Items)
  PROVE  Reverse(s) \in Seq(Items) /\ ToSet(Reverse(s)) = ToSet(s)
<1> DEFINE n == Len(s)
<1>1. n \in Nat /\ DOMAIN s = 1 .. n /\ \A i \in 1 .. n : s[i] \in Items
  BY LenProperties, ElementOfSeq
<1>2. \A i \in 1 .. n : (n - i) + 1 \in 1 .. n  BY <1>1
<1>3. Reverse(s) = [i \in 1 .. n |-> s[(n - i) + 1]]  BY DEF Reverse
<1>4. Reverse(s) \in [1 .. n -> Items]  BY <1>1, <1>2, <1>3
<1>5. Reverse(s) \in Seq(Items)  BY <1>1, <1>4, SeqDef
<1>6. ASSUME NEW i \in 1 .. n PROVE s[i] = Reverse(s)[(n - i) + 1]
  BY <1>1, <1>2, <1>3
<1>7. DOMAIN Reverse(s) = 1 .. n  BY <1>3
<1>8. ToSet(Reverse(s)) \subseteq ToSet(s)  BY <1>1, <1>2, <1>3, <1>7 DEF ToSet
<1>9. ToSet(s) \subseteq ToSet(Reverse(s))  BY <1>1, <1>2, <1>6, <1>7 DEF ToSet
<1> QED BY <1>5, <1>8, <1>9

LEMMA ToSetConcat ==
  ASSUME NEW s \in Seq(Items), NEW t \in Seq(Items)
  PROVE  s \o t \in Seq(Items) /\ ToSet(s \o t) = ToSet(s) \cup ToSet(t)
<1>1. s \o t \in Seq(Items) /\ Range(s \o t) = Range(s) \cup Range(t)
  BY ConcatProperties, RangeConcatenation
<1> QED BY <1>1 DEF Range, ToSet

LEMMA ToSetEmpty == ToSet(<<>>) = {} /\ <<>> \in Seq(Items)
BY EmptySeq DEF ToSet

LEMMA ToSetOne ==
  ASSUME NEW x \in Items
  PROVE  <<x>> \in Seq(Items) /\ ToSet(<<x>>) = {x}
BY DEF ToSet

LEMMA InjectiveOne == \A x : IsInjective(<<x>>)
BY DEF IsInjective

LEMMA InjectiveConcat ==
  ASSUME NEW s \in Seq(Items), NEW t \in Seq(Items)
  PROVE  IsInjective(s \o t) <=> /\ IsInjective(s) /\ IsInjective(t)
                                 /\ ToSet(s) \cap ToSet(t) = {}
<1> DEFINE m == Len(s)
           n == Len(t)
<1>1. /\ m \in Nat /\ DOMAIN s = 1 .. m /\ n \in Nat /\ DOMAIN t = 1 .. n
      /\ DOMAIN (s \o t) = 1 .. m + n
      /\ \A i \in 1 .. m + n : (s \o t)[i] = IF i <= m THEN s[i] ELSE t[i - m]
  BY LenProperties, ConcatProperties
<1>2. ASSUME IsInjective(s \o t) PROVE IsInjective(s)
  BY <1>1, <1>2 DEF IsInjective
<1>3. ASSUME NEW j \in 1 .. n PROVE m + j \in 1 .. m + n /\ (s \o t)[m + j] = t[j]
  <2>1. m + j \in 1 .. m + n /\ ~ (m + j <= m) /\ (m + j) - m = j  BY <1>1
  <2> QED BY <1>1, <2>1
<1>4. ASSUME IsInjective(s \o t) PROVE IsInjective(t)
  <2>1. ASSUME NEW i \in 1 .. n, NEW j \in 1 .. n, t[i] = t[j] PROVE i = j
    <3>1. m + i = m + j  BY <1>1, <1>3, <1>4, <2>1 DEF IsInjective
    <3> QED BY <1>1, <3>1
  <2> QED BY <1>1, <2>1 DEF IsInjective
<1>5. ASSUME IsInjective(s \o t), NEW i \in 1 .. m, NEW j \in 1 .. n, s[i] = t[j] PROVE FALSE
  <2>1. i \in 1 .. m + n /\ (s \o t)[i] = s[i] /\ i # m + j  BY <1>1
  <2>2. (s \o t)[i] = (s \o t)[m + j]  BY <1>3, <1>5, <2>1
  <2> QED BY <1>1, <1>3, <1>5, <2>1, <2>2 DEF IsInjective
<1>6. ASSUME IsInjective(s), IsInjective(t), ToSet(s) \cap ToSet(t) = {},
             NEW i \in 1 .. m + n, NEW j \in 1 .. m + n, (s \o t)[i] = (s \o t)[j]
      PROVE  i = j
  <2>1. CASE i <= m /\ j <= m  BY <1>1, <1>6, <2>1 DEF IsInjective
  <2>2. CASE i > m /\ j > m
    <3>1. i - m \in 1 .. n /\ j - m \in 1 .. n /\ t[i - m] = t[j - m]  BY <1>1, <1>6, <2>2
    <3>2. i - m = j - m  BY <1>1, <1>6, <3>1 DEF IsInjective
    <3> QED BY <1>1, <3>2
  <2>3. CASE i <= m /\ j > m
    <3>1. i \in 1 .. m /\ j - m \in 1 .. n /\ s[i] = t[j - m]  BY <1>1, <1>6, <2>3
    <3> QED BY <1>1, <1>6, <3>1 DEF ToSet
  <2>4. CASE i > m /\ j <= m
    <3>1. j \in 1 .. m /\ i - m \in 1 .. n /\ s[j] = t[i - m]  BY <1>1, <1>6, <2>4
    <3> QED BY <1>1, <1>6, <3>1 DEF ToSet
  <2> QED BY <1>1, <2>1, <2>2, <2>3, <2>4
<1>7. IsInjective(s \o t) => ToSet(s) \cap ToSet(t) = {}
  BY <1>1, <1>5 DEF ToSet
<1>8. IsInjective(s) /\ IsInjective(t) /\ ToSet(s) \cap ToSet(t) = {} => IsInjective(s \o t)
  BY <1>1, <1>6 DEF IsInjective
<1> QED BY <1>2, <1>4, <1>7, <1>8

LEMMA InjectiveReverse ==
  ASSUME NEW s \in Seq(Items), IsInjective(s)
  PROVE  IsInjective(Reverse(s))
<1> DEFINE n == Len(s)
<1>1. n \in Nat /\ DOMAIN s = 1 .. n  BY LenProperties
<1>2. Reverse(s) = [i \in 1 .. n |-> s[(n - i) + 1]]  BY DEF Reverse
<1>3. ASSUME NEW i \in 1 .. n, NEW j \in 1 .. n, Reverse(s)[i] = Reverse(s)[j] PROVE i = j
  <2>1. (n - i) + 1 \in 1 .. n /\ (n - j) + 1 \in 1 .. n  BY <1>1
  <2>2. s[(n - i) + 1] = s[(n - j) + 1]  BY <1>2, <1>3
  <2>3. (n - i) + 1 = (n - j) + 1  BY <1>1, <2>1, <2>2 DEF IsInjective
  <2> QED BY <1>1, <2>3
<1> QED BY <1>2, <1>3 DEF IsInjective

LEMMA ReverseTwice ==
  ASSUME NEW s \in Seq(Items)
  PROVE  Reverse(Reverse(s)) = s
<1> DEFINE n == Len(s)
           r == Reverse(s)
<1>1. n \in Nat /\ s \in [1 .. n -> Items]  BY LenProperties
<1>2. r = [i \in 1 .. n |-> s[(n - i) + 1]] /\ r \in Seq(Items)  BY ToSetReverse DEF Reverse
<1>3. Len(r) = n  BY <1>1, <1>2, LenProperties
<1>4. Reverse(r) = [i \in 1 .. n |-> r[(n - i) + 1]]  BY <1>3 DEF Reverse
<1>5. \A i \in 1 .. n : (n - i) + 1 \in 1 .. n /\ (n - ((n - i) + 1)) + 1 = i  BY <1>1
<1>6. \A i \in 1 .. n : r[(n - i) + 1] = s[i]  BY <1>2, <1>5
<1> QED BY <1>1, <1>4, <1>6

LEMMA HeadTailSet ==
  ASSUME NEW s \in Seq(Items), s # <<>>
  PROVE  /\ Head(s) \in Items /\ Tail(s) \in Seq(Items) /\ s = <<Head(s)>> \o Tail(s)
         /\ ToSet(s) = {Head(s)} \cup ToSet(Tail(s))
         /\ IsInjective(s) => IsInjective(Tail(s)) /\ Head(s) \notin ToSet(Tail(s))
<1>1. Head(s) \in Items /\ Tail(s) \in Seq(Items)  BY HeadTailProperties
<1>2. s = <<Head(s)>> \o Tail(s)
  <2>1. s \in [1 .. Len(s) -> Items] /\ Len(s) \in Nat /\ Len(s) # 0
    BY LenProperties, EmptySeq
  <2> QED BY <2>1
<1>3. <<Head(s)>> \in Seq(Items) /\ ToSet(<<Head(s)>>) = {Head(s)}  BY <1>1, ToSetOne
<1>4. ToSet(s) = {Head(s)} \cup ToSet(Tail(s))  BY <1>1, <1>2, <1>3, ToSetConcat
<1>5. IsInjective(s) => IsInjective(Tail(s)) /\ Head(s) \notin ToSet(Tail(s))
  <2>1. ASSUME IsInjective(s) PROVE ToSet(<<Head(s)>>) \cap ToSet(Tail(s)) = {} /\ IsInjective(Tail(s))
    <3>1. IsInjective(<<Head(s)>> \o Tail(s))  BY <1>2, <2>1
    <3> QED BY <1>1, <1>3, <3>1, InjectiveConcat
  <2> QED BY <1>3, <2>1
<1> QED BY <1>1, <1>2, <1>4, <1>5

LEMMA TailConcat ==
  ASSUME NEW s \in Seq(Items), NEW t \in Seq(Items), s # <<>>
  PROVE  s \o t # <<>> /\ Head(s \o t) = Head(s) /\ Tail(s \o t) = Tail(s) \o t
<1> DEFINE x == Head(s)
           r == Tail(s)
<1>1. x \in Items /\ r \in Seq(Items) /\ s = <<x>> \o r  BY HeadTailSet
<1>2. s \o t = <<x>> \o (r \o t)
  BY <1>1, ToSetOne, ConcatAssociative
<1>3. r \o t \in Seq(Items)  BY <1>1, ToSetConcat
<1>4. ASSUME NEW q \in Seq(Items)
      PROVE  <<x>> \o q # <<>> /\ Head(<<x>> \o q) = x /\ Tail(<<x>> \o q) = q
  <2>1. q \in [1 .. Len(q) -> Items] /\ Len(q) \in Nat  BY LenProperties
  <2> QED BY <1>1, <2>1
<1> QED BY <1>2, <1>3, <1>4

LEMMA EmptyConcat == \A s \in Seq(Items) : <<>> \o s = s /\ s \o <<>> = s
BY ConcatEmptySeq

LEMMA ThreeSets ==
  ASSUME NEW a \in Seq(Items), NEW b \in Seq(Items), NEW c \in Seq(Items)
  PROVE  /\ a \o (b \o c) \in Seq(Items)
         /\ ToSet(a \o (b \o c)) = ToSet(a) \cup ToSet(b) \cup ToSet(c)
         /\ IsInjective(a \o (b \o c)) <=>
              /\ IsInjective(a) /\ IsInjective(b) /\ IsInjective(c)
              /\ ToSet(a) \cap ToSet(b) = {} /\ ToSet(b) \cap ToSet(c) = {}
              /\ ToSet(a) \cap ToSet(c) = {}
<1> DEFINE bc == b \o c
<1>1. bc \in Seq(Items) /\ ToSet(bc) = ToSet(b) \cup ToSet(c)  BY ToSetConcat
<1>2. IsInjective(bc) <=> IsInjective(b) /\ IsInjective(c) /\ ToSet(b) \cap ToSet(c) = {}
  BY InjectiveConcat
<1> HIDE DEF bc
<1>3. a \o bc \in Seq(Items) /\ ToSet(a \o bc) = ToSet(a) \cup ToSet(bc)
  BY <1>1, ToSetConcat
<1>4. IsInjective(a \o bc) <=> IsInjective(a) /\ IsInjective(bc) /\ ToSet(a) \cap ToSet(bc) = {}
  BY <1>1, InjectiveConcat
<1>5. ToSet(a \o bc) = ToSet(a) \cup ToSet(b) \cup ToSet(c)  BY <1>1, <1>3
<1>6. IsInjective(a \o bc) <=>
        /\ IsInjective(a) /\ IsInjective(b) /\ IsInjective(c)
        /\ ToSet(a) \cap ToSet(b) = {} /\ ToSet(b) \cap ToSet(c) = {} /\ ToSet(a) \cap ToSet(c) = {}
  BY <1>1, <1>2, <1>4
<1> QED BY <1>3, <1>5, <1>6 DEF bc

LEMMA ThreeSeqs ==
  ASSUME NEW a \in Seq(Items), NEW b \in Seq(Items), NEW c \in Seq(Items)
  PROVE  LET q == a \o (b \o c)
         IN  /\ a # <<>> => q # <<>> /\ Head(q) = Head(a) /\ Tail(q) = Tail(a) \o (b \o c)
             /\ a = <<>> /\ b # <<>> => q # <<>> /\ Head(q) = Head(b) /\ Tail(q) = Tail(b) \o c
             /\ a = <<>> /\ b = <<>> => q = c
             /\ a = <<>> => q = b \o c
<1> DEFINE bc == b \o c
<1>1. bc \in Seq(Items)  BY ToSetConcat
<1>2. b # <<>> => bc # <<>> /\ Head(bc) = Head(b) /\ Tail(bc) = Tail(b) \o c  BY TailConcat
<1>3. b = <<>> => bc = c  BY EmptyConcat
<1>4. a # <<>> => a \o bc # <<>> /\ Head(a \o bc) = Head(a) /\ Tail(a \o bc) = Tail(a) \o bc
  BY <1>1, TailConcat
<1>5. a = <<>> => a \o bc = bc  BY <1>1, EmptyConcat
<1> HIDE DEF bc
<1>6. /\ a # <<>> => a \o bc # <<>> /\ Head(a \o bc) = Head(a) /\ Tail(a \o bc) = Tail(a) \o bc
      /\ a = <<>> /\ b # <<>> => a \o bc # <<>> /\ Head(a \o bc) = Head(b) /\ Tail(a \o bc) = Tail(b) \o c
      /\ a = <<>> /\ b = <<>> => a \o bc = c
      /\ a = <<>> => a \o bc = bc
  BY <1>2, <1>3, <1>4, <1>5
<1> QED BY <1>6 DEF bc

LEMMA InOrderSet ==
  ASSUME NEW taken \in [Ctxs -> Seq(Items)]
  PROVE  /\ InOrder(taken) \in Seq(Items)
         /\ ToSet(InOrder(taken)) = UNION {ToSet(taken[c]) : c \in Ctxs}
         /\ IsInjective(InOrder(taken)) <=>
              /\ \A c \in Ctxs : IsInjective(taken[c])
              /\ \A c, d \in Ctxs : c # d => ToSet(taken[c]) \cap ToSet(taken[d]) = {}
<1>1. PICK a \in Seq(Items), b \in Seq(Items), c \in Seq(Items) :
        taken["R0"] = a /\ taken["RC"] = b /\ taken["R3"] = c
  BY DEF Ctxs
<1>2. InOrder(taken) = a \o (b \o c)  BY <1>1 DEF InOrder
<1>3. /\ InOrder(taken) \in Seq(Items) /\ ToSet(InOrder(taken)) = ToSet(a) \cup ToSet(b) \cup ToSet(c)
      /\ IsInjective(InOrder(taken)) <=>
           /\ IsInjective(a) /\ IsInjective(b) /\ IsInjective(c)
           /\ ToSet(a) \cap ToSet(b) = {} /\ ToSet(b) \cap ToSet(c) = {} /\ ToSet(a) \cap ToSet(c) = {}
  <2>1. /\ a \o (b \o c) \in Seq(Items)
        /\ ToSet(a \o (b \o c)) = ToSet(a) \cup ToSet(b) \cup ToSet(c)
        /\ IsInjective(a \o (b \o c)) <=>
             /\ IsInjective(a) /\ IsInjective(b) /\ IsInjective(c)
             /\ ToSet(a) \cap ToSet(b) = {} /\ ToSet(b) \cap ToSet(c) = {}
             /\ ToSet(a) \cap ToSet(c) = {}
    BY ThreeSets
  <2> QED BY <1>2, <2>1
<1>4. ToSet(InOrder(taken)) = UNION {ToSet(taken[d]) : d \in Ctxs}  BY <1>1, <1>3 DEF Ctxs
<1>5. IsInjective(InOrder(taken)) <=>
        /\ \A d \in Ctxs : IsInjective(taken[d])
        /\ \A d, g \in Ctxs : d # g => ToSet(taken[d]) \cap ToSet(taken[g]) = {}
  BY <1>1, <1>3 DEF Ctxs
<1> QED BY <1>3, <1>4, <1>5

LEMMA InOrderFirst ==
  ASSUME NEW taken \in [Ctxs -> Seq(Items)], taken # NoneTaken
  PROVE  /\ InOrder(taken) # <<>>
         /\ First(taken) \in Ctxs /\ taken[First(taken)] # <<>>
         /\ Head(InOrder(taken)) = Head(taken[First(taken)])
         /\ InOrder([taken EXCEPT ![First(taken)] = Tail(@)]) = Tail(InOrder(taken))
<1> DEFINE next == [taken EXCEPT ![First(taken)] = Tail(@)]
<1>1. PICK a \in Seq(Items), b \in Seq(Items), c \in Seq(Items) :
        taken["R0"] = a /\ taken["RC"] = b /\ taken["R3"] = c
  BY DEF Ctxs
<1>2. InOrder(taken) = a \o (b \o c)  BY <1>1 DEF InOrder
<1>3. a # <<>> \/ b # <<>> \/ c # <<>>  BY <1>1 DEF NoneTaken, Ctxs
<1>4. CASE a # <<>>
  <2>1. First(taken) = "R0"  BY <1>1, <1>4 DEF First
  <2>2. next["R0"] = Tail(a) /\ next["RC"] = b /\ next["R3"] = c  BY <1>1, <2>1 DEF Ctxs
  <2>3. InOrder(next) = Tail(a) \o (b \o c)  BY <2>2 DEF InOrder
  <2>4. /\ a \o (b \o c) # <<>> /\ Head(a \o (b \o c)) = Head(a)
        /\ Tail(a \o (b \o c)) = Tail(a) \o (b \o c)
    BY <1>4, ThreeSeqs
  <2> QED BY <1>1, <1>2, <1>4, <2>1, <2>3, <2>4 DEF Ctxs
<1>5. CASE a = <<>> /\ b # <<>>
  <2>1. First(taken) = "RC"  BY <1>1, <1>5 DEF First
  <2>2. next["R0"] = a /\ next["RC"] = Tail(b) /\ next["R3"] = c  BY <1>1, <2>1 DEF Ctxs
  <2>3. Tail(b) \in Seq(Items)  BY <1>5, HeadTailSet
  <2>4. InOrder(next) = a \o (Tail(b) \o c)  BY <2>2 DEF InOrder
  <2>5. a \o (Tail(b) \o c) = Tail(b) \o c  BY <1>5, <2>3, ThreeSeqs
  <2>6. /\ a \o (b \o c) # <<>> /\ Head(a \o (b \o c)) = Head(b)
        /\ Tail(a \o (b \o c)) = Tail(b) \o c
    BY <1>5, ThreeSeqs
  <2> QED BY <1>1, <1>2, <1>5, <2>1, <2>4, <2>5, <2>6 DEF Ctxs
<1>6. CASE a = <<>> /\ b = <<>>
  <2>1. First(taken) = "R3" /\ c # <<>>  BY <1>1, <1>3, <1>6 DEF First
  <2>2. next["R0"] = a /\ next["RC"] = b /\ next["R3"] = Tail(c)  BY <1>1, <2>1 DEF Ctxs
  <2>3. Tail(c) \in Seq(Items)  BY <2>1, HeadTailSet
  <2>4. InOrder(next) = a \o (b \o Tail(c))  BY <2>2 DEF InOrder
  <2>5. a \o (b \o Tail(c)) = Tail(c) /\ a \o (b \o c) = c  BY <1>6, <2>3, ThreeSeqs
  <2> QED BY <1>1, <1>2, <2>1, <2>4, <2>5 DEF Ctxs
<1> QED BY <1>4, <1>5, <1>6

-----------------------------------------------------------------------------
(* The inductive invariant. *)

\* A free slot holds an item, and so does whoever has taken one; a thread whose
\* compare-and-swap will succeed has read the item that is there, unless it slept
\* while the ring went round.
HandsOK ==
  /\ \A i \in FreeSlots : aFreeItems[i] \in Items
  /\ \A t \in Threads : InsAt(t, "push") => ins[t].item \in Items
  /\ \A t \in Threads \ late : InsAt(t, "alloc") /\ ins[t].i = iFreeTail => Fresh(t)
  /\ \A e \in Emts : At(e, "free") => consumed \in Items

\* InOnePlace, without counting.
PlaceOK ==
  /\ \A x \in Items : \E p : Places(x) = {p}
  /\ \A ctx \in Ctxs : IsInjective(pPending[ctx])
  /\ \A e \in Emts : IsInjective(InOrder(emt[e].taken))

\* What a flusher has not got any items of.
NothingOf(pc) ==
  CASE pc \in {"clear", "scan", "takeR3", "release"} -> Ctxs
    [] pc \in {"takeRC", "putBack"} -> {"RC", "R0"}
    [] pc = "takeR0" -> {"R0"}
    [] OTHER -> {}

\* The active bit is somebody's, and a flusher has what it has taken so far.
FlusherOK ==
  /\ OneFlusher
  /\ flushing.active => \E e \in Emts : emt[e].pc \in Flushing
  /\ \A e \in Emts : \A ctx \in NothingOf(emt[e].pc) : emt[e].taken[ctx] = <<>>

\* The lists a flusher has still to take.
StillToTake(pc) ==
  CASE pc = "takeR3" -> Ctxs
    [] pc = "takeRC" -> {"RC", "R0"}
    [] pc = "takeR0" -> {"R0"}
    [] OTHER -> {}

\* The flusher e will come to item x.
WillTake(e, x) ==
  \/ emt[e].pc \in {"clear", "scan"}
  \/ \E ctx \in StillToTake(emt[e].pc) : x \in ToSet(pPending[ctx])

\* An item that waits, or goes back to those that wait, and is not left over.
Owed(x) ==
  /\ x \notin leftOver
  /\ \/ Waiting(x)
     \/ \E e \in Emts : At(e, "putBack") /\ x \in ToSet(emt[e].taken["R3"])

Raising == \E t \in Threads : ins[t].pc \in {"setFF", "setPending"}

\* Without regard to the FF: a flusher will take it or the pending bit is, or will be, set.
Noted(x) == flushing.pending \/ Raising \/ \E e \in Emts : WillTake(e, x)

\* Somebody will come for it.
Called(x) ==
  \/ ff \/ (\E t \in Threads : InsAt(t, "setFF"))
  \/ \E e \in Emts : emt[e].pc \in {"try", "again"} \/ WillTake(e, x)
  \/ flushing.pending /\ \E e \in Emts : emt[e].pc \in Flushing \cup {"check"}

OwedOK == \A x \in Items : Owed(x) => Noted(x) /\ (missed \/ Called(x))

\* The items are where they belong until a stale one is handed out.
IInv == TypeOK /\ (stale \/ (HandsOK /\ PlaceOK)) /\ FlusherOK /\ OwedOK

-----------------------------------------------------------------------------
(* The steps. *)

LEMMA StepCases ==
  ASSUME Next
  PROVE  \/ \E t \in Threads : \/ \E ctx \in Ctxs : AllocRead(t, ctx)
                               \/ AllocCas(t) \/ Push(t) \/ SetFF(t) \/ SetPending(t)
         \/ \E e \in Emts : Flush(e) \/ Refuse(e)
BY DEF Next, Insert

(* TypeOK. *)

\* The updates of the records.
LEMMA AwayType == Away \in InsType
BY Sizes DEF Away, InsType, InsPcs, Slots, Ctxs

LEMMA InsPc ==
  ASSUME ins \in [Threads -> InsType], NEW t \in Threads, NEW pc \in InsPcs
  PROVE  /\ [ins EXCEPT ![t].pc = pc] \in [Threads -> InsType]
         /\ [ins EXCEPT ![t].pc = pc, ![t].item = NoItem] \in [Threads -> InsType]
<1>1. /\ [ins[t] EXCEPT !.pc = pc] \in InsType
      /\ [[ins[t] EXCEPT !.pc = pc] EXCEPT !.item = NoItem] \in InsType
  BY DEF InsType
<1> QED BY <1>1

LEMMA InsItem ==
  ASSUME ins \in [Threads -> InsType], NEW t \in Threads, NEW x \in Items \cup {NoItem},
         NEW i \in Slots
  PROVE  [ins EXCEPT ![t].item = x, ![t].i = i] \in [Threads -> InsType]
<1>1. [[ins[t] EXCEPT !.item = x] EXCEPT !.i = i] \in InsType  BY DEF InsType
<1> QED BY <1>1

LEMMA EmtPc ==
  ASSUME emt \in [Emts -> EmtType], NEW e \in Emts, NEW pc \in EmtPcs
  PROVE  [emt EXCEPT ![e].pc = pc] \in [Emts -> EmtType]
<1>1. [emt[e] EXCEPT !.pc = pc] \in EmtType  BY DEF EmtType
<1> QED BY <1>1

LEMMA EmtTaken ==
  ASSUME emt \in [Emts -> EmtType], NEW e \in Emts, NEW ctx \in Ctxs, NEW seq \in Seq(Items)
  PROVE  /\ [emt EXCEPT ![e].taken[ctx] = seq] \in [Emts -> EmtType]
         /\ \A pc \in EmtPcs : [emt EXCEPT ![e].pc = pc, ![e].taken[ctx] = seq] \in [Emts -> EmtType]
<1>1. [emt[e].taken EXCEPT ![ctx] = seq] \in [Ctxs -> Seq(Items)]  BY DEF EmtType
<1>2. /\ [emt[e] EXCEPT !.taken[ctx] = seq] \in EmtType
      /\ \A pc \in EmtPcs : [[emt[e] EXCEPT !.pc = pc] EXCEPT !.taken[ctx] = seq] \in EmtType
  BY <1>1 DEF EmtType
<1> QED BY <1>2

LEMMA TypeInsert ==
  ASSUME TypeOK, HandsOK, NEW t \in Threads,
         (\E ctx \in Ctxs : AllocRead(t, ctx)) \/ AllocCas(t) \/ Push(t) \/ SetFF(t) \/ SetPending(t)
  PROVE  TypeOK'
<1> USE DEF TypeOK
<1>0. ins \in [Threads -> InsType]  OBVIOUS
<1>1. ASSUME NEW ctx \in Ctxs, AllocRead(t, ctx) PROVE TypeOK'
  <2>1. inserts' \in 0 .. MaxInserts  BY <1>1, BoundAssumption, Sizes DEF AllocRead
  <2>2. [pc |-> "alloc", item |-> aFreeItems[iFreeTail], i |-> iFreeTail, ctx |-> ctx] \in InsType
    BY DEF InsType, InsPcs
  <2> QED BY <1>1, <2>1, <2>2 DEF AllocRead, ring, flags, past
<1>2. CASE AllocCas(t)
  <2>1. iFreeTail' \in Slots
    BY <1>2, NextSlotIs DEF AllocCas
  <2>2. ins' \in [Threads -> InsType]
    <3>1. aFreeItems[iFreeTail] \in Items \cup {NoItem} /\ "push" \in InsPcs  BY DEF InsPcs
    <3>2. CASE ins' = [ins EXCEPT ![t].pc = "push"]  BY <1>0, <3>1, <3>2, InsPc
    <3>3. CASE ins' = [ins EXCEPT ![t].item = ItemNow(t), ![t].i = iFreeTail]
      <4>1. ItemNow(t) \in Items \cup {NoItem} /\ iFreeTail \in Slots  BY <3>1 DEF ItemNow
      <4> QED BY <1>0, <3>3, <4>1, InsItem
    <3>4. CASE ins' = [ins EXCEPT ![t] = Away]  BY <1>0, <3>4, AwayType
    <3> QED BY <1>2, <3>2, <3>3, <3>4 DEF AllocCas, InsGoto
  <2>3. late' \subseteq Threads /\ stale' \in BOOLEAN  BY <1>2 DEF AllocCas, ComesRoundTo
  <2> QED BY <1>2, <2>1, <2>2, <2>3 DEF AllocCas, flags, counts
<1>3. CASE Push(t)
  <2>1. ins[t].item \in Items /\ ins[t].ctx \in Ctxs
    BY <1>3 DEF Push, HandsOK, InsAt, InsType
  <2>2. <<ins[t].item>> \o pPending[ins[t].ctx] \in Seq(Items)
    BY <2>1, ToSetOne, ToSetConcat
  <2>3. pPending' \in [Ctxs -> Seq(Items)]  BY <1>3, <2>1, <2>2 DEF Push
  <2>4. ins' \in [Threads -> InsType]
    BY <1>0, <1>3, InsPc DEF Push, InsPcs
  <2> QED BY <1>3, <2>3, <2>4 DEF Push, ring, flags, counts, past
<1>4. CASE SetFF(t)
  <2>1. ins' \in [Threads -> InsType]
    BY <1>0, <1>4, InsPc DEF SetFF, InsPcs, InsGoto
  <2> QED BY <1>4, <2>1 DEF SetFF, ring, counts, past
<1>5. CASE SetPending(t)
  <2>1. ins' \in [Threads -> InsType]
    BY <1>0, <1>5, AwayType DEF SetPending
  <2> QED BY <1>5, <2>1 DEF SetPending, ring, counts, past
<1> QED BY <1>1, <1>2, <1>3, <1>4, <1>5

LEMMA TypeFlush ==
  ASSUME TypeOK, HandsOK, NEW e \in Emts, Flush(e) \/ Refuse(e)
  PROVE  TypeOK'
<1>0. /\ emt[e].taken \in [Ctxs -> Seq(Items)] /\ pPending \in [Ctxs -> Seq(Items)]
      /\ emt \in [Emts -> EmtType]
  BY DEF TypeOK, EmtType
<1> USE DEF EmtPcs, Flushing
<1>1. CASE PDMR3QueueFlushAll(e) \/ TestAndSet(e) \/ ClearPending(e) \/ Scan(e) \/ Release(e)
           \/ CheckPending(e) \/ CheckFF(e) \/ Again(e) \/ Fed(e)
  <2>1. emt' \in [Emts -> EmtType]
    <3>1. \/ Goto(e, "idle") \/ Goto(e, "try") \/ Goto(e, "clear") \/ Goto(e, "scan")
          \/ Goto(e, "takeR3") \/ Goto(e, "release") \/ Goto(e, "check") \/ Goto(e, "checkFF")
          \/ Goto(e, "again")
      BY <1>1 DEF PDMR3QueueFlushAll, TestAndSet, ClearPending, Scan, Release,
         CheckPending, CheckFF, Again, Fed
    <3>2. ASSUME NEW pc \in EmtPcs, Goto(e, pc) PROVE emt' \in [Emts -> EmtType]
      <4>1. [emt EXCEPT ![e].pc = pc] \in [Emts -> EmtType]  BY <1>0, EmtPc
      <4> QED BY <3>2, <4>1 DEF Goto
    <3> QED BY <3>1, <3>2
  <2>2. flushing' \in [active : BOOLEAN, pending : BOOLEAN] /\ ff' \in BOOLEAN /\ missed' \in BOOLEAN
    BY <1>1 DEF TypeOK, PDMR3QueueFlushAll, TestAndSet, ClearPending, Scan, Release,
       CheckPending, CheckFF, Again, Fed, flags
  <2>3. UNCHANGED <<ring, pPending, ins, consumed, leftOver, counts, past>>
    BY <1>1 DEF PDMR3QueueFlushAll, TestAndSet, ClearPending, Scan, Release,
       CheckPending, CheckFF, Again, Fed, flags
  <2> QED BY <2>1, <2>2, <2>3 DEF TypeOK, ring, counts, past
<1>2. ASSUME NEW ctx \in Ctxs, NEW here, NEW next \in {"takeRC", "takeR0", "feed"}, Take(e, ctx, here, next)
      PROVE  TypeOK'
  <2>1. OldestFirst(pPending[ctx]) \in Seq(Items)  BY <1>0, ToSetReverse DEF OldestFirst
  <2>2. emt' \in [Emts -> EmtType]  BY <1>0, <1>2, <2>1, EmtTaken DEF Take
  <2>3. pPending' \in [Ctxs -> Seq(Items)]  BY <1>0, <1>2, ToSetEmpty DEF Take
  <2> QED BY <1>2, <2>2, <2>3 DEF TypeOK, Take, ring, flags, counts, past
<1>3. CASE TakeLists(e)  BY <1>2, <1>3 DEF TakeLists, Ctxs
<1>4. CASE Consume(e)
  <2> DEFINE taken == emt[e].taken
  <2>1. taken # NoneTaken  BY <1>4 DEF Consume
  <2>2. /\ InOrder(taken) \in Seq(Items) /\ InOrder(taken) # <<>>
        /\ First(taken) \in Ctxs /\ taken[First(taken)] # <<>>
    BY <1>0, <2>1, InOrderSet, InOrderFirst
  <2>3. Head(InOrder(taken)) \in Items /\ Tail(taken[First(taken)]) \in Seq(Items)
    BY <1>0, <2>2, HeadTailProperties
  <2>4. emt' \in [Emts -> EmtType]  BY <1>0, <1>4, <2>2, <2>3, EmtTaken DEF Consume
  <2>5. consumed' \in Items  BY <1>4, <2>3 DEF Consume
  <2> QED BY <1>4, <2>4, <2>5 DEF TypeOK, Consume, ring, flags, counts, past
<1>5. CASE Free(e)
  <2>1. iFreeHead' \in Slots  BY <1>5, NextSlotIs DEF Free, TypeOK
  <2>2. emt' \in [Emts -> EmtType]  BY <1>0, <1>5, EmtPc DEF Free, Goto
  <2> QED BY <1>5, <2>1, <2>2 DEF TypeOK, Free, flags, counts, past
<1>6. CASE Refuse(e)
  <2>1. InOrder(emt[e].taken) \in Seq(Items)  BY <1>0, InOrderSet
  <2>2. [NoneTaken EXCEPT !["R3"] = InOrder(emt[e].taken)] \in [Ctxs -> Seq(Items)]
    BY <2>1, ToSetEmpty DEF NoneTaken, Ctxs
  <2>3. emt' \in [Emts -> EmtType]  BY <1>0, <1>6, <2>2 DEF Refuse, EmtType
  <2>4. ToSet(InOrder(emt[e].taken)) \subseteq Items
    BY <2>1, LenProperties, ElementOfSeq DEF ToSet
  <2>5. refusals' \in 0 .. MaxRefusals  BY <1>6, BoundAssumption DEF Refuse, TypeOK
  <2>6. leftOver' \subseteq Items  BY <1>6, <2>4 DEF Refuse, TypeOK
  <2> QED BY <1>6, <2>3, <2>5, <2>6 DEF TypeOK, Refuse, ring, flags, past
<1>7. CASE PutBack(e)
  <2>1. emt[e].taken["R3"] \in Seq(Items) /\ pPending["R3"] \in Seq(Items)  BY <1>0 DEF Ctxs
  <2>2. /\ Reverse(emt[e].taken["R3"]) \in Seq(Items)
        /\ AfterOld(emt[e].taken["R3"], pPending["R3"]) \in Seq(Items)
    BY <2>1, ToSetReverse, ToSetConcat DEF AfterOld
  <2>3. NoneTaken \in [Ctxs -> Seq(Items)] /\ <<>> \in Seq(Items)  BY ToSetEmpty DEF NoneTaken
  <2>4. pPending' \in [Ctxs -> Seq(Items)]  BY <1>0, <1>7, <2>2, <2>3 DEF PutBack
  <2>5. emt' \in [Emts -> EmtType]
    <3>1. [pc |-> "release", taken |-> NoneTaken] \in EmtType /\ "R3" \in Ctxs
      BY <2>3 DEF EmtType, Ctxs
    <3>2. CASE pPending["R3"] = <<>>  BY <1>0, <1>7, <3>1, <3>2 DEF PutBack
    <3>3. CASE pPending["R3"] # <<>>
      <4>1. emt' = [emt EXCEPT ![e].taken["R3"] = AfterOld(emt[e].taken["R3"], pPending["R3"])]
        BY <1>7, <3>3 DEF PutBack
      <4> QED BY <1>0, <2>2, <3>1, <4>1, EmtTaken
    <3> QED BY <3>2, <3>3
  <2> QED BY <1>7, <2>4, <2>5 DEF TypeOK, PutBack, ring, flags, counts, past
<1> QED BY <1>1, <1>3, <1>4, <1>5, <1>6, <1>7 DEF Flush

(* HandsOK. *)

LEMMA TailMoves ==
  ASSUME TypeOK, iFreeTail # iFreeHead, iFreeTail' = NextSlot(iFreeTail), iFreeHead' = iFreeHead
  PROVE  FreeSlots' = FreeSlots \ {iFreeTail} /\ iFreeTail \in FreeSlots
<1>1. /\ iFreeTail \in Nat /\ iFreeHead \in Nat /\ iFreeTail < RingSize /\ iFreeHead < RingSize
      /\ RingSize \in Nat
  BY Sizes DEF TypeOK, Slots
<1>2. iFreeTail' = IF iFreeTail = RingSize - 1 THEN 0 ELSE iFreeTail + 1
  BY NextSlotIs DEF TypeOK
<1>3. \A i \in Slots : i \in FreeSlots' <=> i \in FreeSlots /\ i # iFreeTail
  BY <1>1, <1>2 DEF FreeSlots, Slots
<1>4. FreeSlots \subseteq Slots /\ FreeSlots' \subseteq Slots /\ iFreeTail \in FreeSlots
  BY <1>1 DEF FreeSlots, Slots
<1> QED BY <1>3, <1>4

LEMMA HeadMoves ==
  ASSUME TypeOK, iFreeHead' = NextSlot(iFreeHead), iFreeTail' = iFreeTail
  PROVE  /\ iFreeHead \notin FreeSlots /\ FreeSlots \subseteq Slots
         /\ IF iFreeHead' = iFreeTail THEN FreeSlots \cup {iFreeHead} = Slots
            ELSE FreeSlots' = FreeSlots \cup {iFreeHead}
<1>1. /\ iFreeTail \in Nat /\ iFreeHead \in Nat /\ iFreeTail < RingSize /\ iFreeHead < RingSize
      /\ RingSize \in Nat
  BY Sizes DEF TypeOK, Slots
<1>2. iFreeHead' = IF iFreeHead = RingSize - 1 THEN 0 ELSE iFreeHead + 1
  BY NextSlotIs DEF TypeOK
<1>3. FreeSlots \subseteq Slots /\ FreeSlots' \subseteq Slots /\ iFreeHead \in Slots
  BY <1>1 DEF FreeSlots, Slots
<1>4. iFreeHead \notin FreeSlots  BY <1>1 DEF FreeSlots, Slots
<1>5. CASE iFreeHead' = iFreeTail
  <2>1. \A i \in Slots : i \in FreeSlots \/ i = iFreeHead
    BY <1>1, <1>2, <1>5 DEF FreeSlots, Slots
  <2> QED BY <1>3, <1>4, <1>5, <2>1
<1>6. CASE iFreeHead' # iFreeTail
  <2>1. \A i \in Slots : i \in FreeSlots' <=> i \in FreeSlots \/ i = iFreeHead
    BY <1>1, <1>2, <1>6 DEF FreeSlots, Slots
  <2> QED BY <1>3, <1>4, <1>6, <2>1
<1> QED BY <1>5, <1>6

\* There are more slots than items.
LEMMA NotFull ==
  ASSUME NEW f \in [Slots -> Items], \A i, j \in Slots : f[i] = f[j] => i = j
  PROVE  FALSE
<1>1. /\ IsFiniteSet(Slots) /\ Cardinality(Slots) = RingSize
      /\ IsFiniteSet(Items) /\ Cardinality(Items) = cItems
  BY FS_Interval, Sizes DEF Slots, Items
<1> QED BY <1>1, FS_PigeonHole, Sizes

(* PlaceOK. *)

LEMMA PlacesAre ==
  ASSUME NEW x
  PROVE  /\ \A i : <<"ring", i>> \in Places(x) <=> i \in FreeSlots /\ aFreeItems[i] = x
         /\ \A t : <<"thread", t>> \in Places(x) <=> t \in Threads /\ InsAt(t, "push") /\ ins[t].item = x
         /\ \A c : <<"list", c>> \in Places(x) <=> c \in Ctxs /\ x \in ToSet(pPending[c])
         /\ \A e : <<"taken", e>> \in Places(x) <=> e \in Emts /\ x \in ToSet(InOrder(emt[e].taken))
         /\ \A e : <<"consumer", e>> \in Places(x) <=> e \in Emts /\ At(e, "free") /\ consumed = x
BY DEF Places

LEMMA SamePlaces ==
  ASSUME NEW x, aFreeItems' = aFreeItems, FreeSlots' = FreeSlots, ins' = ins,
         \A c \in Ctxs : x \in ToSet(pPending'[c]) <=> x \in ToSet(pPending[c]),
         \A f \in Emts : x \in ToSet(InOrder(emt'[f].taken)) <=> x \in ToSet(InOrder(emt[f].taken)),
         \A f \in Emts : (At(f, "free") /\ consumed = x)' <=> At(f, "free") /\ consumed = x
  PROVE  Places(x)' = Places(x)
<1>1. {i \in FreeSlots' : aFreeItems'[i] = x} = {i \in FreeSlots : aFreeItems[i] = x}  OBVIOUS
<1>2. {t \in Threads : InsAt(t, "push")' /\ ins'[t].item = x}
        = {t \in Threads : InsAt(t, "push") /\ ins[t].item = x}
  BY DEF InsAt
<1>3. {c \in Ctxs : x \in ToSet(pPending'[c])} = {c \in Ctxs : x \in ToSet(pPending[c])}  OBVIOUS
<1>4. {f \in Emts : x \in ToSet(InOrder(emt'[f].taken))}
        = {f \in Emts : x \in ToSet(InOrder(emt[f].taken))}
  OBVIOUS
<1>5. {f \in Emts : At(f, "free")' /\ consumed' = x} = {f \in Emts : At(f, "free") /\ consumed = x}
  OBVIOUS
<1> QED BY <1>1, <1>2, <1>3, <1>4, <1>5, Zenon DEF Places

LEMMA PlacesSame ==
  ASSUME UNCHANGED <<ring, pPending, consumed>>,
         \A t \in Threads : /\ InsAt(t, "push")' <=> InsAt(t, "push")
                            /\ InsAt(t, "push") => ins'[t].item = ins[t].item,
         \A e \in Emts : /\ At(e, "free")' <=> At(e, "free")
                         /\ emt'[e].taken = emt[e].taken
  PROVE  /\ \A x : Places(x)' = Places(x)
         /\ PlaceOK => PlaceOK'
<1>1. \A e \in Emts : InOrder(emt[e].taken)' = InOrder(emt[e].taken)  BY DEF InOrder
<1>2. FreeSlots' = FreeSlots  BY DEF FreeSlots, ring
<1>3. ASSUME NEW x PROVE Places(x)' = Places(x)
  BY <1>1, <1>2 DEF Places, ring
<1> QED BY <1>1, <1>3 DEF PlaceOK

\* A compare-and-swap that succeeds gets the item of the tail, unless what it gets
\* is stale.
LEMMA CasFresh ==
  ASSUME HandsOK, NEW t \in Threads, AllocCas(t), ~ stale', ins[t].i = iFreeTail
  PROVE  Fresh(t)
<1>1. InsAt(t, "alloc") /\ stale' = (t \in late /\ ~ Fresh(t))  BY DEF AllocCas
<1> QED BY <1>1 DEF HandsOK

\* AllocCas takes the item of the tail from the ring.
LEMMA PlaceAlloc ==
  ASSUME TypeOK, HandsOK, PlaceOK, NEW t \in Threads, AllocCas(t), ~ stale'
  PROVE  PlaceOK'
<1>1. UNCHANGED <<aFreeItems, iFreeHead, pPending, emt, consumed>> /\ ins \in [Threads -> InsType]
  BY DEF AllocCas, TypeOK
<1>2. ASSUME NEW u \in Threads PROVE u = t \/ ins'[u] = ins[u]
  BY <1>1 DEF AllocCas, InsGoto
<1>3. CASE iFreeTail' # iFreeTail
  <2>1. /\ ins[t].i = iFreeTail /\ iFreeTail' = NextSlot(iFreeTail)
        /\ ins' = [ins EXCEPT ![t].pc = "push"] /\ InsAt(t, "alloc")
    BY <1>3 DEF AllocCas, InsGoto
  <2>2. iFreeTail # iFreeHead /\ aFreeItems[iFreeTail] = ins[t].item
    BY <2>1, CasFresh DEF Fresh
  <2>3. FreeSlots' = FreeSlots \ {iFreeTail} /\ iFreeTail \in FreeSlots
    BY <1>1, <2>1, <2>2, TailMoves
  <2>4. ins'[t].pc = "push" /\ ins'[t].item = ins[t].item /\ ins[t].pc = "alloc"
    BY <1>1, <2>1 DEF InsAt, InsType
  <2>5. ASSUME NEW x \in Items PROVE \E p : Places(x)' = {p}
    <3>1. PICK p : Places(x) = {p}  BY DEF PlaceOK
    <3>2. CASE x = ins[t].item
      <4>1. p = <<"ring", iFreeTail>>  BY <2>2, <2>3, <3>1, <3>2 DEF Places
      <4>2. Places(x)' = {<<"thread", t>>}
        BY <1>1, <1>2, <2>2, <2>3, <2>4, <3>1, <3>2, <4>1 DEF Places, InsAt, At
      <4> QED BY <4>2
    <3>3. CASE x # ins[t].item
      <4>1. Places(x)' = Places(x)
        BY <1>1, <1>2, <2>2, <2>3, <2>4, <3>3 DEF Places, InsAt, At
      <4> QED BY <3>1, <4>1
    <3> QED BY <3>2, <3>3
  <2> QED BY <1>1, <2>5 DEF PlaceOK
<1>4. CASE iFreeTail' = iFreeTail
  <2>1. iFreeTail # NextSlot(iFreeTail)
    BY NextSlotIs, Sizes, ItemsAssumption DEF TypeOK, Slots, RingSize
  <2>2. ins' = [ins EXCEPT ![t].item = ItemNow(t), ![t].i = iFreeTail] \/ ins' = [ins EXCEPT ![t] = Away]
    BY <1>4, <2>1 DEF AllocCas
  <2>3. ~ InsAt(t, "push") /\ ~ InsAt(t, "push")'
    BY <1>1, <2>2 DEF AllocCas, InsAt, InsType, Away
  <2> QED BY <1>1, <1>2, <1>4, <2>3, PlacesSame DEF ring, InsAt, At
<1> QED BY <1>3, <1>4

\* Push moves the item from the thread to the list of its context.
LEMMA PlacePush ==
  ASSUME TypeOK, HandsOK, PlaceOK, NEW t \in Threads, Push(t)
  PROVE  PlaceOK'
<1> DEFINE x0 == ins[t].item
           c0 == ins[t].ctx
<1>1. /\ UNCHANGED <<ring, emt, consumed>> /\ ins \in [Threads -> InsType] /\ InsAt(t, "push")
      /\ pPending \in [Ctxs -> Seq(Items)]
      /\ pPending' = [pPending EXCEPT ![c0] = <<x0>> \o pPending[c0]]
  BY DEF Push, TypeOK
<1>2. ins'[t].pc = "setFF" /\ \A u \in Threads \ {t} : ins'[u] = ins[u]
  BY <1>1 DEF Push, InsType
<1>3. x0 \in Items /\ c0 \in Ctxs /\ pPending[c0] \in Seq(Items)
  BY <1>1 DEF HandsOK, InsType
<1>4. Places(x0) = {<<"thread", t>>}
  <2>1. PICK p : Places(x0) = {p}  BY <1>3 DEF PlaceOK
  <2>2. <<"thread", t>> \in Places(x0)  BY <1>1 DEF Places
  <2> QED BY <2>1, <2>2
<1>5. ToSet(<<x0>> \o pPending[c0]) = {x0} \cup ToSet(pPending[c0])
  <2>1. <<x0>> \in Seq(Items) /\ ToSet(<<x0>>) = {x0}  BY <1>3, ToSetOne
  <2> QED BY <1>3, <2>1, ToSetConcat
<1>6. \A c \in Ctxs : /\ ToSet(pPending'[c]) = IF c = c0 THEN {x0} \cup ToSet(pPending[c]) ELSE ToSet(pPending[c])
                      /\ x0 \notin ToSet(pPending[c])
  <2>1. \A c \in Ctxs : pPending'[c] = IF c = c0 THEN <<x0>> \o pPending[c0] ELSE pPending[c]
    BY <1>1, <1>3
  <2>2. \A c \in Ctxs : <<"list", c>> \notin Places(x0)  BY <1>4
  <2>3. \A c \in Ctxs : x0 \notin ToSet(pPending[c])  BY <2>2 DEF Places
  <2> QED BY <1>5, <2>1, <2>3
<1>7. FreeSlots' = FreeSlots  BY <1>1 DEF FreeSlots, ring
<1>8. ASSUME NEW x \in Items PROVE \E p : Places(x)' = {p}
  <2>1. CASE x = x0
    <3>1. /\ \A i \in FreeSlots : aFreeItems[i] # x0
          /\ \A u \in Threads : InsAt(u, "push") /\ ins[u].item = x0 => u = t
          /\ \A e \in Emts : x0 \notin ToSet(InOrder(emt[e].taken)) /\ ~ (At(e, "free") /\ consumed = x0)
      <4>1. /\ \A i : <<"ring", i>> \notin Places(x0)
            /\ \A u : <<"thread", u>> \in Places(x0) => u = t
            /\ \A e : <<"taken", e>> \notin Places(x0) /\ <<"consumer", e>> \notin Places(x0)
        BY <1>4
      <4> QED BY <4>1, PlacesAre
    <3>2. /\ {i \in FreeSlots : aFreeItems[i] = x0} = {}
          /\ {u \in Threads : InsAt(u, "push")' /\ ins'[u].item = x0} = {}
          /\ {c \in Ctxs : x0 \in ToSet(pPending'[c])} = {c0}
          /\ {e \in Emts : x0 \in ToSet(InOrder(emt[e].taken))} = {}
          /\ {e \in Emts : At(e, "free") /\ consumed = x0} = {}
      BY <1>2, <1>3, <1>6, <3>1 DEF InsAt
    <3>3. Places(x)' = {<<"list", c0>>}
      BY <1>1, <1>7, <2>1, <3>2 DEF Places, At, ring
    <3> QED BY <3>3
  <2>2. CASE x # x0
    <3>1. Places(x)' = Places(x)
      BY <1>1, <1>2, <1>3, <1>6, <1>7, <2>2 DEF Places, InsAt, At, ring
    <3> QED BY <3>1 DEF PlaceOK
  <2> QED BY <2>1, <2>2
<1>9. IsInjective(<<x0>> \o pPending[c0])
  <2>1. <<x0>> \in Seq(Items) /\ ToSet(<<x0>>) = {x0}  BY <1>3, ToSetOne
  <2>2. IsInjective(<<x0>>) /\ IsInjective(pPending[c0])  BY <1>3, InjectiveOne DEF PlaceOK
  <2>3. ToSet(<<x0>>) \cap ToSet(pPending[c0]) = {}  BY <1>3, <1>6, <2>1
  <2> QED BY <1>3, <2>1, <2>2, <2>3, InjectiveConcat
<1>10. \A c \in Ctxs : IsInjective(pPending'[c])  BY <1>1, <1>3, <1>9 DEF PlaceOK
<1> QED BY <1>1, <1>8, <1>10 DEF PlaceOK

\* What an EMT holds changes, together with one list or the item of the consumer.
LEMMA EmtTakenIs ==
  ASSUME TypeOK, NEW e \in Emts
  PROVE  /\ emt[e].taken \in [Ctxs -> Seq(Items)] /\ InOrder(emt[e].taken) \in Seq(Items)
         /\ \A ctx \in Ctxs : pPending[ctx] \in Seq(Items)
BY InOrderSet DEF TypeOK, EmtType

\* An item that is in one place is in no other.
LEMMA Elsewhere ==
  ASSUME PlaceOK, NEW x \in Items, NEW p \in Places(x)
  PROVE  /\ Places(x) = {p}
         /\ \A i \in FreeSlots : aFreeItems[i] = x => p = <<"ring", i>>
         /\ \A t \in Threads : InsAt(t, "push") /\ ins[t].item = x => p = <<"thread", t>>
         /\ \A c \in Ctxs : x \in ToSet(pPending[c]) => p = <<"list", c>>
         /\ \A e \in Emts : x \in ToSet(InOrder(emt[e].taken)) => p = <<"taken", e>>
         /\ \A e \in Emts : At(e, "free") /\ consumed = x => p = <<"consumer", e>>
<1>1. Places(x) = {p}  BY DEF PlaceOK
<1> QED BY <1>1, PlacesAre

\* The EMT takes a list: its items follow those it has of that context, none.
LEMMA PlaceTake ==
  ASSUME TypeOK, PlaceOK, NEW e \in Emts, NEW ctx \in Ctxs, NEW here, NEW next,
         Take(e, ctx, here, next), emt[e].taken[ctx] = <<>>, here # "free", next # "free"
  PROVE  PlaceOK'
<1> DEFINE taken == emt[e].taken
           s == pPending[ctx]
           r == Reverse(s)
<1>1. /\ taken \in [Ctxs -> Seq(Items)] /\ s \in Seq(Items) /\ emt \in [Emts -> EmtType]
  BY EmtTakenIs DEF TypeOK
<1>2. r \in Seq(Items) /\ ToSet(r) = ToSet(s) /\ IsInjective(r)
  BY <1>1, ToSetReverse, InjectiveReverse DEF PlaceOK
<1>3. /\ UNCHANGED <<aFreeItems, iFreeHead, iFreeTail, ins, consumed>>
      /\ pPending' = [pPending EXCEPT ![ctx] = <<>>] /\ pPending \in [Ctxs -> Seq(Items)]
      /\ emt'[e].taken = [taken EXCEPT ![ctx] = r]
      /\ \A f \in Emts \ {e} : emt'[f] = emt[f]
      /\ emt[e].pc = here /\ emt'[e].pc = next
  BY <1>1 DEF Take, OldestFirst, At, TypeOK, ring, EmtType
<1>4. emt'[e].taken \in [Ctxs -> Seq(Items)]  BY <1>1, <1>2, <1>3
<1>5. /\ ToSet(InOrder(taken)) = UNION {ToSet(taken[c]) : c \in Ctxs}
      /\ \A c \in Ctxs : IsInjective(taken[c])
      /\ \A c, d \in Ctxs : c # d => ToSet(taken[c]) \cap ToSet(taken[d]) = {}
  BY <1>1, InOrderSet DEF PlaceOK
<1>6. \A x \in ToSet(s) : x \notin ToSet(InOrder(taken))
  <2> SUFFICES ASSUME NEW x \in ToSet(s) PROVE x \notin ToSet(InOrder(taken))  OBVIOUS
  <2>1. x \in Items  BY <1>1, LenProperties, ElementOfSeq DEF ToSet
  <2>2. <<"list", ctx>> \in Places(x)  BY PlacesAre
  <2> QED BY <2>1, <2>2, Elsewhere
<1>7. \A c \in Ctxs : emt'[e].taken[c] = IF c = ctx THEN r ELSE taken[c]  BY <1>1, <1>3
<1>8. ToSet(InOrder(emt'[e].taken)) = ToSet(InOrder(taken)) \cup ToSet(s)
  <2>1. ToSet(InOrder(emt'[e].taken)) = UNION {ToSet(emt'[e].taken[c]) : c \in Ctxs}
    BY <1>4, InOrderSet
  <2> QED BY <1>2, <1>5, <1>7, <2>1, ToSetEmpty
<1>9. IsInjective(InOrder(emt'[e].taken))
  <2>1. \A c \in Ctxs : IsInjective(emt'[e].taken[c])  BY <1>2, <1>5, <1>7
  <2>2. ASSUME NEW c \in Ctxs, NEW d \in Ctxs, c # d
        PROVE  ToSet(emt'[e].taken[c]) \cap ToSet(emt'[e].taken[d]) = {}
    <3>1. CASE c # ctx /\ d # ctx  BY <1>5, <1>7, <2>2, <3>1
    <3>2. \A g \in Ctxs : ToSet(taken[g]) \cap ToSet(s) = {}  BY <1>5, <1>6
    <3>3. CASE c = ctx \/ d = ctx  BY <1>2, <1>7, <2>2, <3>2, <3>3
    <3> QED BY <3>1, <3>3
  <2> QED BY <1>4, <2>1, <2>2, InOrderSet
<1>10. \A c \in Ctxs : ToSet(pPending'[c]) = IF c = ctx THEN {} ELSE ToSet(pPending[c])
  BY <1>3, ToSetEmpty
<1>11. FreeSlots' = FreeSlots  BY <1>3 DEF FreeSlots
<1>12. ASSUME NEW x \in Items PROVE \E p : Places(x)' = {p}
  <2>1. CASE x \in ToSet(s)
    <3>1. <<"list", ctx>> \in Places(x)  BY <2>1, PlacesAre
    <3>2. /\ {i \in FreeSlots : aFreeItems[i] = x} = {}
          /\ {t \in Threads : InsAt(t, "push") /\ ins[t].item = x} = {}
          /\ {c \in Ctxs : x \in ToSet(pPending'[c])} = {}
          /\ {f \in Emts : x \in ToSet(InOrder(emt'[f].taken))} = {e}
          /\ {f \in Emts : At(f, "free")' /\ consumed = x} = {}
      <4>1. /\ \A i \in FreeSlots : aFreeItems[i] # x
            /\ \A t \in Threads : ~ (InsAt(t, "push") /\ ins[t].item = x)
            /\ \A c \in Ctxs : x \in ToSet(pPending[c]) => c = ctx
            /\ \A f \in Emts : x \notin ToSet(InOrder(emt[f].taken)) /\ ~ (At(f, "free") /\ consumed = x)
        BY <3>1, Elsewhere
      <4>2. /\ x \in ToSet(InOrder(emt'[e].taken)) /\ ~ At(e, "free")'
            /\ \A f \in Emts \ {e} : emt'[f] = emt[f]
        BY <1>3, <1>8, <2>1 DEF At
      <4>3. \A f \in Emts : x \in ToSet(InOrder(emt'[f].taken)) <=> f = e
        BY <4>1, <4>2
      <4>4. \A f \in Emts : ~ (At(f, "free")' /\ consumed = x)
        BY <4>1, <4>2 DEF At
      <4> QED BY <1>10, <4>1, <4>3, <4>4
    <3>3. Places(x)' = {<<"taken", e>>}  BY <1>3, <1>11, <3>2 DEF Places, InsAt
    <3> QED BY <3>3
  <2>2. CASE x \notin ToSet(s)
    <3>1. \A c \in Ctxs : x \in ToSet(pPending'[c]) <=> x \in ToSet(pPending[c])
      BY <1>10, <2>2
    <3>2. \A f \in Emts : x \in ToSet(InOrder(emt'[f].taken)) <=> x \in ToSet(InOrder(emt[f].taken))
      BY <1>3, <1>8, <2>2
    <3>3. \A f \in Emts : At(f, "free")' <=> At(f, "free")  BY <1>3 DEF At
    <3>4. Places(x)' = Places(x)  BY <1>3, <1>11, <3>1, <3>2, <3>3, SamePlaces DEF ring
    <3> QED BY <3>4 DEF PlaceOK
  <2> QED BY <2>1, <2>2
<1>13. \A c \in Ctxs : IsInjective(pPending'[c])
  <2>1. IsInjective(<<>>)  BY DEF IsInjective
  <2> QED BY <1>3, <2>1 DEF PlaceOK
<1>14. \A f \in Emts : IsInjective(InOrder(emt'[f].taken))  BY <1>3, <1>9 DEF PlaceOK
<1>15. \A f \in Emts : InOrder(emt[f].taken)' = InOrder(emt'[f].taken)  BY DEF InOrder
<1> QED BY <1>12, <1>13, <1>14, <1>15 DEF PlaceOK

\* One EMT at a time is where items are taken, so nobody else is at "free".
LEMMA OnlyOne ==
  ASSUME OneFlusher, NEW e \in Emts, emt[e].pc \in Flushing, NEW f \in Emts, f # e
  PROVE  ~ At(f, "free") /\ ~ At(f, "putBack") /\ emt[f].pc \notin Flushing
BY DEF OneFlusher, At, Flushing

\* The consumer gets the first item.
LEMMA PlaceConsume ==
  ASSUME TypeOK, PlaceOK, OneFlusher, NEW e \in Emts, Consume(e)
  PROVE  PlaceOK'
<1> DEFINE taken == emt[e].taken
           s == InOrder(taken)
           x0 == Head(s)
<1>1. /\ taken \in [Ctxs -> Seq(Items)] /\ taken # NoneTaken /\ s \in Seq(Items)
      /\ emt \in [Emts -> EmtType] /\ emt[e].pc = "feed"
  BY EmtTakenIs DEF TypeOK, Consume, At
<1>2. /\ s # <<>> /\ x0 \in Items /\ Tail(s) \in Seq(Items)
      /\ ToSet(s) = {x0} \cup ToSet(Tail(s))
      /\ IsInjective(Tail(s)) /\ x0 \notin ToSet(Tail(s))
  BY <1>1, InOrderFirst, HeadTailSet DEF PlaceOK
<1>3. InOrder([taken EXCEPT ![First(taken)] = Tail(@)]) = Tail(s)  BY <1>1, InOrderFirst
<1>4. /\ emt'[e].taken = [taken EXCEPT ![First(taken)] = Tail(@)] /\ emt'[e].pc = "free"
      /\ \A f \in Emts \ {e} : emt'[f] = emt[f]
      /\ UNCHANGED <<ring, ins, pPending>> /\ consumed' = x0
  BY <1>1 DEF Consume, EmtType
<1>5. InOrder(emt[e].taken)' = Tail(s)  BY <1>3, <1>4 DEF InOrder
<1>6. \A f \in Emts \ {e} : InOrder(emt[f].taken)' = InOrder(emt[f].taken)  BY <1>4 DEF InOrder
<1>7. \A f \in Emts : ~ At(f, "free") /\ (At(f, "free")' <=> f = e)
  BY <1>1, <1>4, OnlyOne DEF At, Flushing
<1>8. FreeSlots' = FreeSlots  BY <1>4 DEF FreeSlots, ring
<1>9. ASSUME NEW x \in Items PROVE \E p : Places(x)' = {p}
  <2>1. CASE x = x0
    <3>1. <<"taken", e>> \in Places(x)  BY <1>2, <2>1, PlacesAre
    <3>2. /\ \A i \in FreeSlots : aFreeItems[i] # x
          /\ \A t \in Threads : ~ (InsAt(t, "push") /\ ins[t].item = x)
          /\ \A c \in Ctxs : x \notin ToSet(pPending[c])
          /\ \A f \in Emts \ {e} : x \notin ToSet(InOrder(emt[f].taken))
      BY <3>1, Elsewhere
    <3>3. /\ {i \in FreeSlots : aFreeItems[i] = x} = {}
          /\ {t \in Threads : InsAt(t, "push") /\ ins[t].item = x} = {}
          /\ {c \in Ctxs : x \in ToSet(pPending[c])} = {}
          /\ {f \in Emts : x \in ToSet(InOrder(emt[f].taken)')} = {}
          /\ {f \in Emts : At(f, "free")' /\ consumed' = x} = {e}
      <4>1. {i \in FreeSlots : aFreeItems[i] = x} = {}  BY <3>2
      <4>2. {t \in Threads : InsAt(t, "push") /\ ins[t].item = x} = {}  BY <3>2
      <4>3. {c \in Ctxs : x \in ToSet(pPending[c])} = {}  BY <3>2
      <4>4. \A f \in Emts : x \notin ToSet(InOrder(emt[f].taken)')
        BY <1>2, <1>5, <1>6, <2>1, <3>2
      <4>5. \A f \in Emts : At(f, "free")' /\ consumed' = x <=> f = e
        BY <1>4, <1>7, <2>1
      <4> QED BY <4>1, <4>2, <4>3, <4>4, <4>5
    <3>4. Places(x)' = {<<"consumer", e>>}  BY <1>4, <1>8, <3>3 DEF Places, InsAt, ring
    <3> QED BY <3>4
  <2>2. CASE x # x0
    <3>1. /\ {f \in Emts : x \in ToSet(InOrder(emt[f].taken)')} = {f \in Emts : x \in ToSet(InOrder(emt[f].taken))}
          /\ {f \in Emts : At(f, "free")' /\ consumed' = x} = {}
          /\ {f \in Emts : At(f, "free") /\ consumed = x} = {}
      BY <1>2, <1>4, <1>5, <1>6, <1>7, <2>2
    <3>2. Places(x)' = Places(x)  BY <1>4, <1>8, <3>1 DEF Places, InsAt, ring
    <3> QED BY <3>2 DEF PlaceOK
  <2> QED BY <2>1, <2>2
<1>10. \A f \in Emts : IsInjective(InOrder(emt[f].taken)')  BY <1>2, <1>5, <1>6 DEF PlaceOK
<1> QED BY <1>4, <1>9, <1>10 DEF PlaceOK

\* The item that is freed finds an empty slot, since the others are fewer than the slots.
LEMMA FreeFits ==
  ASSUME TypeOK, HandsOK, PlaceOK, NEW e \in Emts, Free(e)
  PROVE  /\ iFreeHead' # iFreeTail /\ FreeSlots' = FreeSlots \cup {iFreeHead}
         /\ iFreeHead \notin FreeSlots /\ FreeSlots \subseteq Slots
         /\ \A i \in FreeSlots : aFreeItems'[i] = aFreeItems[i]
         /\ aFreeItems'[iFreeHead] = consumed
<1>1. /\ aFreeItems \in [Slots -> Items \cup {NoItem}] /\ iFreeHead \in Slots /\ consumed \in Items
      /\ aFreeItems' = [aFreeItems EXCEPT ![iFreeHead] = consumed]
      /\ iFreeHead' = NextSlot(iFreeHead) /\ iFreeTail' = iFreeTail
      /\ At(e, "free")
  BY DEF Free, TypeOK, HandsOK
<1>2. /\ iFreeHead \notin FreeSlots /\ FreeSlots \subseteq Slots
      /\ IF iFreeHead' = iFreeTail THEN FreeSlots \cup {iFreeHead} = Slots
         ELSE FreeSlots' = FreeSlots \cup {iFreeHead}
  BY <1>1, HeadMoves
<1>3. /\ \A i \in FreeSlots : aFreeItems'[i] = aFreeItems[i]
      /\ aFreeItems'[iFreeHead] = consumed
  BY <1>1, <1>2
<1>4. <<"consumer", e>> \in Places(consumed)  BY <1>1, PlacesAre
<1>5. \A i \in FreeSlots : aFreeItems[i] # consumed  BY <1>1, <1>4, Elsewhere
<1>6. ASSUME NEW i \in FreeSlots, NEW j \in FreeSlots, aFreeItems[i] = aFreeItems[j] PROVE i = j
  <2>1. aFreeItems[i] \in Items  BY DEF HandsOK
  <2>2. <<"ring", i>> \in Places(aFreeItems[i]) /\ <<"ring", j>> \in Places(aFreeItems[i])
    BY <1>6, PlacesAre
  <2>3. <<"ring", i>> = <<"ring", j>>  BY <2>1, <2>2 DEF PlaceOK
  <2> QED BY <2>3
<1>7. ASSUME FreeSlots \cup {iFreeHead} = Slots PROVE FALSE
  <2>1. aFreeItems' \in [Slots -> Items]  BY <1>1, <1>3, <1>7 DEF HandsOK
  <2>2. \A i, j \in Slots : aFreeItems'[i] = aFreeItems'[j] => i = j
    BY <1>3, <1>5, <1>6, <1>7
  <2> QED BY <2>1, <2>2, NotFull
<1> QED BY <1>2, <1>3, <1>7

LEMMA PlaceFree ==
  ASSUME TypeOK, HandsOK, PlaceOK, OneFlusher, NEW e \in Emts, Free(e)
  PROVE  PlaceOK'
<1>1. /\ UNCHANGED <<pPending, ins, consumed>> /\ emt[e].pc = "free" /\ emt'[e].pc = "feed"
      /\ emt'[e].taken = emt[e].taken
      /\ \A f \in Emts \ {e} : emt'[f] = emt[f]
      /\ consumed \in Items
  BY DEF Free, Goto, At, TypeOK, EmtType, HandsOK
<1>2. \A f \in Emts : InOrder(emt[f].taken)' = InOrder(emt[f].taken)  BY <1>1 DEF InOrder
<1>3. \A f \in Emts : (At(f, "free") <=> f = e) /\ ~ At(f, "free")'
  BY <1>1, OnlyOne DEF At, Flushing
<1>4. ASSUME NEW x \in Items PROVE \E p : Places(x)' = {p}
  <2>1. CASE x = consumed
    <3>1. <<"consumer", e>> \in Places(x)  BY <1>3, <2>1, PlacesAre
    <3>2. /\ \A i \in FreeSlots : aFreeItems[i] # x
          /\ \A t \in Threads : ~ (InsAt(t, "push") /\ ins[t].item = x)
          /\ \A c \in Ctxs : x \notin ToSet(pPending[c])
          /\ \A f \in Emts : x \notin ToSet(InOrder(emt[f].taken))
      BY <3>1, Elsewhere
    <3>3. /\ {i \in FreeSlots' : aFreeItems'[i] = x} = {iFreeHead}
          /\ {t \in Threads : InsAt(t, "push") /\ ins[t].item = x} = {}
          /\ {c \in Ctxs : x \in ToSet(pPending[c])} = {}
          /\ {f \in Emts : x \in ToSet(InOrder(emt[f].taken)')} = {}
          /\ {f \in Emts : At(f, "free")' /\ consumed = x} = {}
      BY <1>2, <1>3, <2>1, <3>2, FreeFits
    <3>4. Places(x)' = {<<"ring", iFreeHead>>}  BY <1>1, <3>3 DEF Places, InsAt
    <3> QED BY <3>4
  <2>2. CASE x # consumed
    <3>1. /\ {i \in FreeSlots' : aFreeItems'[i] = x} = {i \in FreeSlots : aFreeItems[i] = x}
          /\ {f \in Emts : x \in ToSet(InOrder(emt[f].taken)')} = {f \in Emts : x \in ToSet(InOrder(emt[f].taken))}
          /\ {f \in Emts : At(f, "free")' /\ consumed = x} = {}
          /\ {f \in Emts : At(f, "free") /\ consumed = x} = {}
      BY <1>2, <1>3, <2>2, FreeFits
    <3>2. Places(x)' = Places(x)  BY <1>1, <3>1 DEF Places, InsAt
    <3> QED BY <3>2 DEF PlaceOK
  <2> QED BY <2>1, <2>2
<1> QED BY <1>1, <1>2, <1>4 DEF PlaceOK

LEMMA PlaceRefuse ==
  ASSUME TypeOK, PlaceOK, NEW e \in Emts, Refuse(e)
  PROVE  PlaceOK'
<1> DEFINE s == InOrder(emt[e].taken)
<1>1. /\ s \in Seq(Items) /\ emt[e].pc = "feed" /\ emt'[e].pc = "putBack"
      /\ emt'[e].taken = [NoneTaken EXCEPT !["R3"] = s]
      /\ \A f \in Emts \ {e} : emt'[f] = emt[f]
      /\ UNCHANGED <<ring, ins, pPending, consumed>>
  BY EmtTakenIs DEF Refuse, At, TypeOK, EmtType
<1>2. InOrder(emt[e].taken)' = <<>> \o (<<>> \o s)
  <2>1. emt'[e].taken["R0"] = <<>> /\ emt'[e].taken["RC"] = <<>> /\ emt'[e].taken["R3"] = s
    BY <1>1 DEF NoneTaken, Ctxs
  <2> QED BY <2>1 DEF InOrder
<1>3. InOrder(emt[e].taken)' = s  BY <1>1, <1>2, EmptyConcat
<1>4. \A f \in Emts : /\ InOrder(emt[f].taken)' = InOrder(emt[f].taken)
                      /\ At(f, "free")' <=> At(f, "free")
  BY <1>1, <1>3 DEF At, InOrder
<1>5. FreeSlots' = FreeSlots  BY <1>1 DEF FreeSlots, ring
<1>6. ASSUME NEW x PROVE Places(x)' = Places(x)
  BY <1>1, <1>4, <1>5 DEF Places, ring, InsAt
<1> QED BY <1>1, <1>4, <1>6 DEF PlaceOK

\* What goes back is all the EMT holds.
LEMMA LeftIs ==
  ASSUME TypeOK, FlusherOK, NEW e \in Emts, At(e, "putBack")
  PROVE  /\ emt[e].taken["R3"] \in Seq(Items) /\ pPending["R3"] \in Seq(Items)
         /\ InOrder(emt[e].taken) = emt[e].taken["R3"]
<1>1. emt[e].taken["R0"] = <<>> /\ emt[e].taken["RC"] = <<>>
  <2>1. NothingOf(emt[e].pc) = {"RC", "R0"}  BY DEF NothingOf, At
  <2> QED BY <2>1 DEF FlusherOK
<1>2. emt[e].taken["R3"] \in Seq(Items) /\ pPending["R3"] \in Seq(Items)
  BY EmtTakenIs DEF Ctxs
<1>3. InOrder(emt[e].taken) = <<>> \o (<<>> \o emt[e].taken["R3"])  BY <1>1 DEF InOrder
<1> QED BY <1>2, <1>3, EmptyConcat

LEMMA PlacePutBack ==
  ASSUME TypeOK, PlaceOK, FlusherOK, NEW e \in Emts, PutBack(e)
  PROVE  PlaceOK'
<1> DEFINE left == emt[e].taken["R3"]
           new == pPending["R3"]
<1>1. /\ left \in Seq(Items) /\ new \in Seq(Items) /\ InOrder(emt[e].taken) = left
      /\ emt[e].pc = "putBack" /\ emt \in [Emts -> EmtType] /\ pPending \in [Ctxs -> Seq(Items)]
      /\ emt[e].taken \in [Ctxs -> Seq(Items)] /\ "R3" \in Ctxs
  BY LeftIs, EmtTakenIs DEF PutBack, At, TypeOK, Ctxs
<1>2. /\ UNCHANGED <<ring, ins, consumed>> /\ \A f \in Emts \ {e} : emt'[f] = emt[f]
      /\ \A c \in Ctxs \ {"R3"} : pPending'[c] = pPending[c]
  BY <1>1 DEF PutBack
<1>3. emt'[e].pc # "free"
  <2>1. \/ emt' = [emt EXCEPT ![e] = [pc |-> "release", taken |-> NoneTaken]]
        \/ emt' = [emt EXCEPT ![e].taken["R3"] = AfterOld(emt[e].taken["R3"], pPending["R3"])]
    BY DEF PutBack
  <2>2. emt[e].pc = "putBack" /\ emt \in [Emts -> EmtType]  BY <1>1
  <2>3. ASSUME NEW seq, emt' = [emt EXCEPT ![e].taken["R3"] = seq] PROVE emt'[e].pc = "putBack"
    BY <2>2, <2>3 DEF EmtType
  <2>4. ASSUME NEW new0, emt' = [emt EXCEPT ![e] = [pc |-> "release", taken |-> new0]]
        PROVE  emt'[e].pc = "release"
    BY <2>2, <2>4
  <2> QED BY <2>1, <2>3, <2>4
<1>4. \A f \in Emts \ {e} : InOrder(emt[f].taken)' = InOrder(emt[f].taken)  BY <1>2 DEF InOrder
<1>5. \A f \in Emts : At(f, "free")' <=> At(f, "free")  BY <1>1, <1>2, <1>3 DEF At
<1>6. FreeSlots' = FreeSlots  BY <1>2 DEF FreeSlots, ring
<1>7. IsInjective(left) /\ IsInjective(new) /\ ToSet(left) \subseteq Items /\ ToSet(new) \subseteq Items
  BY <1>1, LenProperties, ElementOfSeq DEF PlaceOK, ToSet
<1>8. CASE new = <<>>
  <2>1. pPending'["R3"] = Reverse(left) /\ emt'[e].taken = NoneTaken
    BY <1>1, <1>8 DEF PutBack
  <2>2. InOrder(emt[e].taken)' = <<>>
    <3>1. emt'[e].taken["R0"] = <<>> /\ emt'[e].taken["RC"] = <<>> /\ emt'[e].taken["R3"] = <<>>
      BY <2>1 DEF NoneTaken, Ctxs
    <3> QED BY <3>1, EmptyConcat, ToSetEmpty DEF InOrder
  <2>3. ToSet(pPending'["R3"]) = ToSet(left) /\ IsInjective(pPending'["R3"])
    BY <1>1, <1>7, <2>1, ToSetReverse, InjectiveReverse
  <2>4. ASSUME NEW x \in Items PROVE \E p : Places(x)' = {p}
    <3>1. CASE x \in ToSet(left)
      <4>1. <<"taken", e>> \in Places(x)  BY <1>1, <3>1, PlacesAre
      <4>2. /\ \A i \in FreeSlots : aFreeItems[i] # x
            /\ \A t \in Threads : ~ (InsAt(t, "push") /\ ins[t].item = x)
            /\ \A c \in Ctxs : x \notin ToSet(pPending[c])
            /\ \A f \in Emts \ {e} : x \notin ToSet(InOrder(emt[f].taken))
            /\ \A f \in Emts : ~ (At(f, "free") /\ consumed = x)
        BY <4>1, Elsewhere
      <4>3. /\ {i \in FreeSlots : aFreeItems[i] = x} = {}
            /\ {t \in Threads : InsAt(t, "push") /\ ins[t].item = x} = {}
            /\ {c \in Ctxs : x \in ToSet(pPending'[c])} = {"R3"}
            /\ {f \in Emts : x \in ToSet(InOrder(emt[f].taken)')} = {}
            /\ {f \in Emts : At(f, "free")' /\ consumed = x} = {}
        BY <1>1, <1>2, <1>4, <1>5, <2>2, <2>3, <3>1, <4>2, ToSetEmpty
      <4>4. Places(x)' = {<<"list", "R3">>}  BY <1>2, <1>6, <4>3 DEF Places, InsAt, ring
      <4> QED BY <4>4
    <3>2. CASE x \notin ToSet(left)
      <4>1. /\ {c \in Ctxs : x \in ToSet(pPending'[c])} = {c \in Ctxs : x \in ToSet(pPending[c])}
            /\ {f \in Emts : x \in ToSet(InOrder(emt[f].taken)')} = {f \in Emts : x \in ToSet(InOrder(emt[f].taken))}
            /\ {f \in Emts : At(f, "free")' /\ consumed = x} = {f \in Emts : At(f, "free") /\ consumed = x}
        BY <1>1, <1>2, <1>4, <1>5, <1>8, <2>2, <2>3, <3>2, ToSetEmpty
      <4>2. Places(x)' = Places(x)  BY <1>2, <1>6, <4>1 DEF Places, InsAt, ring
      <4> QED BY <4>2 DEF PlaceOK
    <3> QED BY <3>1, <3>2
  <2>5. IsInjective(InOrder(emt[e].taken)')  BY <2>2 DEF IsInjective
  <2> QED BY <1>2, <1>4, <2>3, <2>4, <2>5 DEF PlaceOK
<1>9. CASE new # <<>>
  <2> DEFINE both == left \o Reverse(new)
  <2>1. pPending'["R3"] = <<>> /\ emt'[e].taken = [emt[e].taken EXCEPT !["R3"] = both]
    <3>1. /\ pPending' = [pPending EXCEPT !["R3"] = <<>>]
          /\ emt' = [emt EXCEPT ![e].taken["R3"] = both]
      BY <1>1, <1>9 DEF PutBack, AfterOld
    <3> HIDE DEF both
    <3>2. emt[e] \in EmtType  BY <1>1
    <3> QED BY <1>1, <3>1, <3>2 DEF EmtType
  <2>2. Reverse(new) \in Seq(Items) /\ ToSet(Reverse(new)) = ToSet(new) /\ IsInjective(Reverse(new))
    BY <1>1, <1>7, ToSetReverse, InjectiveReverse
  <2>3. both \in Seq(Items) /\ ToSet(both) = ToSet(left) \cup ToSet(new)
    BY <1>1, <2>2, ToSetConcat
  <2>4. InOrder(emt[e].taken)' = both
    <3>1. NothingOf(emt[e].pc) = {"RC", "R0"}  BY <1>1 DEF NothingOf
    <3>2. emt[e].taken["R0"] = <<>> /\ emt[e].taken["RC"] = <<>>  BY <3>1 DEF FlusherOK
    <3>3. emt'[e].taken["R0"] = <<>> /\ emt'[e].taken["RC"] = <<>> /\ emt'[e].taken["R3"] = both
      BY <1>1, <2>1, <3>2 DEF Ctxs
    <3>4. InOrder(emt[e].taken)' = <<>> \o (<<>> \o both)  BY <3>3 DEF InOrder
    <3> QED BY <2>3, <3>4, EmptyConcat
  <2>5. \A x \in ToSet(new) : x \notin ToSet(left)
    <3> SUFFICES ASSUME NEW x \in ToSet(new) PROVE x \notin ToSet(left)  OBVIOUS
    <3>1. <<"list", "R3">> \in Places(x)  BY <1>1, PlacesAre
    <3> QED BY <1>1, <1>7, <3>1, Elsewhere
  <2>6. IsInjective(both)
    <3>1. ToSet(left) \cap ToSet(Reverse(new)) = {}  BY <2>2, <2>5
    <3> QED BY <1>1, <1>7, <2>2, <3>1, InjectiveConcat
  <2>7. ASSUME NEW x \in Items PROVE \E p : Places(x)' = {p}
    <3>1. CASE x \in ToSet(new)
      <4>1. <<"list", "R3">> \in Places(x)  BY <1>1, <3>1, PlacesAre
      <4>2. /\ \A i \in FreeSlots : aFreeItems[i] # x
            /\ \A t \in Threads : ~ (InsAt(t, "push") /\ ins[t].item = x)
            /\ \A c \in Ctxs : x \in ToSet(pPending[c]) => c = "R3"
            /\ \A f \in Emts : x \notin ToSet(InOrder(emt[f].taken))
            /\ \A f \in Emts : ~ (At(f, "free") /\ consumed = x)
        BY <4>1, Elsewhere
      <4>3. /\ {i \in FreeSlots : aFreeItems[i] = x} = {}
            /\ {t \in Threads : InsAt(t, "push") /\ ins[t].item = x} = {}
            /\ {c \in Ctxs : x \in ToSet(pPending'[c])} = {}
            /\ {f \in Emts : x \in ToSet(InOrder(emt[f].taken)')} = {e}
            /\ {f \in Emts : At(f, "free")' /\ consumed = x} = {}
        <5>1. {i \in FreeSlots : aFreeItems[i] = x} = {}  BY <4>2
        <5>2. {t \in Threads : InsAt(t, "push") /\ ins[t].item = x} = {}  BY <4>2
        <5>3. \A c \in Ctxs : x \notin ToSet(pPending'[c])
          BY <1>1, <1>2, <2>1, <4>2, ToSetEmpty
        <5>4. \A f \in Emts : x \in ToSet(InOrder(emt[f].taken)') <=> f = e
          BY <1>4, <2>3, <2>4, <3>1, <4>2
        <5>5. \A f \in Emts : ~ (At(f, "free")' /\ consumed = x)  BY <1>5, <4>2
        <5> QED BY <5>1, <5>2, <5>3, <5>4, <5>5
      <4>4. Places(x)' = {<<"taken", e>>}  BY <1>2, <1>6, <4>3 DEF Places, InsAt, ring
      <4> QED BY <4>4
    <3>2. CASE x \notin ToSet(new)
      <4>1. /\ {c \in Ctxs : x \in ToSet(pPending'[c])} = {c \in Ctxs : x \in ToSet(pPending[c])}
            /\ {f \in Emts : x \in ToSet(InOrder(emt[f].taken)')} = {f \in Emts : x \in ToSet(InOrder(emt[f].taken))}
            /\ {f \in Emts : At(f, "free")' /\ consumed = x} = {f \in Emts : At(f, "free") /\ consumed = x}
        <5>1. \A c \in Ctxs : x \in ToSet(pPending'[c]) <=> x \in ToSet(pPending[c])
          BY <1>1, <1>2, <2>1, <3>2, ToSetEmpty
        <5>2. \A f \in Emts : x \in ToSet(InOrder(emt[f].taken)') <=> x \in ToSet(InOrder(emt[f].taken))
          BY <1>1, <1>4, <2>3, <2>4, <3>2
        <5> QED BY <1>5, <5>1, <5>2
      <4>2. Places(x)' = Places(x)  BY <1>2, <1>6, <4>1 DEF Places, InsAt, ring
      <4> QED BY <4>2 DEF PlaceOK
    <3> QED BY <3>1, <3>2
  <2>8. IsInjective(pPending'["R3"])  BY <2>1 DEF IsInjective
  <2> QED BY <1>2, <1>4, <2>4, <2>6, <2>7, <2>8 DEF PlaceOK
<1> QED BY <1>8, <1>9

LEMMA PlaceNext ==
  ASSUME TypeOK, HandsOK, PlaceOK, FlusherOK, Next, ~ stale'
  PROVE  PlaceOK'
<1>0. ins \in [Threads -> InsType] /\ emt \in [Emts -> EmtType] /\ OneFlusher
  BY DEF TypeOK, FlusherOK
<1>1. ASSUME NEW t \in Threads, (\E ctx \in Ctxs : AllocRead(t, ctx)) \/ SetFF(t) \/ SetPending(t)
      PROVE  PlaceOK'
  <2>1. UNCHANGED <<ring, pPending, consumed, emt>>
    BY <1>1 DEF AllocRead, SetFF, SetPending
  <2>2. /\ \A u \in Threads \ {t} : ins'[u] = ins[u]
        /\ ~ InsAt(t, "push") /\ ~ InsAt(t, "push")'
    BY <1>0, <1>1 DEF AllocRead, SetFF, SetPending, InsGoto, InsAt, InsType, MayInsert, Away
  <2> QED BY <2>1, <2>2, PlacesSame DEF InsAt, At
<1>2. ASSUME NEW e \in Emts,
             \/ PDMR3QueueFlushAll(e) \/ TestAndSet(e) \/ ClearPending(e) \/ Scan(e) \/ Fed(e)
             \/ Release(e) \/ CheckPending(e) \/ CheckFF(e) \/ Again(e)
      PROVE  PlaceOK'
  <2>1. UNCHANGED <<ring, pPending, consumed, ins>>
    BY <1>2 DEF PDMR3QueueFlushAll, TestAndSet, ClearPending, Scan, Fed, Release, CheckPending,
       CheckFF, Again, flags
  <2>2. /\ \A f \in Emts \ {e} : emt'[f] = emt[f]
        /\ emt'[e].taken = emt[e].taken /\ ~ At(e, "free") /\ ~ At(e, "free")'
    BY <1>0, <1>2 DEF PDMR3QueueFlushAll, TestAndSet, ClearPending, Scan, Fed, Release, CheckPending,
       CheckFF, Again, Goto, At, EmtType
  <2> QED BY <2>1, <2>2, PlacesSame DEF InsAt, At
<1>3. ASSUME NEW e \in Emts, TakeLists(e) PROVE PlaceOK'
  <2>1. ASSUME At(e, "takeR3") PROVE emt[e].taken["R3"] = <<>>
    BY <2>1 DEF At, FlusherOK, NothingOf, Ctxs
  <2>2. ASSUME At(e, "takeRC") PROVE emt[e].taken["RC"] = <<>>
    BY <2>2 DEF At, FlusherOK, NothingOf
  <2>3. ASSUME At(e, "takeR0") PROVE emt[e].taken["R0"] = <<>>
    BY <2>3 DEF At, FlusherOK, NothingOf
  <2>4. CASE Take(e, "R3", "takeR3", "takeRC")
    <3>1. emt[e].taken["R3"] = <<>> /\ "R3" \in Ctxs  BY <2>1, <2>4 DEF Take, Ctxs
    <3> QED BY <2>4, <3>1, PlaceTake
  <2>5. CASE Take(e, "RC", "takeRC", "takeR0")
    <3>1. emt[e].taken["RC"] = <<>> /\ "RC" \in Ctxs  BY <2>2, <2>5 DEF Take, Ctxs
    <3> QED BY <2>5, <3>1, PlaceTake
  <2>6. CASE Take(e, "R0", "takeR0", "feed")
    <3>1. emt[e].taken["R0"] = <<>> /\ "R0" \in Ctxs  BY <2>3, <2>6 DEF Take, Ctxs
    <3> QED BY <2>6, <3>1, PlaceTake
  <2> QED BY <1>3, <2>4, <2>5, <2>6 DEF TakeLists
<1> QED
  BY <1>0, <1>1, <1>2, <1>3, StepCases, PlaceAlloc, PlacePush, PlaceConsume, PlaceFree,
     PlaceRefuse, PlacePutBack DEF Flush

(* HandsOK, continued. *)

LEMMA HandsNext ==
  ASSUME TypeOK, HandsOK, PlaceOK, FlusherOK, Next, ~ stale'
  PROVE  HandsOK'
<1>0. ins \in [Threads -> InsType] /\ emt \in [Emts -> EmtType] /\ OneFlusher
  BY DEF TypeOK, FlusherOK
<1>1. ASSUME NEW t \in Threads, NEW ctx \in Ctxs, AllocRead(t, ctx) PROVE HandsOK'
  <2>1. UNCHANGED <<aFreeItems, iFreeHead, iFreeTail, consumed, emt, late>> /\ iFreeTail # iFreeHead
    BY <1>1 DEF AllocRead, ring, past
  <2>2. /\ \A u \in Threads \ {t} : ins'[u] = ins[u]
        /\ ins'[t].pc = "alloc" /\ ins'[t].item = aFreeItems[iFreeTail]
    BY <1>0, <1>1 DEF AllocRead
  <2>3. FreeSlots' = FreeSlots  BY <2>1 DEF FreeSlots
  <2> QED BY <2>1, <2>2, <2>3 DEF HandsOK, InsAt, At, Fresh
<1>2. ASSUME NEW t \in Threads, AllocCas(t) PROVE HandsOK'
  <2>1. UNCHANGED <<aFreeItems, iFreeHead, consumed, emt>> /\ ins[t].pc = "alloc"
    BY <1>2 DEF AllocCas, InsAt
  <2>2. CASE ins[t].i = iFreeTail
    <3>1. /\ iFreeTail' = NextSlot(iFreeTail) /\ late' = (late \cup ComesRoundTo) \ {t}
          /\ ins' = [ins EXCEPT ![t].pc = "push"]
      BY <1>2, <2>2 DEF AllocCas, InsGoto
    <3>2. iFreeTail # iFreeHead /\ aFreeItems[iFreeTail] = ins[t].item
      BY <1>2, <2>2, CasFresh DEF Fresh
    <3>3. FreeSlots' = FreeSlots \ {iFreeTail} /\ iFreeTail \in FreeSlots
      BY <2>1, <3>1, <3>2, TailMoves
    <3>4. /\ ins'[t].pc = "push" /\ ins'[t].item = ins[t].item /\ ins[t].item \in Items
          /\ \A u \in Threads \ {t} : ins'[u] = ins[u]
      BY <1>0, <3>1, <3>2, <3>3 DEF InsType, HandsOK
    <3>5. \A u \in Threads \ late' : InsAt(u, "alloc")' => ins'[u].i # iFreeTail'
      BY <3>1, <3>4 DEF ComesRoundTo, InsAt
    <3>6. \A i \in FreeSlots' : aFreeItems'[i] \in Items  BY <2>1, <3>3 DEF HandsOK
    <3>7. \A u \in Threads : InsAt(u, "push")' => ins'[u].item \in Items
      BY <3>4 DEF HandsOK, InsAt
    <3> QED BY <2>1, <3>5, <3>6, <3>7 DEF HandsOK, At
  <2>3. CASE ins[t].i # iFreeTail
    <3>1. iFreeTail' = iFreeTail /\ FreeSlots' = FreeSlots /\ late' = late \ {t}
      BY <1>2, <2>1, <2>3 DEF AllocCas, FreeSlots
    <3>2. \/ ins' = [ins EXCEPT ![t] = Away]
          \/ /\ iFreeTail # iFreeHead
             /\ ins' = [ins EXCEPT ![t].item = aFreeItems[iFreeTail], ![t].i = iFreeTail]
      BY <1>2, <2>3 DEF AllocCas, ItemNow
    <3>3. /\ \A u \in Threads \ {t} : ins'[u] = ins[u] /\ ins'[t].pc \in {"alloc", "away"}
          /\ ins'[t].pc = "alloc" => iFreeTail # iFreeHead /\ ins'[t].item = aFreeItems[iFreeTail]
      BY <1>0, <2>1, <3>2 DEF InsType, Away
    <3>4. \A u \in Threads : InsAt(u, "push")' => ins'[u].item \in Items
      <4> SUFFICES ASSUME NEW u \in Threads, InsAt(u, "push")' PROVE ins'[u].item \in Items  OBVIOUS
      <4>1. CASE u = t  BY <1>0, <2>1, <3>2, <4>1 DEF InsType, Away, InsAt
      <4>2. CASE u # t  BY <3>3, <4>2 DEF HandsOK, InsAt
      <4> QED BY <4>1, <4>2
    <3>5. \A u \in Threads \ late' : InsAt(u, "alloc")' /\ ins'[u].i = iFreeTail
            => iFreeTail # iFreeHead /\ aFreeItems[iFreeTail] = ins'[u].item
      <4> SUFFICES ASSUME NEW u \in Threads \ late', InsAt(u, "alloc")', ins'[u].i = iFreeTail
                   PROVE  iFreeTail # iFreeHead /\ aFreeItems[iFreeTail] = ins'[u].item
        OBVIOUS
      <4>1. CASE u = t
        <5>1. ins'[t].pc = "alloc"  BY <4>1 DEF InsAt
        <5> QED BY <1>0, <2>1, <3>2, <4>1, <5>1 DEF InsType, Away
      <4>2. CASE u # t
        <5>1. u \in Threads \ late /\ ins'[u] = ins[u]  BY <3>1, <3>3, <4>2
        <5> QED BY <5>1 DEF HandsOK, InsAt, Fresh
      <4> QED BY <4>1, <4>2
    <3> QED BY <2>1, <3>1, <3>4, <3>5 DEF HandsOK, At, Fresh
  <2> QED BY <2>2, <2>3
<1>3. ASSUME NEW t \in Threads, Push(t) \/ SetFF(t) \/ SetPending(t) PROVE HandsOK'
  <2>1. UNCHANGED <<aFreeItems, iFreeHead, iFreeTail, consumed, emt, late>>
    BY <1>3 DEF Push, SetFF, SetPending, ring, past
  <2>2. /\ \A u \in Threads \ {t} : ins'[u] = ins[u]
        /\ ins'[t].pc \in {"setFF", "setPending", "away"}
    BY <1>0, <1>3 DEF Push, SetFF, SetPending, InsGoto, InsType, Away
  <2>3. FreeSlots' = FreeSlots  BY <2>1 DEF FreeSlots
  <2> QED BY <2>1, <2>2, <2>3 DEF HandsOK, InsAt, At, Fresh
<1>11. \A e \in Emts : Flush(e) \/ Refuse(e) => late' = late
  BY DEF Flush, Refuse, PDMR3QueueFlushAll, TestAndSet, ClearPending, Scan, TakeLists, Take, Consume,
     Free, Fed, PutBack, Release, CheckPending, CheckFF, Again, past
<1>4. ASSUME NEW e \in Emts, UNCHANGED <<ring, ins>>, \A f \in Emts \ {e} : emt'[f] = emt[f],
             ~ At(e, "free")', UNCHANGED <<consumed, late>>
      PROVE  HandsOK'
  <2>1. FreeSlots' = FreeSlots  BY <1>4 DEF FreeSlots, ring
  <2> QED BY <1>4, <2>1 DEF HandsOK, ring, At, InsAt, Fresh
<1>5. ASSUME NEW e \in Emts,
             \/ PDMR3QueueFlushAll(e) \/ TestAndSet(e) \/ ClearPending(e) \/ Scan(e) \/ Fed(e)
             \/ Release(e) \/ CheckPending(e) \/ CheckFF(e) \/ Again(e)
      PROVE  HandsOK'
  <2>1. UNCHANGED <<ring, consumed, ins>>
    BY <1>5 DEF PDMR3QueueFlushAll, TestAndSet, ClearPending, Scan, Fed, Release, CheckPending,
       CheckFF, Again, flags
  <2>2. /\ \A f \in Emts \ {e} : emt'[f] = emt[f]
        /\ ~ At(e, "free")'
    BY <1>0, <1>5 DEF PDMR3QueueFlushAll, TestAndSet, ClearPending, Scan, Fed, Release, CheckPending,
       CheckFF, Again, Goto, At, EmtType
  <2>3. late' = late  BY <1>5, <1>11 DEF Flush
  <2> QED BY <1>4, <2>1, <2>2, <2>3
<1>6. ASSUME NEW e \in Emts, TakeLists(e) PROVE HandsOK'
  <2>1. UNCHANGED <<ring, ins, consumed>> /\ \A f \in Emts \ {e} : emt'[f] = emt[f]
    BY <1>0, <1>6 DEF TakeLists, Take
  <2>2. emt'[e].pc \in {"takeRC", "takeR0", "feed"}
    BY <1>0, <1>6 DEF TakeLists, Take, EmtType
  <2>3. late' = late  BY <1>6, <1>11 DEF Flush
  <2> QED BY <1>4, <2>1, <2>2, <2>3 DEF At
<1>7. ASSUME NEW e \in Emts, Refuse(e) PROVE HandsOK'
  <2>1. UNCHANGED <<ring, ins, consumed>> /\ emt'[e].pc = "putBack" /\ \A f \in Emts \ {e} : emt'[f] = emt[f]
    BY <1>0, <1>7 DEF Refuse
  <2>2. late' = late  BY <1>7, <1>11
  <2> QED BY <1>4, <2>1, <2>2 DEF At
<1>8. ASSUME NEW e \in Emts, PutBack(e) PROVE HandsOK'
  <2>1. UNCHANGED <<ring, ins, consumed>> /\ emt[e].pc = "putBack"
    BY <1>8 DEF PutBack, At
  <2>2. \/ emt' = [emt EXCEPT ![e] = [pc |-> "release", taken |-> NoneTaken]]
        \/ emt' = [emt EXCEPT ![e].taken["R3"] = AfterOld(emt[e].taken["R3"], pPending["R3"])]
    BY <1>8 DEF PutBack
  <2>3. emt'[e].pc # "free" /\ \A f \in Emts \ {e} : emt'[f] = emt[f]
    <3>1. CASE emt' = [emt EXCEPT ![e] = [pc |-> "release", taken |-> NoneTaken]]
      BY <1>0, <3>1
    <3>2. ASSUME NEW seq, emt' = [emt EXCEPT ![e].taken["R3"] = seq]
          PROVE  emt'[e].pc # "free" /\ \A f \in Emts \ {e} : emt'[f] = emt[f]
      <4>1. emt[e] \in EmtType  BY <1>0
      <4> QED BY <1>0, <2>1, <3>2, <4>1 DEF EmtType
    <3> QED BY <2>2, <3>1, <3>2
  <2>4. late' = late  BY <1>8, <1>11 DEF Flush
  <2> QED BY <1>4, <2>1, <2>3, <2>4 DEF At
<1>9. ASSUME NEW e \in Emts, Consume(e) PROVE HandsOK'
  <2>1. UNCHANGED <<ring, ins>> /\ \A f \in Emts \ {e} : emt'[f] = emt[f]
    BY <1>0, <1>9 DEF Consume
  <2>2. consumed' \in Items
    <3>1. emt[e].taken \in [Ctxs -> Seq(Items)] /\ emt[e].taken # NoneTaken
          /\ consumed' = Head(InOrder(emt[e].taken))
      BY <1>9, EmtTakenIs DEF Consume
    <3>2. InOrder(emt[e].taken) \in Seq(Items) /\ InOrder(emt[e].taken) # <<>>
      BY <3>1, InOrderSet, InOrderFirst
    <3> QED BY <3>1, <3>2, HeadTailSet
  <2>3. FreeSlots' = FreeSlots  BY <2>1 DEF FreeSlots, ring
  <2>4. late' = late  BY <1>9, <1>11 DEF Flush
  <2> QED BY <2>1, <2>2, <2>3, <2>4 DEF HandsOK, ring, InsAt, Fresh
<1>10. ASSUME NEW e \in Emts, Free(e) PROVE HandsOK'
  <2>1. UNCHANGED <<ins, consumed, iFreeTail>> /\ emt[e].pc = "free" /\ consumed \in Items
        /\ aFreeItems' = [aFreeItems EXCEPT ![iFreeHead] = consumed]
    BY <1>10 DEF Free, At, HandsOK
  <2>2. \A i \in FreeSlots' : aFreeItems'[i] \in Items  BY <1>10, <2>1, FreeFits DEF HandsOK
  <2>3. iFreeTail # iFreeHead => aFreeItems'[iFreeTail] = aFreeItems[iFreeTail]
    BY <2>1 DEF TypeOK
  <2>4. iFreeHead' # iFreeTail  BY <1>10, FreeFits
  <2>5. \A f \in Emts \ {e} : emt'[f] = emt[f] /\ emt'[e].pc = "feed"
    BY <1>0, <1>10 DEF Free, Goto, EmtType
  <2>6. late' = late  BY <1>10, <1>11 DEF Flush
  <2> QED BY <2>1, <2>2, <2>3, <2>4, <2>5, <2>6 DEF HandsOK, InsAt, At, Fresh
<1> QED
  BY <1>1, <1>2, <1>3, <1>5, <1>6, <1>7, <1>8, <1>9, <1>10, StepCases DEF Flush

(* FlusherOK. *)

\* A step of an EMT that flushes before and after it.
LEMMA FlusherGoesOn ==
  ASSUME FlusherOK, NEW e \in Emts, emt[e].pc \in Flushing, emt'[e].pc \in Flushing,
         flushing'.active = flushing.active, \A f \in Emts \ {e} : emt'[f] = emt[f],
         \A ctx \in NothingOf(emt'[e].pc) : emt'[e].taken[ctx] = <<>>
  PROVE  FlusherOK'
<1>1. OneFlusher'  BY DEF FlusherOK, OneFlusher
<1> QED BY <1>1 DEF FlusherOK

\* A step that is not about the flush.
LEMMA FlusherAside ==
  ASSUME FlusherOK, NEW e \in Emts, emt[e].pc \notin Flushing, emt'[e].pc \notin Flushing,
         flushing'.active = flushing.active, \A f \in Emts \ {e} : emt'[f] = emt[f],
         emt'[e].taken = emt[e].taken
  PROVE  FlusherOK'
<1>1. OneFlusher'  BY DEF FlusherOK, OneFlusher
<1>2. NothingOf(emt'[e].pc) = {}  BY DEF NothingOf, Flushing
<1> QED BY <1>1, <1>2 DEF FlusherOK

LEMMA FlusherNext ==
  ASSUME TypeOK, FlusherOK, Next
  PROVE  FlusherOK'
<1>0. ins \in [Threads -> InsType] /\ emt \in [Emts -> EmtType] /\ OneFlusher
      /\ flushing \in [active : BOOLEAN, pending : BOOLEAN]
  BY DEF TypeOK, FlusherOK
<1>1. ASSUME NEW t \in Threads,
             (\E ctx \in Ctxs : AllocRead(t, ctx)) \/ AllocCas(t) \/ Push(t) \/ SetFF(t) \/ SetPending(t)
      PROVE  FlusherOK'
  <2>1. emt' = emt /\ flushing'.active = flushing.active
    BY <1>0, <1>1 DEF AllocRead, AllocCas, Push, SetFF, SetPending, flags
  <2> QED BY <2>1 DEF FlusherOK, OneFlusher
<1>2. ASSUME NEW e \in Emts, TestAndSet(e) PROVE FlusherOK'
  <2>1. emt[e].pc = "try" /\ emt[e].taken = NoneTaken
    BY <1>0, <1>2 DEF TestAndSet, At, OneFlusher, Flushing
  <2>2. CASE flushing.active
    <3>1. emt' = [emt EXCEPT ![e].pc = "idle"] /\ flushing' = flushing
      BY <1>2, <2>2 DEF TestAndSet, ActiveFree, Goto
    <3>2. emt'[e].pc = "idle" /\ emt'[e].taken = emt[e].taken /\ \A f \in Emts \ {e} : emt'[f] = emt[f]
      BY <1>0, <3>1 DEF EmtType
    <3>3. emt[e].pc \notin Flushing /\ emt'[e].pc \notin Flushing  BY <2>1, <3>2 DEF Flushing
    <3> QED BY <3>1, <3>2, <3>3, FlusherAside
  <2>3. CASE ~ flushing.active
    <3>1. emt' = [emt EXCEPT ![e].pc = "clear"] /\ flushing' = [flushing EXCEPT !.active = TRUE]
      BY <1>2, <2>3 DEF TestAndSet, ActiveFree, Goto
    <3>2. /\ emt'[e].pc = "clear" /\ emt'[e].taken = NoneTaken /\ flushing'.active = TRUE
          /\ \A f \in Emts \ {e} : emt'[f] = emt[f]
      BY <1>0, <2>1, <3>1 DEF EmtType
    <3>3. \A f \in Emts : emt[f].pc \notin Flushing  BY <1>0, <2>3 DEF OneFlusher
    <3>4. emt'[e].pc \in Flushing  BY <3>2 DEF Flushing
    <3>5. OneFlusher'  BY <1>0, <3>2, <3>3, <3>4 DEF OneFlusher
    <3>6. \A ctx \in Ctxs : emt'[e].taken[ctx] = <<>>  BY <3>2 DEF NoneTaken
    <3>7. NothingOf(emt'[e].pc) = Ctxs  BY <3>2 DEF NothingOf
    <3>8. \A f \in Emts : \A ctx \in NothingOf(emt'[f].pc) : emt'[f].taken[ctx] = <<>>
      BY <3>2, <3>6, <3>7 DEF FlusherOK
    <3> QED BY <3>4, <3>5, <3>8 DEF FlusherOK
  <2> QED BY <2>2, <2>3
<1>3. ASSUME NEW e \in Emts,
             PDMR3QueueFlushAll(e) \/ CheckPending(e) \/ CheckFF(e) \/ Again(e)
      PROVE  FlusherOK'
  <2>1. /\ emt[e].pc \in {"idle", "check", "checkFF", "again"} /\ flushing' = flushing
        /\ \E pc \in {"try", "checkFF", "again", "idle"} : emt' = [emt EXCEPT ![e].pc = pc]
    BY <1>3 DEF PDMR3QueueFlushAll, CheckPending, CheckFF, Again, At, Goto, flags
  <2>2. /\ emt'[e].pc \in {"try", "checkFF", "again", "idle"} /\ emt'[e].taken = emt[e].taken
        /\ \A f \in Emts \ {e} : emt'[f] = emt[f]
    BY <1>0, <2>1 DEF EmtType
  <2>3. emt[e].pc \notin Flushing /\ emt'[e].pc \notin Flushing  BY <2>1, <2>2 DEF Flushing
  <2> QED BY <2>1, <2>2, <2>3, FlusherAside
<1>4. ASSUME NEW e \in Emts, ClearPending(e) \/ Scan(e) \/ Fed(e) \/ Free(e) PROVE FlusherOK'
  <2>1. /\ emt[e].pc \in {"clear", "scan", "feed", "free"} /\ flushing'.active = flushing.active
        /\ \E pc \in {"scan", "takeR3", "release", "feed"} : emt' = [emt EXCEPT ![e].pc = pc]
    BY <1>0, <1>4 DEF ClearPending, Scan, Fed, Free, At, Goto, flags
  <2>2. /\ emt'[e].pc \in {"scan", "takeR3", "release", "feed"} /\ emt'[e].taken = emt[e].taken
        /\ \A f \in Emts \ {e} : emt'[f] = emt[f]
    BY <1>0, <2>1 DEF EmtType
  <2>3. emt[e].pc \in Flushing /\ emt'[e].pc \in Flushing  BY <2>1, <2>2 DEF Flushing
  <2>4. emt'[e].pc # "feed" => \A ctx \in Ctxs : emt[e].taken[ctx] = <<>>
    <3>1. CASE ClearPending(e) \/ Scan(e)
      <4>1. NothingOf(emt[e].pc) = Ctxs
        BY <3>1 DEF ClearPending, Scan, At, NothingOf
      <4> QED BY <4>1 DEF FlusherOK
    <3>2. CASE Fed(e)  BY <3>2 DEF Fed, NoneTaken
    <3>3. CASE Free(e)  BY <1>0, <3>3 DEF Free, Goto, EmtType
    <3> QED BY <1>4, <3>1, <3>2, <3>3
  <2>5. NothingOf(emt'[e].pc) \subseteq Ctxs /\ (emt'[e].pc = "feed" => NothingOf(emt'[e].pc) = {})
    BY <2>2 DEF NothingOf
  <2>6. \A ctx \in NothingOf(emt'[e].pc) : emt'[e].taken[ctx] = <<>>  BY <2>2, <2>4, <2>5
  <2> QED BY <2>1, <2>2, <2>3, <2>6, FlusherGoesOn
<1>5. ASSUME NEW e \in Emts, TakeLists(e) PROVE FlusherOK'
  <2>1. PICK ctx \in Ctxs, here \in EmtPcs, next \in EmtPcs :
          /\ Take(e, ctx, here, next)
          /\ <<ctx, here, next>> \in {<<"R3", "takeR3", "takeRC">>, <<"RC", "takeRC", "takeR0">>,
                                      <<"R0", "takeR0", "feed">>}
    BY <1>5 DEF TakeLists, Ctxs, EmtPcs, Flushing
  <2>2. /\ emt[e].pc = here /\ flushing' = flushing
        /\ emt' = [emt EXCEPT ![e].pc = next, ![e].taken[ctx] = OldestFirst(pPending[ctx])]
    BY <2>1 DEF Take, At, flags
  <2>3. /\ emt'[e].pc = next /\ \A c \in Ctxs \ {ctx} : emt'[e].taken[c] = emt[e].taken[c]
        /\ \A f \in Emts \ {e} : emt'[f] = emt[f]
    BY <1>0, <2>2 DEF EmtType
  <2>4. here \in Flushing /\ next \in Flushing  BY <2>1 DEF Flushing
  <2>5. NothingOf(next) \subseteq NothingOf(here) \ {ctx} /\ NothingOf(next) \subseteq Ctxs
    BY <2>1 DEF NothingOf, Ctxs
  <2>6. \A c \in NothingOf(emt'[e].pc) : emt'[e].taken[c] = <<>>
    BY <2>2, <2>3, <2>5 DEF FlusherOK
  <2> QED BY <2>2, <2>3, <2>4, <2>6, FlusherGoesOn
<1>6. ASSUME NEW e \in Emts, Consume(e) PROVE FlusherOK'
  <2>1. /\ emt[e].pc = "feed" /\ flushing' = flushing /\ emt'[e].pc = "free"
        /\ \A f \in Emts \ {e} : emt'[f] = emt[f]
    BY <1>0, <1>6 DEF Consume, At, flags, EmtType
  <2>2. NothingOf(emt'[e].pc) = {} /\ emt[e].pc \in Flushing /\ emt'[e].pc \in Flushing
    BY <2>1 DEF NothingOf, Flushing
  <2> QED BY <2>1, <2>2, FlusherGoesOn
<1>7. ASSUME NEW e \in Emts, Refuse(e) PROVE FlusherOK'
  <2>1. /\ emt[e].pc = "feed" /\ flushing' = flushing /\ emt'[e].pc = "putBack"
        /\ \A f \in Emts \ {e} : emt'[f] = emt[f]
        /\ emt'[e].taken = [NoneTaken EXCEPT !["R3"] = InOrder(emt[e].taken)]
    BY <1>0, <1>7 DEF Refuse, At, flags
  <2>2. emt'[e].taken["RC"] = <<>> /\ emt'[e].taken["R0"] = <<>>  BY <2>1 DEF NoneTaken, Ctxs
  <2>3. NothingOf(emt'[e].pc) = {"RC", "R0"} /\ emt[e].pc \in Flushing /\ emt'[e].pc \in Flushing
    BY <2>1 DEF NothingOf, Flushing
  <2>4. \A ctx \in NothingOf(emt'[e].pc) : emt'[e].taken[ctx] = <<>>  BY <2>2, <2>3
  <2> QED BY <2>1, <2>3, <2>4, FlusherGoesOn
<1>8. ASSUME NEW e \in Emts, PutBack(e) PROVE FlusherOK'
  <2>1. emt[e].pc = "putBack" /\ flushing' = flushing /\ emt[e].taken["RC"] = <<>> /\ emt[e].taken["R0"] = <<>>
    BY <1>8 DEF PutBack, At, flags, FlusherOK, NothingOf
  <2>2. \/ emt' = [emt EXCEPT ![e] = [pc |-> "release", taken |-> NoneTaken]]
        \/ emt' = [emt EXCEPT ![e].taken["R3"] = AfterOld(emt[e].taken["R3"], pPending["R3"])]
    BY <1>8 DEF PutBack
  <2>3. /\ \A f \in Emts \ {e} : emt'[f] = emt[f]
        /\ \/ emt'[e].pc = "release" /\ emt'[e].taken = NoneTaken
           \/ emt'[e].pc = "putBack" /\ emt'[e].taken["RC"] = <<>> /\ emt'[e].taken["R0"] = <<>>
    <3>1. CASE emt' = [emt EXCEPT ![e] = [pc |-> "release", taken |-> NoneTaken]]
      BY <1>0, <3>1
    <3>2. ASSUME NEW seq, emt' = [emt EXCEPT ![e].taken["R3"] = seq]
          PROVE  /\ \A f \in Emts \ {e} : emt'[f] = emt[f]
                 /\ emt'[e].pc = "putBack" /\ emt'[e].taken["RC"] = <<>> /\ emt'[e].taken["R0"] = <<>>
      <4>1. emt'[e] = [emt[e] EXCEPT !.taken["R3"] = seq] /\ \A f \in Emts \ {e} : emt'[f] = emt[f]
        BY <1>0, <3>2
      <4>2. emt[e].taken \in [Ctxs -> Seq(Items)] /\ emt[e] \in EmtType  BY <1>0, EmtTakenIs
      <4>3. emt'[e].pc = emt[e].pc /\ emt'[e].taken = [emt[e].taken EXCEPT !["R3"] = seq]
        BY <4>1, <4>2 DEF EmtType
      <4> QED BY <2>1, <4>1, <4>2, <4>3 DEF Ctxs
    <3> QED BY <2>2, <3>1, <3>2
  <2>4. emt[e].pc \in Flushing /\ emt'[e].pc \in Flushing  BY <2>1, <2>3 DEF Flushing
  <2>5. \A ctx \in NothingOf(emt'[e].pc) : emt'[e].taken[ctx] = <<>>
    BY <2>3 DEF NothingOf, NoneTaken
  <2> QED BY <2>1, <2>3, <2>4, <2>5, FlusherGoesOn
<1>9. ASSUME NEW e \in Emts, Release(e) PROVE FlusherOK'
  <2>1. /\ emt[e].pc = "release" /\ flushing' = [flushing EXCEPT !.active = FALSE]
        /\ emt' = [emt EXCEPT ![e].pc = "check"]
    BY <1>9 DEF Release, At, Goto
  <2>2. /\ ~ flushing'.active /\ emt'[e].pc = "check" /\ emt'[e].taken = emt[e].taken
        /\ \A f \in Emts \ {e} : emt'[f] = emt[f]
    BY <1>0, <2>1 DEF EmtType
  <2>3. emt[e].pc \in Flushing /\ emt'[e].pc \notin Flushing /\ NothingOf(emt'[e].pc) = {}
    BY <2>1, <2>2 DEF Flushing, NothingOf
  <2>4. \A f \in Emts : emt'[f].pc \notin Flushing  BY <1>0, <2>2, <2>3 DEF OneFlusher
  <2>5. emt[e].taken = NoneTaken
    <3>1. \A ctx \in Ctxs : emt[e].taken[ctx] = <<>>
      BY <2>1 DEF FlusherOK, NothingOf
    <3>2. emt[e].taken \in [Ctxs -> Seq(Items)]  BY EmtTakenIs
    <3> QED BY <3>1, <3>2 DEF NoneTaken
  <2>6. \A f \in Emts : emt'[f].taken = NoneTaken
    BY <1>0, <2>2, <2>3, <2>4, <2>5 DEF OneFlusher
  <2>7. OneFlusher'  BY <2>4, <2>6 DEF OneFlusher
  <2>8. \A f \in Emts : \A ctx \in NothingOf(emt'[f].pc) : emt'[f].taken[ctx] = <<>>
    BY <2>2, <2>3 DEF FlusherOK
  <2> QED BY <2>2, <2>7, <2>8 DEF FlusherOK
<1> QED
  BY <1>1, <1>2, <1>3, <1>4, <1>5, <1>6, <1>7, <1>8, <1>9, StepCases DEF Flush

(* OwedOK. *)

\* Only a flusher will take anything or puts anything back.
LEMMA OnlyFlusher ==
  ASSUME FlusherOK, NEW e \in Emts, emt[e].pc \in Flushing, NEW f \in Emts \ {e}
  PROVE  /\ emt[f].pc \notin Flushing /\ ~ At(f, "putBack")
         /\ \A x : ~ WillTake(f, x)
<1>1. emt[f].pc \notin Flushing  BY DEF FlusherOK, OneFlusher
<1>2. StillToTake(emt[f].pc) = {} /\ emt[f].pc \notin {"clear", "scan", "putBack"}
  BY <1>1 DEF StillToTake, Flushing
<1> QED BY <1>1, <1>2 DEF WillTake, At

\* A step of an EMT that leaves the lists alone and the items to those who will come.
LEMMA OwedStill ==
  ASSUME OwedOK, NEW e \in Emts, UNCHANGED <<pPending, ins, leftOver, missed>>,
         flushing'.pending = flushing.pending, \A f \in Emts \ {e} : emt'[f] = emt[f],
         emt'[e].pc # "putBack", emt[e].pc \notin {"clear", "scan"}, StillToTake(emt[e].pc) = {},
         ff => ff' \/ emt'[e].pc \in {"try", "again"},
         emt[e].pc \in {"try", "again"} => emt'[e].pc \in {"try", "again", "clear"},
         emt[e].pc \in Flushing \cup {"check"} /\ flushing.pending =>
           emt'[e].pc \in Flushing \cup {"check", "again"}
  PROVE  OwedOK'
<1> SUFFICES ASSUME NEW x \in Items, Owed(x)'
             PROVE  Noted(x)' /\ (missed \/ Called(x)')
  BY DEF OwedOK
<1>1. Noted(x) /\ (missed \/ Called(x))
  <2>1. Owed(x)  BY DEF Owed, Waiting, At
  <2> QED BY <2>1 DEF OwedOK
<1>2. \A f \in Emts \ {e} : WillTake(f, x) => WillTake(f, x)'  BY DEF WillTake
<1>3. ~ WillTake(e, x)  BY DEF WillTake
<1>4. Noted(x)'  BY <1>1, <1>2, <1>3 DEF Noted, Raising
<1>5. Called(x) => Called(x)'
  <2>1. CASE ff \/ \E t \in Threads : InsAt(t, "setFF")  BY <2>1 DEF Called, InsAt
  <2>2. CASE \E f \in Emts : emt[f].pc \in {"try", "again"}
    BY <2>2 DEF Called, WillTake
  <2>3. CASE \E f \in Emts : WillTake(f, x)  BY <1>2, <1>3, <2>3 DEF Called
  <2>4. CASE flushing.pending /\ \E f \in Emts : emt[f].pc \in Flushing \cup {"check"}
    BY <2>4 DEF Called
  <2> QED BY <2>1, <2>2, <2>3, <2>4 DEF Called
<1> QED BY <1>1, <1>4, <1>5

\* A step of a thread that inserts and moves no item.
LEMMA OwedInsert ==
  ASSUME OwedOK, NEW t \in Threads, UNCHANGED <<pPending, emt, leftOver, missed, ff>>,
         flushing.pending => flushing'.pending, \A u \in Threads \ {t} : ins'[u] = ins[u],
         ins[t].pc # "setFF", ins[t].pc = "setPending" => flushing'.pending
  PROVE  OwedOK'
<1> SUFFICES ASSUME NEW x \in Items, Owed(x)'
             PROVE  Noted(x)' /\ (missed \/ Called(x)')
  BY DEF OwedOK
<1>1. Noted(x) /\ (missed \/ Called(x))
  <2>1. Owed(x)  BY DEF Owed, Waiting, At
  <2> QED BY <2>1 DEF OwedOK
<1>2. \A f \in Emts : WillTake(f, x) => WillTake(f, x)'  BY DEF WillTake
<1>3. Noted(x)'
  <2>1. CASE flushing.pending  BY <2>1 DEF Noted
  <2>2. CASE Raising
    <3>1. PICK u \in Threads : ins[u].pc \in {"setFF", "setPending"}  BY <2>2 DEF Raising
    <3> QED BY <3>1 DEF Noted, Raising
  <2>3. CASE \E f \in Emts : WillTake(f, x)  BY <1>2, <2>3 DEF Noted
  <2> QED BY <1>1, <2>1, <2>2, <2>3 DEF Noted
<1>4. Called(x) => Called(x)'
  <2>1. CASE ff  BY <2>1 DEF Called
  <2>2. CASE \E u \in Threads : InsAt(u, "setFF")  BY <2>2 DEF Called, InsAt
  <2>3. CASE \E f \in Emts : emt[f].pc \in {"try", "again"} \/ WillTake(f, x)
    BY <1>2, <2>3 DEF Called
  <2>4. CASE flushing.pending /\ \E f \in Emts : emt[f].pc \in Flushing \cup {"check"}
    BY <2>4 DEF Called
  <2> QED BY <2>1, <2>2, <2>3, <2>4 DEF Called
<1> QED BY <1>1, <1>3, <1>4

\* The flusher moves items between the lists and what it holds, or passes the lists by.
LEMMA OwedMoves ==
  ASSUME OwedOK, FlusherOK, NEW e \in Emts, UNCHANGED <<ins, missed, ff, flushing>>,
         \A f \in Emts \ {e} : emt'[f] = emt[f],
         emt[e].pc \in Flushing, emt'[e].pc \in Flushing,
         \A x \in Items : Owed(x)' => Owed(x) /\ (WillTake(e, x) => WillTake(e, x)')
  PROVE  OwedOK'
<1> SUFFICES ASSUME NEW x \in Items, Owed(x)'
             PROVE  Noted(x)' /\ (missed \/ Called(x)')
  BY DEF OwedOK
<1>1. Noted(x) /\ (missed \/ Called(x))  BY DEF OwedOK
<1>2. \A f \in Emts : WillTake(f, x) => WillTake(f, x)'  BY OnlyFlusher
<1>3. Noted(x)'  BY <1>1, <1>2 DEF Noted, Raising
<1>4. Called(x) => Called(x)'
  <2>1. CASE ff \/ \E t \in Threads : InsAt(t, "setFF")  BY <2>1 DEF Called, InsAt
  <2>2. CASE \E f \in Emts : emt[f].pc \in {"try", "again"}
    <3>1. PICK f \in Emts : emt[f].pc \in {"try", "again"}  BY <2>2
    <3>2. f # e  BY <3>1 DEF Flushing
    <3> QED BY <3>1, <3>2 DEF Called
  <2>3. CASE \E f \in Emts : WillTake(f, x)  BY <1>2, <2>3 DEF Called
  <2>4. CASE flushing.pending  BY <2>4 DEF Called
  <2> QED BY <2>1, <2>2, <2>3, <2>4 DEF Called
<1> QED BY <1>1, <1>3, <1>4

LEMMA OwedNext ==
  ASSUME TypeOK, PlaceOK, FlusherOK, OwedOK, Next
  PROVE  OwedOK'
<1>0. ins \in [Threads -> InsType] /\ emt \in [Emts -> EmtType] /\ OneFlusher
      /\ flushing \in [active : BOOLEAN, pending : BOOLEAN]
      /\ pPending \in [Ctxs -> Seq(Items)]
  BY DEF TypeOK, FlusherOK
<1>1. ASSUME NEW t \in Threads, (\E ctx \in Ctxs : AllocRead(t, ctx)) \/ AllocCas(t) \/ SetPending(t)
      PROVE  OwedOK'
  <2>1. /\ UNCHANGED <<pPending, emt, leftOver, missed, ff>> /\ \A u \in Threads \ {t} : ins'[u] = ins[u]
        /\ flushing.pending => flushing'.pending
    BY <1>0, <1>1 DEF AllocRead, AllocCas, SetPending, InsGoto, flags
  <2>2. ins[t].pc # "setFF" /\ (ins[t].pc = "setPending" => flushing'.pending)
    BY <1>0, <1>1 DEF AllocRead, AllocCas, SetPending, MayInsert, InsAt
  <2> QED BY <2>1, <2>2, OwedInsert
<1>2. ASSUME NEW t \in Threads, Push(t) PROVE OwedOK'
  <2>1. InsAt(t, "setFF")'  BY <1>0, <1>2 DEF Push, InsAt, InsType
  <2>2. \A x \in Items : Noted(x)' /\ Called(x)'  BY <2>1 DEF Noted, Raising, Called, InsAt
  <2> QED BY <2>2 DEF OwedOK
<1>3. ASSUME NEW t \in Threads, SetFF(t) PROVE OwedOK'
  <2>1. ff' /\ ins'[t].pc = "setPending"  BY <1>0, <1>3 DEF SetFF, InsGoto, InsAt, InsType
  <2>2. \A x \in Items : Noted(x)' /\ Called(x)'  BY <2>1 DEF Noted, Raising, Called
  <2> QED BY <2>2 DEF OwedOK
<1>4. ASSUME NEW e \in Emts,
             \/ PDMR3QueueFlushAll(e) \/ Release(e) \/ CheckPending(e) \/ CheckFF(e) \/ Again(e)
             \/ Free(e) \/ Fed(e) \/ Consume(e)
      PROVE  OwedOK'
  <2>1. /\ UNCHANGED <<pPending, ins, leftOver, missed>> /\ flushing'.pending = flushing.pending
        /\ \A f \in Emts \ {e} : emt'[f] = emt[f]
    BY <1>0, <1>4 DEF PDMR3QueueFlushAll, Release, CheckPending, CheckFF, Again, Free, Fed, Consume,
       Goto, flags
  <2>2. CASE Consume(e) \/ Free(e) \/ Fed(e) \/ Release(e)
    <3>1. /\ emt[e].pc \in {"feed", "free", "release"} /\ ff' = ff
          /\ emt'[e].pc \in {"free", "feed", "release", "check"}
      BY <1>0, <2>2 DEF Consume, Free, Fed, Release, At, Goto, EmtType, flags
    <3>2. /\ emt[e].pc \in Flushing /\ StillToTake(emt[e].pc) = {}
          /\ emt'[e].pc \in Flushing \cup {"check"}
      BY <3>1 DEF Flushing, StillToTake
    <3>3. /\ emt'[e].pc # "putBack" /\ emt[e].pc \notin {"clear", "scan", "try", "again"}  BY <3>1
    <3> QED BY <2>1, <3>1, <3>2, <3>3, OwedStill
  <2>3. CASE PDMR3QueueFlushAll(e) \/ Again(e)
    <3>1. emt[e].pc \in {"idle", "again"} /\ emt'[e].pc = "try"
      BY <1>0, <2>3 DEF PDMR3QueueFlushAll, Again, At, Goto, EmtType
    <3>2. emt[e].pc \notin Flushing \cup {"check", "clear", "scan"} /\ StillToTake(emt[e].pc) = {}
      BY <3>1 DEF Flushing, StillToTake
    <3> QED BY <2>1, <3>1, <3>2, OwedStill
  <2>4. CASE CheckPending(e)
    <3>1. /\ emt[e].pc = "check" /\ ff' = ff /\ emt'[e].pc \in {"checkFF", "again"}
          /\ flushing.pending => emt'[e].pc = "again"
      BY <1>0, <2>4 DEF CheckPending, At, Goto, EmtType, flags, NothingPending
    <3>2. StillToTake(emt[e].pc) = {}  BY <3>1 DEF StillToTake
    <3> QED BY <2>1, <3>1, <3>2, OwedStill
  <2>5. CASE CheckFF(e)
    <3>1. /\ emt[e].pc = "checkFF" /\ ff' = ff /\ emt'[e].pc \in {"idle", "again"}
          /\ ff => emt'[e].pc = "again"
      BY <1>0, <2>5 DEF CheckFF, At, Goto, EmtType, flags
    <3>2. emt[e].pc \notin Flushing \cup {"check", "clear", "scan"} /\ StillToTake(emt[e].pc) = {}
      BY <3>1 DEF StillToTake, Flushing
    <3> QED BY <2>1, <3>1, <3>2, OwedStill
  <2> QED BY <1>4, <2>2, <2>3, <2>4, <2>5
<1>5. ASSUME NEW e \in Emts, TestAndSet(e) PROVE OwedOK'
  <2>1. emt[e].pc = "try" /\ UNCHANGED <<pPending, ins, leftOver, ff>>
    BY <1>5 DEF TestAndSet, At
  <2>2. CASE ~ flushing.active
    <3>1. emt'[e].pc = "clear"  BY <1>0, <1>5, <2>2 DEF TestAndSet, ActiveFree, Goto, EmtType
    <3>2. \A x \in Items : Noted(x)' /\ Called(x)'  BY <3>1 DEF Noted, Called, WillTake
    <3> QED BY <3>2 DEF OwedOK
  <2>3. CASE flushing.active
    <3>1. /\ emt' = [emt EXCEPT ![e].pc = "idle"] /\ flushing' = flushing
          /\ missed' = (missed \/ \E t \in Threads : InsAt(t, "setPending"))
      BY <1>5, <2>3 DEF TestAndSet, ActiveFree, Goto
    <3>2. emt'[e].pc = "idle" /\ \A f \in Emts \ {e} : emt'[f] = emt[f]
      BY <1>0, <3>1 DEF EmtType
    <3>3. PICK g \in Emts : emt[g].pc \in Flushing  BY <2>3 DEF FlusherOK
    <3>4. g # e  BY <2>1, <3>3 DEF Flushing
    <3> SUFFICES ASSUME NEW x \in Items, Owed(x)'
                 PROVE  Noted(x)' /\ (missed' \/ Called(x)')
      BY DEF OwedOK
    <3>5. Noted(x)
      <4>1. Owed(x)  BY <2>1, <3>2 DEF Owed, Waiting, At
      <4> QED BY <4>1 DEF OwedOK
    <3>6. ~ WillTake(e, x) /\ \A f \in Emts \ {e} : WillTake(f, x) => WillTake(f, x)'
      BY <2>1, <3>2 DEF WillTake, StillToTake
    <3>7. Noted(x)'  BY <2>1, <3>1, <3>5, <3>6 DEF Noted, Raising
    <3>8. CASE flushing.pending  BY <3>1, <3>2, <3>3, <3>4, <3>7, <3>8 DEF Called
    <3>9. CASE Raising
      <4>1. PICK t \in Threads : ins[t].pc \in {"setFF", "setPending"}  BY <3>9 DEF Raising
      <4>2. CASE ins[t].pc = "setFF"  BY <2>1, <3>7, <4>2 DEF Called, InsAt
      <4>3. CASE ins[t].pc = "setPending"  BY <3>1, <3>7, <4>3 DEF InsAt
      <4> QED BY <4>1, <4>2, <4>3
    <3>10. CASE \E f \in Emts : WillTake(f, x)  BY <3>6, <3>7, <3>10 DEF Called
    <3> QED BY <3>5, <3>8, <3>9, <3>10 DEF Noted
  <2> QED BY <2>2, <2>3
<1>6. ASSUME NEW e \in Emts, ClearPending(e) PROVE OwedOK'
  <2>1. emt'[e].pc = "scan"  BY <1>0, <1>6 DEF ClearPending, Goto, EmtType
  <2>2. \A x \in Items : Noted(x)' /\ Called(x)'  BY <2>1 DEF Noted, Called, WillTake
  <2> QED BY <2>2 DEF OwedOK
<1>7. ASSUME NEW e \in Emts, Scan(e) PROVE OwedOK'
  <2>1. /\ UNCHANGED <<pPending, ins, leftOver, missed, ff, flushing>> /\ emt[e].pc = "scan"
        /\ \A f \in Emts \ {e} : emt'[f] = emt[f]
        /\ emt'[e].pc = IF pPending # NoneTaken THEN "takeR3" ELSE "release"
    BY <1>0, <1>7 DEF Scan, At, Goto, flags, EmtType
  <2>2. emt[e].pc \in Flushing /\ emt'[e].pc \in Flushing  BY <2>1 DEF Flushing
  <2>3. ASSUME NEW x \in Items, Owed(x)' PROVE Owed(x) /\ (WillTake(e, x) => WillTake(e, x)')
    <3>1. \A f \in Emts : ~ At(f, "putBack")'
      <4>1. ~ At(e, "putBack")'  BY <2>1 DEF At
      <4>2. ASSUME NEW f \in Emts \ {e} PROVE ~ At(f, "putBack")'
        BY <2>1, <2>2, OnlyFlusher DEF At
      <4> QED BY <4>1, <4>2
    <3>2. PICK ctx \in Ctxs : x \in ToSet(pPending[ctx])  BY <2>1, <2>3, <3>1 DEF Owed, Waiting
    <3>3. pPending # NoneTaken  BY <3>2, ToSetEmpty DEF NoneTaken
    <3>4. emt'[e].pc = "takeR3" /\ StillToTake(emt'[e].pc) = Ctxs  BY <2>1, <3>3 DEF StillToTake
    <3>5. WillTake(e, x)'  BY <2>1, <3>2, <3>4 DEF WillTake
    <3>6. x \notin leftOver  BY <2>1, <2>3 DEF Owed
    <3> QED BY <3>2, <3>5, <3>6 DEF Owed, Waiting
  <2> QED BY <2>1, <2>2, <2>3, OwedMoves
<1>8. ASSUME NEW e \in Emts, TakeLists(e) PROVE OwedOK'
  <2>1. PICK ctx \in Ctxs, here \in EmtPcs, next \in EmtPcs :
          /\ Take(e, ctx, here, next)
          /\ <<ctx, here, next>> \in {<<"R3", "takeR3", "takeRC">>, <<"RC", "takeRC", "takeR0">>,
                                      <<"R0", "takeR0", "feed">>}
    BY <1>8 DEF TakeLists, Ctxs, EmtPcs, Flushing
  <2>2. /\ emt[e].pc = here /\ UNCHANGED <<ins, leftOver, missed, ff, flushing>>
        /\ emt' = [emt EXCEPT ![e].pc = next, ![e].taken[ctx] = OldestFirst(pPending[ctx])]
        /\ pPending' = [pPending EXCEPT ![ctx] = <<>>]
    BY <2>1 DEF Take, At, flags
  <2>3. /\ emt'[e].pc = next /\ \A f \in Emts \ {e} : emt'[f] = emt[f]
        /\ pPending'[ctx] = <<>> /\ \A c \in Ctxs \ {ctx} : pPending'[c] = pPending[c]
    BY <1>0, <2>2 DEF EmtType
  <2>4. here \in Flushing /\ next \in Flushing /\ next # "putBack" /\ here \notin {"clear", "scan"}
    BY <2>1 DEF Flushing
  <2>5. StillToTake(here) \subseteq StillToTake(next) \cup {ctx} /\ StillToTake(here) \subseteq Ctxs
    BY <2>1 DEF StillToTake, Ctxs
  <2>6. ASSUME NEW x \in Items, Owed(x)' PROVE Owed(x) /\ (WillTake(e, x) => WillTake(e, x)')
    <3>1. \A f \in Emts : ~ At(f, "putBack")'
      <4>1. ~ At(e, "putBack")'  BY <2>3, <2>4 DEF At
      <4>2. ASSUME NEW f \in Emts \ {e} PROVE ~ At(f, "putBack")'
        BY <2>2, <2>3, <2>4, OnlyFlusher DEF At
      <4> QED BY <4>1, <4>2
    <3>2. PICK c \in Ctxs : x \in ToSet(pPending'[c])  BY <2>6, <3>1 DEF Owed, Waiting
    <3>3. c # ctx /\ x \in ToSet(pPending[c])  BY <2>3, <3>2, ToSetEmpty
    <3>4. x \notin leftOver  BY <2>2, <2>6 DEF Owed
    <3>5. Owed(x)  BY <3>3, <3>4 DEF Owed, Waiting
    <3>6. ASSUME WillTake(e, x) PROVE WillTake(e, x)'
      <4>1. PICK d \in StillToTake(here) : x \in ToSet(pPending[d])
        BY <2>2, <2>4, <3>6 DEF WillTake
      <4>2. d = c
        <5>1. <<"list", c>> \in Places(x)  BY <3>3, PlacesAre
        <5>2. d \in Ctxs  BY <2>5
        <5>3. <<"list", c>> = <<"list", d>>  BY <4>1, <5>1, <5>2, Elsewhere
        <5> QED BY <5>3
      <4>3. c \in StillToTake(next)  BY <2>5, <3>3, <4>1, <4>2
      <4> QED BY <2>3, <3>2, <4>3 DEF WillTake
    <3> QED BY <3>5, <3>6
  <2> QED BY <2>2, <2>3, <2>4, <2>6, OwedMoves
<1>9. ASSUME NEW e \in Emts, Refuse(e) PROVE OwedOK'
  <2>1. /\ emt[e].pc = "feed" /\ UNCHANGED <<pPending, ins, missed, ff, flushing>>
        /\ emt'[e].pc = "putBack" /\ \A f \in Emts \ {e} : emt'[f] = emt[f]
        /\ emt'[e].taken["R3"] = InOrder(emt[e].taken)
        /\ leftOver' = leftOver \cup ToSet(InOrder(emt[e].taken))
    BY <1>0, <1>9 DEF Refuse, At, flags, NoneTaken, Ctxs
  <2>2. emt[e].pc \in Flushing /\ emt'[e].pc \in Flushing  BY <2>1 DEF Flushing
  <2>3. ASSUME NEW x \in Items, Owed(x)' PROVE Owed(x) /\ (WillTake(e, x) => WillTake(e, x)')
    <3>1. x \notin leftOver /\ x \notin ToSet(emt'[e].taken["R3"])  BY <2>1, <2>3 DEF Owed
    <3>2. \A f \in Emts \ {e} : ~ At(f, "putBack")'  BY <2>1, <2>2, OnlyFlusher DEF At
    <3>3. Waiting(x)'
      <4>1. CASE Waiting(x)'  BY <4>1
      <4>2. CASE \E f \in Emts : At(f, "putBack")' /\ x \in ToSet(emt'[f].taken["R3"])
        BY <3>1, <3>2, <4>2
      <4> QED BY <2>3, <4>1, <4>2 DEF Owed
    <3>4. Owed(x)  BY <2>1, <3>1, <3>3 DEF Owed, Waiting
    <3>5. ~ WillTake(e, x)  BY <2>1 DEF WillTake, StillToTake
    <3> QED BY <3>4, <3>5
  <2> QED BY <2>1, <2>2, <2>3, OwedMoves
<1>10. ASSUME NEW e \in Emts, PutBack(e) PROVE OwedOK'
  <2>1. /\ emt[e].pc = "putBack" /\ UNCHANGED <<ins, missed, ff, flushing, leftOver>>
        /\ emt[e].taken["R3"] \in Seq(Items) /\ pPending["R3"] \in Seq(Items)
    BY <1>10, EmtTakenIs DEF PutBack, At, flags, Ctxs
  <2>2. /\ emt'[e].pc \in {"release", "putBack"} /\ \A f \in Emts \ {e} : emt'[f] = emt[f]
        /\ \A c \in Ctxs \ {"R3"} : pPending'[c] = pPending[c]
        /\ ToSet(pPending'["R3"]) \subseteq ToSet(emt[e].taken["R3"])
        /\ emt'[e].pc = "putBack" =>
             ToSet(emt'[e].taken["R3"]) \subseteq ToSet(emt[e].taken["R3"]) \cup ToSet(pPending["R3"])
    <3>1. CASE pPending["R3"] = <<>>
      <4>1. /\ pPending' = [pPending EXCEPT !["R3"] = Reverse(emt[e].taken["R3"])]
            /\ emt' = [emt EXCEPT ![e] = [pc |-> "release", taken |-> NoneTaken]]
        BY <1>10, <3>1 DEF PutBack
      <4>2. ToSet(Reverse(emt[e].taken["R3"])) = ToSet(emt[e].taken["R3"])  BY <2>1, ToSetReverse
      <4> QED BY <1>0, <4>1, <4>2 DEF Ctxs
    <3>2. CASE pPending["R3"] # <<>>
      <4>1. PICK seq : /\ seq = AfterOld(emt[e].taken["R3"], pPending["R3"])
                       /\ emt' = [emt EXCEPT ![e].taken["R3"] = seq]
                       /\ pPending' = [pPending EXCEPT !["R3"] = <<>>]
        BY <1>10, <3>2 DEF PutBack
      <4>2. ToSet(seq) = ToSet(emt[e].taken["R3"]) \cup ToSet(pPending["R3"])
        <5>1. Reverse(pPending["R3"]) \in Seq(Items)
              /\ ToSet(Reverse(pPending["R3"])) = ToSet(pPending["R3"])
          BY <2>1, ToSetReverse
        <5> QED BY <2>1, <4>1, <5>1, ToSetConcat DEF AfterOld
      <4>3. emt'[e] = [emt[e] EXCEPT !.taken["R3"] = seq] /\ \A f \in Emts \ {e} : emt'[f] = emt[f]
        BY <1>0, <4>1
      <4>4. emt[e].taken \in [Ctxs -> Seq(Items)] /\ emt[e] \in EmtType  BY <1>0, EmtTakenIs
      <4>5. emt'[e].pc = emt[e].pc /\ emt'[e].taken = [emt[e].taken EXCEPT !["R3"] = seq]
        BY <4>3, <4>4 DEF EmtType
      <4>6. emt'[e].taken["R3"] = seq  BY <4>4, <4>5 DEF Ctxs
      <4>7. pPending'["R3"] = <<>> /\ \A c \in Ctxs \ {"R3"} : pPending'[c] = pPending[c]
        BY <1>0, <4>1 DEF Ctxs
      <4>8. ToSet(pPending'["R3"]) = {}  BY <4>7, ToSetEmpty
      <4>9. emt'[e].pc = "putBack"  BY <2>1, <4>5
      <4> QED BY <4>2, <4>3, <4>6, <4>7, <4>8, <4>9
    <3> QED BY <3>1, <3>2
  <2>3. emt[e].pc \in Flushing /\ emt'[e].pc \in Flushing  BY <2>1, <2>2 DEF Flushing
  <2>4. ASSUME NEW x \in Items, Owed(x)' PROVE Owed(x) /\ (WillTake(e, x) => WillTake(e, x)')
    <3>1. \A f \in Emts \ {e} : ~ At(f, "putBack")'  BY <2>2, <2>3, OnlyFlusher DEF At
    <3>2. x \notin leftOver  BY <2>1, <2>4 DEF Owed
    <3>3. Waiting(x) \/ x \in ToSet(emt[e].taken["R3"])
      <4>1. CASE Waiting(x)'
        <5>1. PICK c \in Ctxs : x \in ToSet(pPending'[c])  BY <4>1 DEF Waiting
        <5>2. CASE c = "R3"  BY <2>2, <5>1, <5>2
        <5>3. CASE c # "R3"  BY <2>2, <5>1, <5>3 DEF Waiting
        <5> QED BY <5>2, <5>3
      <4>2. CASE \E f \in Emts : At(f, "putBack")' /\ x \in ToSet(emt'[f].taken["R3"])
        <5>1. At(e, "putBack")' /\ x \in ToSet(emt'[e].taken["R3"])  BY <3>1, <4>2
        <5>2. x \in ToSet(emt[e].taken["R3"]) \cup ToSet(pPending["R3"])  BY <2>2, <5>1 DEF At
        <5> QED BY <5>2 DEF Waiting, Ctxs
      <4> QED BY <2>4, <4>1, <4>2 DEF Owed
    <3>4. ~ WillTake(e, x)  BY <2>1 DEF WillTake, StillToTake
    <3> QED BY <2>1, <3>2, <3>3, <3>4 DEF Owed, At
  <2> QED BY <2>1, <2>2, <2>3, <2>4, OwedMoves
<1> QED
  BY <1>1, <1>2, <1>3, <1>4, <1>5, <1>6, <1>7, <1>8, <1>9, <1>10, StepCases DEF Flush

-----------------------------------------------------------------------------
(* The theorems. *)

LEMMA IndInit == Init => IInv
<1> SUFFICES ASSUME Init PROVE IInv  OBVIOUS
<1>1. /\ cItems \in Slots /\ 0 \in Slots /\ NoneTaken \in [Ctxs -> Seq(Items)]
      /\ NoneTaken \in [Ctxs -> Seq(Items)]
  BY Sizes, ToSetEmpty DEF Slots, NoneTaken
<1>2. Idle \in EmtType  BY <1>1 DEF Idle, EmtType, EmtPcs
<1>3. TypeOK
  <2>1. aFreeItems \in [Slots -> Items \cup {NoItem}]
    <3>1. \A i \in Slots : i < cItems => i + 1 \in Items  BY Sizes DEF Slots, Items
    <3> QED BY <3>1 DEF Init, Slots
  <2>2. 0 \in 0 .. MaxInserts /\ 0 \in 0 .. MaxRefusals  BY BoundAssumption
  <2>3. ins \in [Threads -> InsType] /\ emt \in [Emts -> EmtType]  BY <1>2, AwayType DEF Init
  <2> QED BY <1>1, <2>1, <2>2, <2>3 DEF Init, TypeOK
<1>4. FreeSlots = 0 .. cItems - 1
  <2>1. 0 <= cItems /\ iFreeTail = 0 /\ iFreeHead = cItems  BY Sizes DEF Init
  <2> QED BY <2>1, Sizes DEF FreeSlots, Slots
<1>5. \A i \in FreeSlots : aFreeItems[i] = i + 1 /\ aFreeItems[i] \in Items
  BY <1>4, Sizes DEF Init, Items
<1>6. /\ \A t \in Threads : ins[t].pc = "away"
      /\ \A e \in Emts : emt[e].pc = "idle" /\ emt[e].taken = NoneTaken
      /\ pPending = NoneTaken /\ flushing.active = FALSE
  BY DEF Init, Away, Idle
<1>7. HandsOK  BY <1>5, <1>6 DEF HandsOK, InsAt, At
<1>8. InOrder(NoneTaken) = <<>> /\ ToSet(<<>>) = {} /\ IsInjective(<<>>)
  BY EmptyConcat, ToSetEmpty DEF InOrder, NoneTaken, Ctxs, IsInjective
<1>9. PlaceOK
  <2>1. ASSUME NEW x \in Items PROVE \E p : Places(x) = {p}
    <3>1. x - 1 \in FreeSlots /\ \A i \in FreeSlots : aFreeItems[i] = x <=> i = x - 1
      BY <1>4, <1>5, Sizes DEF Items
    <3>2. /\ {i \in FreeSlots : aFreeItems[i] = x} = {x - 1}
          /\ {t \in Threads : InsAt(t, "push") /\ ins[t].item = x} = {}
          /\ {c \in Ctxs : x \in ToSet(pPending[c])} = {}
          /\ {e \in Emts : x \in ToSet(InOrder(emt[e].taken))} = {}
          /\ {e \in Emts : At(e, "free") /\ consumed = x} = {}
      BY <1>6, <1>8, <3>1 DEF InsAt, At, NoneTaken
    <3>3. Places(x) = {<<"ring", x - 1>>}  BY <3>2 DEF Places
    <3> QED BY <3>3
  <2> QED BY <1>6, <1>8, <2>1 DEF PlaceOK, NoneTaken
<1>10. FlusherOK
  <2>1. \A e \in Emts : emt[e].pc \notin Flushing /\ NothingOf(emt[e].pc) = {}
    BY <1>6 DEF Flushing, NothingOf
  <2> QED BY <1>6, <2>1 DEF FlusherOK, OneFlusher
<1>11. OwedOK
  <2>1. \A x \in Items : ~ Owed(x)  BY <1>6, <1>8 DEF Owed, Waiting, At, NoneTaken
  <2> QED BY <2>1 DEF OwedOK
<1> QED BY <1>3, <1>7, <1>9, <1>10, <1>11 DEF IInv

LEMMA IndNext == IInv /\ [Next]_vars => IInv'
<1> SUFFICES ASSUME IInv, [Next]_vars PROVE IInv'  OBVIOUS
<1> USE DEF IInv
<1>1. CASE Next
  <2>1. HandsOK /\ PlaceOK  BY <1>1 DEF Next
  <2>2. TypeOK'
    BY <1>1, <2>1, StepCases, TypeInsert, TypeFlush
  <2>3. stale' \/ (HandsOK' /\ PlaceOK')  BY <1>1, <2>1, HandsNext, PlaceNext
  <2> QED BY <1>1, <2>1, <2>2, <2>3, FlusherNext, OwedNext
<1>2. CASE UNCHANGED vars
  <2>1. TypeOK'
    BY <1>2 DEF TypeOK, vars, ring, flags, counts, past
  <2>2. HandsOK => HandsOK'  BY <1>2 DEF HandsOK, FreeSlots, InsAt, At, Fresh, vars, ring, past
  <2>6. stale' = stale  BY <1>2 DEF vars, past
  <2>3. PlaceOK => PlaceOK'
    <3>1. UNCHANGED <<ring, pPending, consumed, ins, emt>>  BY <1>2 DEF vars
    <3> QED BY <3>1, PlacesSame DEF InsAt, At
  <2>4. FlusherOK'  BY <1>2 DEF FlusherOK, OneFlusher, vars, flags
  <2>5. OwedOK'
    BY <1>2 DEF OwedOK, Owed, Waiting, Noted, Called, WillTake, Raising, InsAt, At, vars, flags
  <2> QED BY <2>1, <2>2, <2>3, <2>4, <2>5, <2>6
<1> QED BY <1>1, <1>2

THEOREM Inductive == Spec => []IInv
<1> QED BY IndInit, IndNext, PTL DEF Spec

\* The indices of the ring and all the rest stay in their types.
THEOREM TypeCorrect == Spec => []TypeOK
<1>1. IInv => TypeOK  BY DEF IInv
<1> QED BY <1>1, Inductive, PTL

\* However many EMTs see the force flag, one flushes at a time and the others
\* hold no items.
THEOREM OneFlushes == Spec => []OneFlusher
<1>1. IInv => OneFlusher  BY DEF IInv, FlusherOK
<1> QED BY <1>1, Inductive, PTL

\* No item is lost and none is in two places: the ring, a thread that fills it,
\* the pending lists, the list of the flusher and the hands of the consumer
\* share the items out between them, unless a thread slept in PDMQueueAlloc while
\* the ring went round and then got an item that was not there any more.
THEOREM ItemsConserved == Spec => []KeptUnlessStale
<1>1. IInv => KeptUnlessStale
  <2> SUFFICES ASSUME IInv, ~ stale PROVE InOnePlace  BY DEF KeptUnlessStale
  <2>1. ASSUME NEW x \in Items PROVE Cardinality(Places(x)) = 1
    <3>1. PICK p : Places(x) = {p}  BY DEF IInv, PlaceOK
    <3> QED BY <3>1, FS_Singleton
  <2> QED BY <2>1 DEF IInv, PlaceOK, InOnePlace
<1> QED BY <1>1, Inductive, PTL

\* When everybody has gone away, an item is left on a list only by a consumer
\* that said "enough!", with the force flag up, or after an EMT had lowered the
\* flag and left the work to another before the pending bit was raised.
THEOREM InsertsAreCaught == Spec => []CaughtUnlessMissed
<1>1. IInv => CaughtUnlessMissed
  <2> SUFFICES ASSUME IInv, ~ missed, Quiet, ~ ff, NEW x \in Items, Waiting(x)
               PROVE  x \in leftOver
    BY DEF CaughtUnlessMissed, InsertsCaught
  <2>1. ~ Called(x)
    <3>1. \A e \in Emts : emt[e].pc = "idle"  BY DEF Quiet, At
    <3>2. \A e \in Emts : ~ WillTake(e, x)  BY <3>1 DEF WillTake, StillToTake
    <3> QED BY <3>1, <3>2 DEF Called, Quiet, InsAt, Flushing
  <2> QED BY <2>1 DEF IInv, OwedOK, Owed
<1> QED BY <1>1, Inductive, PTL

-----------------------------------------------------------------------------
(* The queue implements its promise. *)

LEMMA ReverseCons ==
  ASSUME NEW s \in Seq(Items), NEW x \in Items
  PROVE  Reverse(<<x>> \o s) = Append(Reverse(s), x)
<1> DEFINE n == Len(s)
           t == <<x>> \o s
<1>1. /\ n \in Nat /\ <<x>> \in Seq(Items) /\ Len(<<x>>) = 1 /\ t \in Seq(Items) /\ Len(t) = n + 1
      /\ t[1] = x /\ \A i \in 1 .. n : t[i + 1] = s[i]
  BY LenProperties
<1>2. Reverse(t) = [i \in 1 .. n + 1 |-> t[((n + 1) - i) + 1]]  BY <1>1 DEF Reverse
<1>3. Reverse(s) = [i \in 1 .. n |-> s[(n - i) + 1]] /\ Reverse(s) \in Seq(Items)
  BY ToSetReverse DEF Reverse
<1>4. Len(Reverse(s)) = n  BY <1>1, <1>3, LenProperties
<1>5. /\ Append(Reverse(s), x) \in Seq(Items) /\ Len(Append(Reverse(s), x)) = n + 1
      /\ Append(Reverse(s), x)[n + 1] = x
      /\ \A i \in 1 .. n : Append(Reverse(s), x)[i] = Reverse(s)[i]
  BY <1>3, <1>4, AppendProperties
<1>6. \A i \in 1 .. n : (n - i) + 1 \in 1 .. n /\ ((n + 1) - i) + 1 = ((n - i) + 1) + 1
  BY <1>1
<1>7. \A i \in 1 .. n : t[((n + 1) - i) + 1] = s[(n - i) + 1]  BY <1>1, <1>6
<1>8. ((n + 1) - (n + 1)) + 1 = 1 /\ \A i \in 1 .. n + 1 : i \in 1 .. n \/ i = n + 1  BY <1>1
<1>9. \A i \in 1 .. n + 1 : t[((n + 1) - i) + 1] = Append(Reverse(s), x)[i]
  BY <1>1, <1>3, <1>5, <1>7, <1>8
<1>10. Append(Reverse(s), x) = [i \in 1 .. n + 1 |-> Append(Reverse(s), x)[i]]
  BY <1>1, <1>5, LenProperties
<1> QED BY <1>2, <1>9, <1>10

LEMMA AppendConcat ==
  ASSUME NEW s \in Seq(Items), NEW t \in Seq(Items), NEW x \in Items
  PROVE  s \o Append(t, x) = Append(s \o t, x)
<1>1. \A u \in Seq(Items) : Append(u, x) = u \o <<x>>  BY AppendIsConcat
<1>2. <<x>> \in Seq(Items) /\ s \o t \in Seq(Items)  BY ToSetConcat, ToSetOne
<1> QED BY <1>1, <1>2, ConcatAssociative

LEMMA FrontAndRest ==
  ASSUME NEW s \in Seq(Items), NEW t \in Seq(Items)
  PROVE  /\ Len(s) \in 0 .. Len(s \o t)
         /\ SubSeq(s \o t, 1, Len(s)) = s
         /\ SubSeq(s \o t, Len(s) + 1, Len(s \o t)) = t
<1> DEFINE m == Len(s)
           n == Len(t)
           q == s \o t
<1>1. /\ m \in Nat /\ n \in Nat /\ q \in Seq(Items) /\ Len(q) = m + n
      /\ s \in [1 .. m -> Items] /\ t \in [1 .. n -> Items]
      /\ \A i \in 1 .. m + n : q[i] = IF i <= m THEN s[i] ELSE t[i - m]
  BY LenProperties, ConcatProperties
<1>2. SubSeq(q, 1, m) = s
  <2>1. SubSeq(q, 1, m) = [i \in 1 .. m |-> q[i]]  BY <1>1
  <2>2. \A i \in 1 .. m : i \in 1 .. m + n /\ i <= m  BY <1>1
  <2> QED BY <1>1, <2>1, <2>2
<1>3. SubSeq(q, m + 1, m + n) = t
  <2>1. SubSeq(q, m + 1, m + n) = [i \in 1 .. n |-> q[m + i]]
    BY <1>1
  <2>2. \A i \in 1 .. n : m + i \in 1 .. m + n /\ ~ (m + i <= m) /\ (m + i) - m = i  BY <1>1
  <2>3. \A i \in 1 .. n : q[m + i] = t[i]  BY <1>1, <2>2
  <2> QED BY <1>1, <2>1, <2>3
<1> QED BY <1>1, <1>2, <1>3

LEMMA ReverseEmpty == Reverse(<<>>) = <<>>
BY DEF Reverse

\* Who holds the items that were taken.
Held(em, ctx) ==
  IF \E e \in Emts : em[e].taken # NoneTaken
  THEN em[CHOOSE e \in Emts : em[e].taken # NoneTaken].taken[ctx] ELSE <<>>

LEMMA HeldBy ==
  ASSUME NEW em, NEW ctx \in Ctxs, NEW e \in Emts, \A f \in Emts \ {e} : em[f].taken = NoneTaken
  PROVE  Held(em, ctx) = em[e].taken[ctx]
<1>1. CASE em[e].taken = NoneTaken
  <2>1. ~ \E f \in Emts : em[f].taken # NoneTaken  BY <1>1
  <2> QED BY <1>1, <2>1 DEF Held, NoneTaken
<1>2. CASE em[e].taken # NoneTaken
  <2> DEFINE c == CHOOSE f \in Emts : em[f].taken # NoneTaken
  <2>1. c \in Emts /\ em[c].taken # NoneTaken  BY <1>2
  <2>2. c = e  BY <2>1
  <2> HIDE DEF c
  <2>3. Held(em, ctx) = em[c].taken[ctx]  BY <1>2 DEF Held, c
  <2> QED BY <2>2, <2>3
<1> QED BY <1>1, <1>2

LEMMA HeldByNobody ==
  ASSUME NEW em, NEW ctx \in Ctxs, \A f \in Emts : em[f].taken = NoneTaken
  PROVE  Held(em, ctx) = <<>>
BY DEF Held

\* The lines of the promise.
Line(em, list) == [ctx \in Ctxs |-> Held(em, ctx) \o Reverse(list[ctx])]

LEMMA LineIs == Line(emt, pPending) = [ctx \in Ctxs |-> Taken(ctx) \o Reverse(pPending[ctx])]
BY DEF Line, Taken, Held

LEMMA LineIsNext == Line(emt', pPending') = [ctx \in Ctxs |-> Taken(ctx)' \o Reverse(pPending'[ctx])]
BY DEF Line, Taken, Held

\* The items that an EMT other than e holds, and thus the lines.
LEMMA LinesOf ==
  ASSUME TypeOK, FlusherOK, NEW e \in Emts, emt[e].pc \in Flushing,
         \A f \in Emts \ {e} : emt'[f] = emt[f]
  PROVE  /\ Line(emt, pPending) = [ctx \in Ctxs |-> emt[e].taken[ctx] \o Reverse(pPending[ctx])]
         /\ Line(emt', pPending') = [ctx \in Ctxs |-> emt'[e].taken[ctx] \o Reverse(pPending'[ctx])]
<1>1. \A f \in Emts \ {e} : emt[f].taken = NoneTaken  BY OnlyFlusher DEF FlusherOK, OneFlusher
<1>2. \A ctx \in Ctxs : Held(emt, ctx) = emt[e].taken[ctx]  BY <1>1, HeldBy
<1>3. \A f \in Emts \ {e} : emt'[f].taken = NoneTaken  BY <1>1
<1>4. \A ctx \in Ctxs : Held(emt', ctx) = emt'[e].taken[ctx]  BY <1>3, HeldBy
<1> QED BY <1>2, <1>4 DEF Line

\* A step that leaves alone what is taken and what is pending.
LEMMA LinesSame ==
  ASSUME FlusherOK, pPending' = pPending, \A f \in Emts : emt'[f].taken = emt[f].taken
  PROVE  Line(emt', pPending') = Line(emt, pPending)
<1>1. \A ctx \in Ctxs : Held(emt', ctx) = Held(emt, ctx)
  <2> TAKE ctx \in Ctxs
  <2>1. CASE \E e \in Emts : emt[e].pc \in Flushing
    <3>1. PICK e \in Emts : emt[e].pc \in Flushing  BY <2>1
    <3>2. \A f \in Emts \ {e} : emt[f].taken = NoneTaken
      BY <3>1, OnlyFlusher DEF FlusherOK, OneFlusher
    <3>3. Held(emt, ctx) = emt[e].taken[ctx]  BY <3>2, HeldBy
    <3>4. \A f \in Emts \ {e} : emt'[f].taken = NoneTaken  BY <3>2
    <3>5. Held(emt', ctx) = emt'[e].taken[ctx]  BY <3>4, HeldBy
    <3> QED BY <3>3, <3>5
  <2>2. CASE \A e \in Emts : emt[e].pc \notin Flushing
    <3>1. \A f \in Emts : emt[f].taken = NoneTaken  BY <2>2 DEF FlusherOK, OneFlusher
    <3>2. Held(emt, ctx) = <<>>  BY <3>1, HeldByNobody
    <3>3. \A f \in Emts : emt'[f].taken = NoneTaken  BY <3>1
    <3>4. Held(emt', ctx) = <<>>  BY <3>3, HeldByNobody
    <3> QED BY <3>2, <3>4
  <2> QED BY <2>1, <2>2
<1> QED BY <1>1 DEF Line

\* What a step does to the lines.
Insertion(line, next, x) ==
  \E ctx \in Ctxs : /\ \A c \in Ctxs : \A i \in DOMAIN line[c] : line[c][i] # x
                    /\ next = [line EXCEPT ![ctx] = Append(@, x)]

Consumption(line, next, x) ==
  \E ctx \in Ctxs : /\ line[ctx] # <<>> /\ x = Head(line[ctx])
                    /\ next = [line EXCEPT ![ctx] = Tail(@)]

Refusal(line, next) ==
  \E k0 \in 0 .. Len(line["R0"]), kc \in 0 .. Len(line["RC"]) :
    next = [line EXCEPT
      !["R0"] = SubSeq(@, k0 + 1, Len(@)),
      !["RC"] = SubSeq(@, kc + 1, Len(@)),
      !["R3"] = SubSeq(line["R0"], 1, k0) \o SubSeq(line["RC"], 1, kc) \o @]

LEMMA LineType ==
  ASSUME TypeOK, FlusherOK
  PROVE  /\ \A ctx \in Ctxs : Held(emt, ctx) \in Seq(Items) /\ Reverse(pPending[ctx]) \in Seq(Items)
         /\ Line(emt, pPending) \in [Ctxs -> Seq(Items)]
         /\ \A ctx \in Ctxs : ToSet(Line(emt, pPending)[ctx]) = ToSet(Held(emt, ctx)) \cup ToSet(pPending[ctx])
<1>1. ASSUME NEW ctx \in Ctxs
      PROVE  /\ Held(emt, ctx) \in Seq(Items) /\ Reverse(pPending[ctx]) \in Seq(Items)
             /\ ToSet(Reverse(pPending[ctx])) = ToSet(pPending[ctx])
  <2>1. Held(emt, ctx) \in Seq(Items)
    <3>1. CASE \E e \in Emts : emt[e].taken # NoneTaken
      <4>1. PICK e \in Emts : emt[e].taken # NoneTaken  BY <3>1
      <4>2. emt[e].pc \in Flushing  BY <4>1 DEF FlusherOK, OneFlusher
      <4>3. \A f \in Emts \ {e} : emt[f].taken = NoneTaken
        BY <4>2, OnlyFlusher DEF FlusherOK, OneFlusher
      <4>4. Held(emt, ctx) = emt[e].taken[ctx]  BY <4>3, HeldBy
      <4> QED BY <4>4, EmtTakenIs
    <3>2. CASE ~ \E e \in Emts : emt[e].taken # NoneTaken
      BY <3>2, HeldByNobody, ToSetEmpty
    <3> QED BY <3>1, <3>2
  <2>2. pPending[ctx] \in Seq(Items)  BY DEF TypeOK
  <2> QED BY <2>1, <2>2, ToSetReverse
<1>2. ASSUME NEW ctx \in Ctxs
      PROVE  /\ Line(emt, pPending)[ctx] \in Seq(Items)
             /\ ToSet(Line(emt, pPending)[ctx]) = ToSet(Held(emt, ctx)) \cup ToSet(pPending[ctx])
  <2>1. Line(emt, pPending)[ctx] = Held(emt, ctx) \o Reverse(pPending[ctx])  BY DEF Line
  <2> QED BY <1>1, <2>1, ToSetConcat
<1>3. Line(emt, pPending) = [ctx \in Ctxs |-> Line(emt, pPending)[ctx]]  BY DEF Line
<1> QED BY <1>1, <1>2, <1>3

LEMMA PushInserts ==
  ASSUME TypeOK, HandsOK, PlaceOK, FlusherOK, NEW t \in Threads, Push(t)
  PROVE  consumed' = consumed /\ \E x \in Items : Insertion(Line(emt, pPending), Line(emt', pPending'), x)
<1> DEFINE x == ins[t].item
           c0 == ins[t].ctx
           line == Line(emt, pPending)
<1>1. /\ emt' = emt /\ consumed' = consumed /\ InsAt(t, "push")
      /\ pPending' = [pPending EXCEPT ![c0] = <<x>> \o pPending[c0]]
      /\ pPending \in [Ctxs -> Seq(Items)]
  BY DEF Push, TypeOK
<1>2. x \in Items /\ c0 \in Ctxs  BY <1>1 DEF HandsOK, TypeOK, InsType
<1>3. <<"thread", t>> \in Places(x)  BY <1>1, PlacesAre
<1>4. ASSUME NEW c \in Ctxs PROVE x \notin ToSet(line[c])
  <2>1. x \notin ToSet(pPending[c])  BY <1>2, <1>3, Elsewhere
  <2>2. x \notin ToSet(Held(emt, c))
    <3>1. CASE \E e \in Emts : emt[e].taken # NoneTaken
      <4>1. PICK e \in Emts : emt[e].taken # NoneTaken  BY <3>1
      <4>2. emt[e].pc \in Flushing  BY <4>1 DEF FlusherOK, OneFlusher
      <4>3. \A f \in Emts \ {e} : emt[f].taken = NoneTaken
        BY <4>2, OnlyFlusher DEF FlusherOK, OneFlusher
      <4>4. Held(emt, c) = emt[e].taken[c]  BY <4>3, HeldBy
      <4>5. ToSet(InOrder(emt[e].taken)) = UNION {ToSet(emt[e].taken[d]) : d \in Ctxs}
        <5>1. emt[e].taken \in [Ctxs -> Seq(Items)]  BY EmtTakenIs
        <5> QED BY <5>1, InOrderSet
      <4>6. x \notin ToSet(InOrder(emt[e].taken))  BY <1>2, <1>3, Elsewhere
      <4> QED BY <4>4, <4>5, <4>6
    <3>2. CASE ~ \E e \in Emts : emt[e].taken # NoneTaken
      BY <3>2, HeldByNobody, ToSetEmpty
    <3> QED BY <3>1, <3>2
  <2> QED BY <2>1, <2>2, LineType
<1>5. Line(emt', pPending')[c0] = Append(line[c0], x)
  <2>1. Reverse(<<x>> \o pPending[c0]) = Append(Reverse(pPending[c0]), x)  BY <1>1, <1>2, ReverseCons
  <2>2. Held(emt, c0) \o Append(Reverse(pPending[c0]), x) = Append(Held(emt, c0) \o Reverse(pPending[c0]), x)
    BY <1>2, LineType, AppendConcat
  <2>3. pPending'[c0] = <<x>> \o pPending[c0]  BY <1>1, <1>2
  <2> QED BY <1>1, <1>2, <2>1, <2>2, <2>3 DEF Line
<1>6. \A c \in Ctxs \ {c0} : Line(emt', pPending')[c] = line[c]
  BY <1>1 DEF Line
<1>7. line \in [Ctxs -> Seq(Items)] /\ DOMAIN Line(emt', pPending') = Ctxs
      /\ Line(emt', pPending') = [c \in Ctxs |-> Line(emt', pPending')[c]]
  BY LineType DEF Line
<1>8. Line(emt', pPending') = [line EXCEPT ![c0] = Append(@, x)]  BY <1>2, <1>5, <1>6, <1>7
<1>9. \A c \in Ctxs : \A i \in DOMAIN line[c] : line[c][i] # x  BY <1>4 DEF ToSet
<1> HIDE DEF line, x, c0
<1>10. Insertion(line, Line(emt', pPending'), x)  BY <1>2, <1>8, <1>9 DEF Insertion
<1> QED BY <1>1, <1>2, <1>10 DEF line

LEMMA ConcatOnce ==
  ASSUME NEW s \in Seq(Items), NEW t \in Seq(Items), NEW u \in Seq(Items)
  PROVE  s \o (t \o u) = (s \o t) \o u
BY ConcatAssociative

LEMMA InOrderThen ==
  ASSUME NEW taken \in [Ctxs -> Seq(Items)], NEW r \in Seq(Items)
  PROVE  InOrder(taken) \o r = (taken["R0"] \o taken["RC"]) \o (taken["R3"] \o r)
<1>1. PICK a \in Seq(Items), b \in Seq(Items), c \in Seq(Items) :
        taken["R0"] = a /\ taken["RC"] = b /\ taken["R3"] = c
  BY DEF Ctxs
<1>2. a \o (b \o c) = (a \o b) \o c  BY ConcatOnce
<1>3. PICK d \in Seq(Items) : d = a \o b  BY ToSetConcat
<1>4. d \o (c \o r) = (d \o c) \o r  BY ConcatOnce
<1> QED BY <1>1, <1>2, <1>3, <1>4 DEF InOrder

LEMMA ConsumeConsumes ==
  ASSUME TypeOK, FlusherOK, NEW e \in Emts, Consume(e)
  PROVE  Consumption(Line(emt, pPending), Line(emt', pPending'), consumed')
<1> DEFINE taken == emt[e].taken
           c0 == First(emt[e].taken)
           line == Line(emt, pPending)
           next == Line(emt', pPending')
<1>1. /\ emt[e].pc = "feed" /\ taken # NoneTaken /\ consumed' = Head(InOrder(taken))
      /\ emt' = [emt EXCEPT ![e].pc = "free", ![e].taken[c0] = Tail(@)]
      /\ pPending' = pPending /\ emt \in [Emts -> EmtType] /\ taken \in [Ctxs -> Seq(Items)]
      /\ pPending \in [Ctxs -> Seq(Items)]
  BY EmtTakenIs DEF Consume, At, TypeOK
<1>2. c0 \in Ctxs /\ taken[c0] # <<>> /\ consumed' = Head(taken[c0])  BY <1>1, InOrderFirst
<1>3. emt'[e].taken = [taken EXCEPT ![c0] = Tail(taken[c0])] /\ \A f \in Emts \ {e} : emt'[f] = emt[f]
  BY <1>1 DEF EmtType
<1>4. emt[e].pc \in Flushing  BY <1>1 DEF Flushing
<1>5. /\ line = [ctx \in Ctxs |-> taken[ctx] \o Reverse(pPending[ctx])]
      /\ next = [ctx \in Ctxs |-> emt'[e].taken[ctx] \o Reverse(pPending'[ctx])]
  BY <1>3, <1>4, LinesOf
<1>6. \A ctx \in Ctxs : Reverse(pPending[ctx]) \in Seq(Items)  BY <1>1, ToSetReverse
<1>7. /\ line[c0] # <<>> /\ Head(line[c0]) = consumed'
      /\ Tail(line[c0]) = Tail(taken[c0]) \o Reverse(pPending[c0])
  <2>1. PICK a \in Seq(Items), r \in Seq(Items) :
          a = taken[c0] /\ r = Reverse(pPending[c0]) /\ a # <<>>
    BY <1>1, <1>2, <1>6
  <2>2. a \o r # <<>> /\ Head(a \o r) = Head(a) /\ Tail(a \o r) = Tail(a) \o r
    BY <2>1, TailConcat
  <2>3. line[c0] = a \o r  BY <1>2, <1>5, <2>1
  <2> QED BY <1>2, <2>1, <2>2, <2>3
<1>8. next = [line EXCEPT ![c0] = Tail(@)]
  <2>0. pPending' = pPending /\ emt'[e].taken[c0] = Tail(taken[c0])
        /\ \A c \in Ctxs \ {c0} : emt'[e].taken[c] = taken[c]
    BY <1>1, <1>2, <1>3
  <2>1. next[c0] = Tail(line[c0])
    <3>1. next[c0] = emt'[e].taken[c0] \o Reverse(pPending'[c0])  BY <1>2, <1>5
    <3> QED BY <1>7, <2>0, <3>1
  <2>2. \A c \in Ctxs \ {c0} : next[c] = line[c]
    <3> TAKE c \in Ctxs \ {c0}
    <3>1. next[c] = emt'[e].taken[c] \o Reverse(pPending'[c])
          /\ line[c] = taken[c] \o Reverse(pPending[c])  BY <1>5
    <3> QED BY <2>0, <3>1
  <2>3. next = [ctx \in Ctxs |-> next[ctx]] /\ DOMAIN line = Ctxs
        /\ line = [ctx \in Ctxs |-> line[ctx]]  BY <1>5
  <2> HIDE DEF next, line, c0
  <2> QED BY <1>2, <2>1, <2>2, <2>3
<1> HIDE DEF next, line, c0
<1>9. Consumption(line, next, consumed')  BY <1>2, <1>7, <1>8 DEF Consumption
<1> QED BY <1>9 DEF next, line

LEMMA RefuseRefuses ==
  ASSUME TypeOK, FlusherOK, NEW e \in Emts, Refuse(e)
  PROVE  Refusal(Line(emt, pPending), Line(emt', pPending'))
<1> DEFINE taken == emt[e].taken
           line == Line(emt, pPending)
           next == Line(emt', pPending')
<1>1. /\ emt[e].pc = "feed" /\ pPending' = pPending /\ pPending \in [Ctxs -> Seq(Items)]
      /\ emt' = [emt EXCEPT ![e] = [pc |-> "putBack", taken |-> [NoneTaken EXCEPT !["R3"] = InOrder(taken)]]]
      /\ taken \in [Ctxs -> Seq(Items)] /\ emt \in [Emts -> EmtType]
  BY EmtTakenIs DEF Refuse, At, TypeOK
<1>2. /\ emt'[e].taken["R0"] = <<>> /\ emt'[e].taken["RC"] = <<>> /\ emt'[e].taken["R3"] = InOrder(taken)
      /\ \A f \in Emts \ {e} : emt'[f] = emt[f]
  BY <1>1 DEF NoneTaken, Ctxs
<1>3. emt[e].pc \in Flushing  BY <1>1 DEF Flushing
<1>4. /\ line = [ctx \in Ctxs |-> taken[ctx] \o Reverse(pPending[ctx])]
      /\ next = [ctx \in Ctxs |-> emt'[e].taken[ctx] \o Reverse(pPending'[ctx])]
  BY <1>2, <1>3, LinesOf
<1>5. PICK a \in Seq(Items), b \in Seq(Items), c \in Seq(Items),
           ra \in Seq(Items), rb \in Seq(Items), rc \in Seq(Items) :
        /\ taken["R0"] = a /\ taken["RC"] = b /\ taken["R3"] = c
        /\ Reverse(pPending["R0"]) = ra /\ Reverse(pPending["RC"]) = rb /\ Reverse(pPending["R3"]) = rc
  <2>1. \A ctx \in Ctxs : Reverse(pPending[ctx]) \in Seq(Items)  BY <1>1, ToSetReverse
  <2> QED BY <1>1, <2>1 DEF Ctxs
<1>6. line["R0"] = a \o ra /\ line["RC"] = b \o rb /\ line["R3"] = c \o rc
  BY <1>4, <1>5 DEF Ctxs
<1>7. next["R0"] = <<>> \o ra /\ next["RC"] = <<>> \o rb /\ next["R3"] = (a \o (b \o c)) \o rc
  <2>1. InOrder(taken) = a \o (b \o c)  BY <1>5 DEF InOrder
  <2>2. emt'[e].taken["R3"] = a \o (b \o c)  BY <1>2, <2>1
  <2>3. \A ctx \in Ctxs : next[ctx] = emt'[e].taken[ctx] \o Reverse(pPending'[ctx])  BY <1>4
  <2>4. /\ next["R0"] = emt'[e].taken["R0"] \o Reverse(pPending["R0"])
        /\ next["RC"] = emt'[e].taken["RC"] \o Reverse(pPending["RC"])
        /\ next["R3"] = emt'[e].taken["R3"] \o Reverse(pPending["R3"])
    BY <1>1, <2>3 DEF Ctxs
  <2> HIDE DEF next
  <2>5. next["R3"] = (a \o (b \o c)) \o rc  BY <1>5, <2>2, <2>4
  <2>6. next["R0"] = <<>> \o ra /\ next["RC"] = <<>> \o rb  BY <1>2, <1>5, <2>4
  <2> QED BY <2>5, <2>6
<1>8. next["R0"] = ra /\ next["RC"] = rb /\ next["R3"] = (a \o b) \o (c \o rc)
  <2>1. InOrder(taken) \o rc = (a \o b) \o (c \o rc)  BY <1>1, <1>5, InOrderThen
  <2>2. InOrder(taken) = a \o (b \o c)  BY <1>5 DEF InOrder
  <2> QED BY <1>7, <2>1, <2>2, EmptyConcat
<1>9. /\ Len(a) \in 0 .. Len(a \o ra) /\ SubSeq(a \o ra, 1, Len(a)) = a
      /\ SubSeq(a \o ra, Len(a) + 1, Len(a \o ra)) = ra
      /\ Len(b) \in 0 .. Len(b \o rb) /\ SubSeq(b \o rb, 1, Len(b)) = b
      /\ SubSeq(b \o rb, Len(b) + 1, Len(b \o rb)) = rb
  BY FrontAndRest
<1>10. next = [ctx \in Ctxs |-> next[ctx]] /\ line = [ctx \in Ctxs |-> line[ctx]]  BY <1>4
<1> HIDE DEF next, line
<1>11. next = [line EXCEPT
                 !["R0"] = SubSeq(@, Len(a) + 1, Len(@)),
                 !["RC"] = SubSeq(@, Len(b) + 1, Len(@)),
                 !["R3"] = SubSeq(line["R0"], 1, Len(a)) \o SubSeq(line["RC"], 1, Len(b)) \o @]
  <2> DEFINE nx == [line EXCEPT !["R0"] = ra, !["RC"] = rb, !["R3"] = (a \o b) \o (c \o rc)]
  <2>1. next = nx
    <3>1. nx = [ctx \in Ctxs |-> nx[ctx]]  BY <1>10
    <3>2. \A ctx \in Ctxs : nx[ctx] = next[ctx]  BY <1>8, <1>10 DEF Ctxs
    <3> HIDE DEF nx
    <3> QED BY <1>10, <3>1, <3>2
  <2>2. /\ SubSeq(line["R0"], Len(a) + 1, Len(line["R0"])) = ra
        /\ SubSeq(line["RC"], Len(b) + 1, Len(line["RC"])) = rb
        /\ SubSeq(line["R0"], 1, Len(a)) \o SubSeq(line["RC"], 1, Len(b)) \o line["R3"] = (a \o b) \o (c \o rc)
    BY <1>6, <1>9
  <2> QED BY <1>10, <2>1, <2>2 DEF Ctxs
<1>12. Refusal(line, next)
  <2>1. Len(a) \in 0 .. Len(line["R0"]) /\ Len(b) \in 0 .. Len(line["RC"])  BY <1>6, <1>9
  <2> QED BY <1>11, <2>1 DEF Refusal
<1> QED BY <1>12 DEF next, line

LEMMA PutBackKeeps ==
  ASSUME TypeOK, FlusherOK, NEW e \in Emts, PutBack(e)
  PROVE  Line(emt', pPending') = Line(emt, pPending)
<1> DEFINE taken == emt[e].taken
           line == Line(emt, pPending)
           next == Line(emt', pPending')
<1>1. /\ emt[e].pc = "putBack" /\ pPending \in [Ctxs -> Seq(Items)] /\ emt \in [Emts -> EmtType]
      /\ taken["RC"] = <<>> /\ taken["R0"] = <<>> /\ taken \in [Ctxs -> Seq(Items)]
  BY EmtTakenIs DEF PutBack, At, TypeOK, FlusherOK, NothingOf
<1>2. PICK left \in Seq(Items), new \in Seq(Items) : left = taken["R3"] /\ new = pPending["R3"]
  BY <1>1 DEF Ctxs
<1>3. Reverse(left) \in Seq(Items) /\ Reverse(new) \in Seq(Items) /\ Reverse(Reverse(left)) = left
  BY ToSetReverse, ReverseTwice
<1>4. /\ \A f \in Emts \ {e} : emt'[f] = emt[f]
      /\ emt'[e].taken["RC"] = <<>> /\ emt'[e].taken["R0"] = <<>>
      /\ pPending'["RC"] = pPending["RC"] /\ pPending'["R0"] = pPending["R0"]
      /\ emt'[e].taken["R3"] \o Reverse(pPending'["R3"]) = left \o Reverse(new)
  <2>1. CASE new = <<>>
    <3>1. /\ pPending' = [pPending EXCEPT !["R3"] = Reverse(left)]
          /\ emt' = [emt EXCEPT ![e] = [pc |-> "release", taken |-> NoneTaken]]
      BY <1>2, <2>1 DEF PutBack
    <3>2. /\ \A f \in Emts \ {e} : emt'[f] = emt[f]
          /\ emt'[e].taken["RC"] = <<>> /\ emt'[e].taken["R0"] = <<>> /\ emt'[e].taken["R3"] = <<>>
          /\ pPending'["RC"] = pPending["RC"] /\ pPending'["R0"] = pPending["R0"]
          /\ pPending'["R3"] = Reverse(left)
      BY <1>1, <3>1 DEF NoneTaken, Ctxs
    <3>3. <<>> \o Reverse(Reverse(left)) = left /\ left \o Reverse(<<>>) = left
      BY <1>3, EmptyConcat, ReverseEmpty
    <3> QED BY <2>1, <3>2, <3>3
  <2>2. CASE new # <<>>
    <3>1. PICK both \in Seq(Items) : both = left \o Reverse(new)  BY <1>3, ToSetConcat
    <3>2. /\ emt' = [emt EXCEPT ![e].taken["R3"] = both]
          /\ pPending' = [pPending EXCEPT !["R3"] = <<>>]
      BY <1>2, <2>2, <3>1 DEF PutBack, AfterOld
    <3>3. /\ \A f \in Emts \ {e} : emt'[f] = emt[f]
          /\ emt'[e] = [emt[e] EXCEPT !.taken["R3"] = both]
      BY <1>1, <3>2
    <3>4. emt'[e].taken = [taken EXCEPT !["R3"] = both]  BY <1>1, <3>3 DEF EmtType
    <3>5. /\ emt'[e].taken["RC"] = <<>> /\ emt'[e].taken["R0"] = <<>> /\ emt'[e].taken["R3"] = both
          /\ pPending'["RC"] = pPending["RC"] /\ pPending'["R0"] = pPending["R0"]
          /\ pPending'["R3"] = <<>>
      BY <1>1, <3>2, <3>4 DEF Ctxs
    <3>6. both \o Reverse(<<>>) = both  BY <3>1, EmptyConcat, ReverseEmpty
    <3> QED BY <3>1, <3>3, <3>5, <3>6
  <2> QED BY <2>1, <2>2
<1>5. emt[e].pc \in Flushing  BY <1>1 DEF Flushing
<1>6. /\ line = [ctx \in Ctxs |-> taken[ctx] \o Reverse(pPending[ctx])]
      /\ next = [ctx \in Ctxs |-> emt'[e].taken[ctx] \o Reverse(pPending'[ctx])]
  BY <1>4, <1>5, LinesOf
<1>7. ASSUME NEW ctx \in Ctxs
      PROVE  taken[ctx] \o Reverse(pPending[ctx]) = emt'[e].taken[ctx] \o Reverse(pPending'[ctx])
  BY <1>1, <1>2, <1>4 DEF Ctxs
<1> QED BY <1>6, <1>7

LEMMA TakeKeeps ==
  ASSUME TypeOK, FlusherOK, NEW e \in Emts, TakeLists(e)
  PROVE  Line(emt', pPending') = Line(emt, pPending)
<1>1. emt \in [Emts -> EmtType] /\ pPending \in [Ctxs -> Seq(Items)]
      /\ emt[e].taken \in [Ctxs -> Seq(Items)]
  BY EmtTakenIs DEF TypeOK
<1>2. PICK ctx \in Ctxs, here \in EmtPcs, next \in EmtPcs :
        /\ Take(e, ctx, here, next)
        /\ <<ctx, here, next>> \in {<<"R3", "takeR3", "takeRC">>, <<"RC", "takeRC", "takeR0">>,
                                    <<"R0", "takeR0", "feed">>}
  BY DEF TakeLists, Ctxs, EmtPcs, Flushing
<1>3. PICK r \in Seq(Items) : r = Reverse(pPending[ctx])  BY <1>1, ToSetReverse
<1>4. /\ emt[e].pc = here /\ emt' = [emt EXCEPT ![e].pc = next, ![e].taken[ctx] = r]
      /\ pPending' = [pPending EXCEPT ![ctx] = <<>>]
  BY <1>2, <1>3 DEF Take, At, OldestFirst
<1>5. /\ \A f \in Emts \ {e} : emt'[f] = emt[f]
      /\ emt'[e] = [emt[e] EXCEPT !.pc = next, !.taken[ctx] = r]
  BY <1>1, <1>4
<1>6. emt'[e].taken = [emt[e].taken EXCEPT ![ctx] = r]  BY <1>1, <1>5 DEF EmtType
<1>7. /\ emt'[e].taken[ctx] = r /\ pPending'[ctx] = <<>>
      /\ \A c \in Ctxs \ {ctx} : emt'[e].taken[c] = emt[e].taken[c] /\ pPending'[c] = pPending[c]
  BY <1>1, <1>4, <1>6
<1>8. here \in Flushing /\ ctx \in NothingOf(here)  BY <1>2 DEF Flushing, NothingOf, Ctxs
<1>9. emt[e].taken[ctx] = <<>>  BY <1>4, <1>8 DEF FlusherOK
<1>10. ASSUME NEW c \in Ctxs
       PROVE  emt[e].taken[c] \o Reverse(pPending[c]) = emt'[e].taken[c] \o Reverse(pPending'[c])
  <2>1. <<>> \o r = r \o <<>>  BY <1>3, EmptyConcat
  <2>2. CASE c = ctx  BY <1>3, <1>7, <1>9, <2>1, <2>2, ReverseEmpty
  <2>3. CASE c # ctx  BY <1>7, <2>3
  <2> QED BY <2>2, <2>3
<1>11. /\ Line(emt, pPending) = [c \in Ctxs |-> emt[e].taken[c] \o Reverse(pPending[c])]
       /\ Line(emt', pPending') = [c \in Ctxs |-> emt'[e].taken[c] \o Reverse(pPending'[c])]
  BY <1>4, <1>5, <1>8, LinesOf
<1> QED BY <1>10, <1>11

\* Every step inserts, consumes, refuses or leaves the lines and the consumer alone.
LEMMA StepOfLines ==
  ASSUME TypeOK, HandsOK, PlaceOK, FlusherOK, Next
  PROVE  LET line == Line(emt, pPending)
             next == Line(emt', pPending')
         IN  \/ next = line /\ consumed' = consumed
             \/ consumed' = consumed /\ \E x \in Items : Insertion(line, next, x)
             \/ Consumption(line, next, consumed')
             \/ consumed' = consumed /\ Refusal(line, next)
<1>0. ins \in [Threads -> InsType] /\ emt \in [Emts -> EmtType]  BY DEF TypeOK
<1>1. ASSUME NEW t \in Threads, (\E ctx \in Ctxs : AllocRead(t, ctx)) \/ AllocCas(t) \/ SetFF(t) \/ SetPending(t)
      PROVE  Line(emt', pPending') = Line(emt, pPending) /\ consumed' = consumed
  BY <1>1, LinesSame DEF AllocRead, AllocCas, SetFF, SetPending
<1>2. ASSUME NEW e \in Emts,
             \/ PDMR3QueueFlushAll(e) \/ TestAndSet(e) \/ ClearPending(e) \/ Scan(e) \/ Free(e)
             \/ Fed(e) \/ Release(e) \/ CheckPending(e) \/ CheckFF(e) \/ Again(e)
      PROVE  Line(emt', pPending') = Line(emt, pPending) /\ consumed' = consumed
  <2>1. pPending' = pPending /\ consumed' = consumed
    BY <1>2 DEF PDMR3QueueFlushAll, TestAndSet, ClearPending, Scan, Free, Fed, Release, CheckPending,
       CheckFF, Again
  <2>2. \A f \in Emts : emt'[f].taken = emt[f].taken
    <3>1. \E pc : Goto(e, pc)
      BY <1>2 DEF PDMR3QueueFlushAll, TestAndSet, ClearPending, Scan, Free, Fed, Release,
         CheckPending, CheckFF, Again
    <3> QED BY <1>0, <3>1 DEF Goto, EmtType
  <2> QED BY <2>1, <2>2, LinesSame
<1>3. ASSUME NEW e \in Emts, TakeLists(e) \/ PutBack(e)
      PROVE  Line(emt', pPending') = Line(emt, pPending) /\ consumed' = consumed
  BY <1>3, TakeKeeps, PutBackKeeps DEF TakeLists, Take, PutBack
<1>4. ASSUME NEW e \in Emts, Refuse(e)
      PROVE  consumed' = consumed /\ Refusal(Line(emt, pPending), Line(emt', pPending'))
  BY <1>4, RefuseRefuses DEF Refuse
<1> QED BY <1>1, <1>2, <1>3, <1>4, StepCases, PushInserts, ConsumeConsumes DEF Flush

\* The queue implements its promise: the items of each context are offered in the
\* order they came, once each, and "enough!" puts what was taken in front of ring-3.
\* The steps of the model end with the one that hands out a stale item.
THEOREM ImplementsPromise == Spec => ImplementsService
<1> DEFINE line == [ctx \in Ctxs |-> Taken(ctx) \o Reverse(pPending[ctx])]
<1>1. Init => Promise!SInit
  <2> SUFFICES ASSUME Init PROVE Promise!SInit  OBVIOUS
  <2>1. \A ctx \in Ctxs : Held(emt, ctx) = <<>> /\ pPending[ctx] = <<>> /\ consumed = NoItem
    BY HeldByNobody DEF Init, Idle, NoneTaken
  <2>2. \A ctx \in Ctxs : Taken(ctx) \o Reverse(pPending[ctx]) = <<>>
    BY <2>1, ReverseEmpty, EmptyConcat, ToSetEmpty DEF Held, Taken
  <2> QED BY <2>1, <2>2 DEF Promise!SInit, Promise!NoItem, NoItem, Init
<1>2. IInv /\ [Next]_vars => [Promise!SNext]_(Promise!svars)
  <2> SUFFICES ASSUME IInv, [Next]_vars PROVE [Promise!SNext]_(Promise!svars)  OBVIOUS
  <2>1. Line(emt, pPending) = line /\ Line(emt', pPending') = line'
    BY LineIs, LineIsNext
  <2>2. CASE Next
    <3> HIDE DEF line
    <3>1. \/ line' = line /\ consumed' = consumed
          \/ consumed' = consumed /\ \E x \in Items : Insertion(line, line', x)
          \/ Consumption(line, line', consumed')
          \/ consumed' = consumed /\ Refusal(line, line')
      BY <2>1, <2>2, StepOfLines DEF IInv, Next
    <3>2. CASE line' = line /\ consumed' = consumed
      BY <3>2 DEF Promise!svars, line
    <3>3. ASSUME consumed' = consumed, NEW x \in Items, Insertion(line, line', x) PROVE Promise!SNext
      BY <3>3 DEF Insertion, Promise!SNext, Promise!Insert, line
    <3>4. CASE Consumption(line, line', consumed')
      BY <3>4 DEF Consumption, Promise!SNext, Promise!Consume, line
    <3>5. CASE consumed' = consumed /\ Refusal(line, line')
      BY <3>5 DEF Refusal, Promise!SNext, Promise!Refuse, line
    <3> QED BY <3>1, <3>2, <3>3, <3>4, <3>5
  <2>3. CASE UNCHANGED vars
    BY <2>3 DEF vars, Promise!svars, Taken
  <2> QED BY <2>2, <2>3
<1> QED BY <1>1, <1>2, Inductive, PTL DEF Spec, ImplementsService, Promise!Spec

=============================================================================
