---------------------------- MODULE VMReqProofs ----------------------------
(***************************************************************************)
(* Theorems about VMReq, for every number of virtual CPUs, of clients and  *)
(* of packets and every plan of calls.                                     *)
(*                                                                         *)
(* A packet goes from the client that owns it to a list, into the hands of *)
(* one EMT and back to its owner.  Its state and what has run of it tell   *)
(* where it may be: a queued packet waits at the CPU whose turn it is.     *)
(***************************************************************************)
EXTENDS VMReq, SequenceTheorems, FiniteSetTheorems, TLAPS

-----------------------------------------------------------------------------
(* The inductive invariant. *)

States == {"INVALID", "ALLOCATED", "QUEUED", "PROCESSING", "COMPLETED", "FREE"}
ReqType == [enmState : States, dst : Dests \union {VMCPUID_ALL, VMCPUID_ALL_REVERSE},
            kind : Kinds, noWait : BOOLEAN, em : BOOLEAN, fEventSemClear : BOOLEAN]
EmtPcs == {"top", "fwait", "check", "sleep", "clear", "peek", "pushback", "retake", "setff",
           "exec", "complete", "flags", "signal"} \union Kinds
EmtType == [pc : EmtPcs, q : Dests, kind : Kinds, list : Seq(Packets),
            req : Packets \union {NoReq}, em : BOOLEAN]
ClientPcs == {"idle", "queue", "setff", "notify", "poll", "wait", "check", "free"}
ClientType == [pc : ClientPcs, req : Packets \union {NoReq}, noWait : BOOLEAN,
               todo : Seq(Dests), notify : Seq(Cpus)]

HandPcs == {"peek", "pushback", "retake", "setff", "exec"}
ServicePcs == {"complete", "flags", "signal"}

\* The packets an EMT has taken and not begun to run.
Hand(c) == IF emt[c].pc \in HandPcs THEN Range(emt[c].list) \union {emt[c].req} ELSE {}

\* EMT c runs the request of packet p, or reports that it has.
Serves(c, p) == emt[c].pc \in ServicePcs /\ emt[c].req = p

\* Client u will look at packet p again.
Owns(u, p) == /\ client[u].pc # "idle" /\ client[u].req = p
              /\ client[u].noWait => client[u].pc = "queue"

\* Only who notifies has somebody to notify.
NotifyOK == \A u \in Clients : client[u].pc # "notify" => client[u].notify = <<>>

\* The calls that are still to be made are as the plans have them.
CallsOK == \A u \in Clients : \A i \in DOMAIN calls[u] :
  calls[u][i].dst \notin Dests => ~calls[u][i].noWait

EmtOK(c) ==
  /\ emt[c].q \in {VMCPUID_ANY, c}
  /\ emt[c].pc \in HandPcs \union ServicePcs => emt[c].req \in Packets
  /\ emt[c].pc \in {"peek", "setff", "exec"} => emt[c].list = <<>>
  /\ emt[c].pc \in HandPcs => IsInjective(emt[c].list) /\ emt[c].req \notin Range(emt[c].list)
  /\ emt[c].pc \in {"check", "sleep"} => fWait[c]

ServiceOK(c) == LET p == emt[c].req IN emt[c].pc \in ServicePcs =>
  /\ req[p].enmState = IF emt[c].pc = "complete" THEN "PROCESSING" ELSE "COMPLETED"
  /\ emt[c].pc = "signal" => ~req[p].noWait /\ ~req[p].fEventSemClear
  /\ \A d \in Cpus : Serves(d, p) => d = c

\* How many of the CPUs asked have run the request before the last one in todo.
Done(p, todo) == Len(Targets(req[p].dst)) - Len(todo)

ClientOK(u) == LET p == client[u].req
                   todo == client[u].todo
                   T == Targets(req[p].dst) IN
  client[u].pc # "idle" =>
    /\ p \in Packets
    /\ client[u].noWait => client[u].pc \in {"queue", "setff", "notify"}
    /\ Owns(u, p) =>
         /\ \A v \in Clients : Owns(v, p) => v = u
         /\ req[p].noWait = client[u].noWait
         /\ Len(todo) <= Len(T) /\ \A i \in 1 .. Len(todo) : todo[i] = T[Done(p, todo) + i]
         /\ Len(ran[p]) = IF req[p].enmState \in {"ALLOCATED", "QUEUED"} THEN Done(p, todo)
                          ELSE Done(p, todo) + 1
         /\ client[u].pc = "queue" => req[p].enmState = "ALLOCATED"
         /\ client[u].pc \in {"setff", "notify", "poll", "wait"} =>
              req[p].enmState \in {"QUEUED", "PROCESSING", "COMPLETED"}
         /\ client[u].pc \in {"check", "free"} =>
              /\ req[p].enmState = "COMPLETED" /\ ~event[p]
              /\ \A c \in Cpus : ~Serves(c, p)
         /\ client[u].pc = "free" => Len(todo) = 1

PacketOK(p) == LET T == Targets(req[p].dst) IN
  /\ event[p] => /\ req[p].enmState = "COMPLETED" /\ ~req[p].fEventSemClear
                 /\ \A c \in Cpus : ~Serves(c, p)
  /\ req[p].enmState \in {"INVALID", "FREE"} => \A u \in Clients : ~Owns(u, p)
  /\ req[p].noWait => req[p].dst \in Dests
  /\ Len(ran[p]) <= Len(T)
  /\ req[p].dst # VMCPUID_ANY => \A i \in 1 .. Len(ran[p]) : ran[p][i] = T[i]

\* Packet p waits for its turn at destination d.
TurnOf(p, d) == /\ req[p].enmState = "QUEUED"
                /\ Len(ran[p]) < Len(Targets(req[p].dst))
                /\ Targets(req[p].dst)[Len(ran[p]) + 1] = d

ListsOK ==
  /\ \A d \in Dests, k \in Kinds :
       /\ IsInjective(reqs[d][k])
       /\ \A p \in Range(reqs[d][k]) : TurnOf(p, d) /\ req[p].kind = k
  /\ \A c \in Cpus : \A p \in Hand(c) :
       /\ TurnOf(p, emt[c].q) /\ req[p].kind = emt[c].kind
       /\ \A d \in Dests, k \in Kinds : p \notin Range(reqs[d][k])
       /\ \A b \in Cpus : p \in Hand(b) => b = c
  /\ \A p \in Packets : req[p].enmState = "QUEUED" =>
       \/ \E d \in Dests, k \in Kinds : p \in Range(reqs[d][k])
       \/ \E c \in Cpus : p \in Hand(c)

IInv == /\ TypeOK /\ CallsOK /\ NotifyOK
        /\ \A c \in Cpus : EmtOK(c) /\ ServiceOK(c)
        /\ \A u \in Clients : ClientOK(u)
        /\ \A p \in Packets : PacketOK(p)
        /\ ListsOK
        /\ PendingFlagged /\ NoLostWakeup

-----------------------------------------------------------------------------
(* Lists of packets. *)

LEMMA NoneIn ==
  ASSUME NEW s, s = <<>>
  PROVE  Range(s) = {} /\ IsInjective(s) /\ s \in Seq(Packets)
<1>1. s \in Seq(Packets) /\ Len(s) = 0  BY EmptySeq
<1>2. DOMAIN s = {}  BY <1>1, LenProperties
<1>3. Range(s) = {}  BY <1>2 DEF Range
<1>4. IsInjective(s)  BY <1>2 DEF IsInjective
<1> QED BY <1>1, <1>3, <1>4

LEMMA SomeIn ==
  ASSUME NEW s \in Seq(Packets)
  PROVE  s # <<>> <=> Range(s) # {}
<1>1. s # <<>> => Len(s) \in Nat \ {0}  BY EmptySeq
<1>2. DOMAIN s = 1 .. Len(s)  BY LenProperties
<1>3. ASSUME s # <<>> PROVE s[1] \in Range(s)  BY <1>1, <1>2, <1>3 DEF Range
<1>4. ASSUME s = <<>> PROVE Range(s) = {}  BY <1>4, NoneIn
<1> QED BY <1>3, <1>4

LEMMA JoinedFacts ==
  ASSUME NEW s \in Seq(Packets), NEW t \in Seq(Packets), IsInjective(s), IsInjective(t),
         Range(s) \cap Range(t) = {}
  PROVE  /\ s \o t \in Seq(Packets) /\ IsInjective(s \o t)
         /\ Range(s \o t) = Range(s) \union Range(t)
<1> DEFINE m == Len(s)
           n == Len(t)
           j == s \o t
<1>1. /\ m \in Nat /\ DOMAIN s = 1 .. m /\ n \in Nat /\ DOMAIN t = 1 .. n
      /\ DOMAIN j = 1 .. m + n /\ j \in Seq(Packets)
      /\ \A i \in 1 .. m + n : j[i] = IF i <= m THEN s[i] ELSE t[i - m]
  BY LenProperties, ConcatProperties
<1>2. Range(j) = Range(s) \union Range(t)  BY RangeConcatenation
<1> HIDE DEF m, n, j
<1>3. \A a, b \in 1 .. m : s[a] = s[b] => a = b  BY <1>1 DEF IsInjective
<1>4. \A a, b \in 1 .. n : t[a] = t[b] => a = b  BY <1>1 DEF IsInjective
<1>5. \A a \in 1 .. m, b \in 1 .. n : s[a] # t[b]  BY <1>1 DEF Range
<1>6. ASSUME NEW a \in 1 .. m + n, NEW b \in 1 .. m + n, j[a] = j[b] PROVE a = b
  <2>1. CASE a <= m /\ b <= m
    <3>1. a \in 1 .. m /\ b \in 1 .. m  BY <1>1, <2>1
    <3> QED BY <1>1, <1>3, <1>6, <2>1, <3>1
  <2>2. CASE a > m /\ b > m
    <3>1. a - m \in 1 .. n /\ b - m \in 1 .. n  BY <1>1, <2>2
    <3>2. t[a - m] = t[b - m]  BY <1>1, <1>6, <2>2
    <3>3. a - m = b - m  BY <1>4, <3>1, <3>2
    <3> QED BY <1>1, <3>3
  <2>3. CASE a <= m /\ b > m
    <3>1. a \in 1 .. m /\ b - m \in 1 .. n  BY <1>1, <2>3
    <3>2. s[a] = t[b - m]  BY <1>1, <1>6, <2>3
    <3> QED BY <1>5, <3>1, <3>2
  <2>4. CASE a > m /\ b <= m
    <3>1. b \in 1 .. m /\ a - m \in 1 .. n  BY <1>1, <2>4
    <3>2. s[b] = t[a - m]  BY <1>1, <1>6, <2>4
    <3> QED BY <1>5, <3>1, <3>2
  <2> QED BY <1>1, <2>1, <2>2, <2>3, <2>4
<1>7. IsInjective(j)  BY <1>1, <1>6 DEF IsInjective
<1> QED BY <1>1, <1>2, <1>7 DEF j

LEMMA OneIn ==
  ASSUME NEW p \in Packets
  PROVE  <<p>> \in Seq(Packets) /\ Range(<<p>>) = {p} /\ IsInjective(<<p>>)
BY DEF Range, IsInjective

LEMMA PushedFacts ==
  ASSUME NEW s \in Seq(Packets), IsInjective(s), NEW p \in Packets, p \notin Range(s)
  PROVE  /\ <<p>> \o s \in Seq(Packets) /\ IsInjective(<<p>> \o s)
         /\ Range(<<p>> \o s) = {p} \union Range(s)
<1>1. <<p>> \in Seq(Packets) /\ Range(<<p>>) = {p} /\ IsInjective(<<p>>)  BY OneIn
<1> QED BY SMTT(40), <1>1, JoinedFacts

\* The oldest packet of a list, and the others.
LEMMA FrontLast ==
  ASSUME NEW s \in Seq(Packets), s # <<>>
  PROVE  /\ Last(s) \in Packets /\ Front(s) \in Seq(Packets)
         /\ Len(s) \in Nat \ {0} /\ (Len(s) = 1 => Front(s) = <<>>)
         /\ s = Front(s) \o <<Last(s)>>
         /\ Range(s) = Range(Front(s)) \union {Last(s)}
         /\ IsInjective(s) => IsInjective(Front(s)) /\ Last(s) \notin Range(Front(s))
<1> DEFINE n == Len(s)
<1>1. n \in Nat \ {0} /\ DOMAIN s = 1 .. n /\ \A i \in 1 .. n : s[i] \in Packets
  BY EmptySeq, LenProperties, ElementOfSeq
<1>2. Last(s) \in Packets /\ Last(s) = s[n]  BY <1>1 DEF Last
<1>3. /\ Front(s) \in Seq(Packets) /\ Len(Front(s)) = n - 1
      /\ \A i \in 1 .. n - 1 : Front(s)[i] = s[i]
  <2>1. \A i \in 1 .. n - 1 : s[i] \in Packets  BY <1>1
  <2>2. 1 \in Int /\ n - 1 \in Int  BY <1>1
  <2>3. /\ SubSeq(s, 1, n - 1) \in Seq(Packets)
        /\ Len(SubSeq(s, 1, n - 1)) = IF 1 <= n - 1 THEN n - 1 - 1 + 1 ELSE 0
        /\ \A i \in 1 .. n - 1 - 1 + 1 : SubSeq(s, 1, n - 1)[i] = s[1 + i - 1]
    BY <2>1, <2>2, SubSeqProperties
  <2> QED BY <1>1, <2>3 DEF Front
<1>4. DOMAIN Front(s) = 1 .. n - 1  BY <1>3, LenProperties
<1>5. n = 1 => Front(s) = <<>>  BY <1>3, EmptySeq
<1>6. /\ <<Last(s)>> \in Seq(Packets) /\ Range(<<Last(s)>>) = {Last(s)}
      /\ Len(<<Last(s)>>) = 1 /\ <<Last(s)>>[1] = Last(s)
  BY <1>2, OneIn
<1>7. s = Front(s) \o <<Last(s)>>
  <2> DEFINE f == Front(s)
             j == f \o <<Last(s)>>
  <2>1. /\ j \in Seq(Packets) /\ Len(j) = n
        /\ \A i \in 1 .. n : j[i] = IF i <= n - 1 THEN f[i] ELSE <<Last(s)>>[i - (n - 1)]
    <3>1. /\ j \in Seq(Packets) /\ Len(j) = Len(f) + Len(<<Last(s)>>)
          /\ \A i \in 1 .. Len(f) + Len(<<Last(s)>>) :
               j[i] = IF i <= Len(f) THEN f[i] ELSE <<Last(s)>>[i - Len(f)]
      BY <1>3, <1>6, ConcatProperties
    <3>2. Len(f) + Len(<<Last(s)>>) = n /\ Len(f) = n - 1  BY <1>1, <1>3, <1>6
    <3> QED BY <3>1, <3>2
  <2> HIDE DEF j
  <2>2. ASSUME NEW i \in 1 .. n PROVE s[i] = j[i]
    <3>1. CASE i = n
      <4>1. i - (n - 1) = 1 /\ ~(i <= n - 1)  BY <1>1, <3>1
      <4> QED BY <1>2, <1>6, <2>1, <3>1, <4>1
    <3>2. CASE i # n  BY <1>1, <1>3, <2>1, <3>2
    <3> QED BY <3>1, <3>2
  <2>3. s = j  BY <2>1, <2>2, SeqEqual
  <2> QED BY <2>3 DEF j
<1>8. Range(s) = Range(Front(s)) \union {Last(s)}
  <2>1. Range(Front(s) \o <<Last(s)>>) = Range(Front(s)) \union Range(<<Last(s)>>)
    BY ZenonT(60), <1>3, <1>6, RangeConcatenation
  <2> QED BY <1>6, <1>7, <2>1
<1>9. ASSUME IsInjective(s) PROVE IsInjective(Front(s)) /\ Last(s) \notin Range(Front(s))
  <2>1. \A a, b \in 1 .. n : s[a] = s[b] => a = b  BY <1>1, <1>9 DEF IsInjective
  <2> HIDE DEF n
  <2>2. \A a \in 1 .. n - 1 : a \in 1 .. n /\ a # n  BY <1>1
  <2>3. n \in 1 .. n  BY <1>1
  <2>4. \A a, b \in 1 .. n - 1 : Front(s)[a] = Front(s)[b] => a = b  BY <1>3, <2>1, <2>2
  <2>5. \A a \in 1 .. n - 1 : Front(s)[a] # Last(s)  BY <1>2, <1>3, <2>1, <2>2, <2>3
  <2>6. IsInjective(Front(s))  BY <1>4, <2>4 DEF IsInjective
  <2>7. Last(s) \notin Range(Front(s))  BY <1>4, <2>5 DEF Range
  <2> QED BY <2>6, <2>7
<1> QED BY Zenon, <1>1, <1>2, <1>3, <1>5, <1>7, <1>8, <1>9

LEMMA AppendFacts ==
  ASSUME NEW s \in Seq(Packets), NEW p \in Packets
  PROVE  Append(s, p) = s \o <<p>> /\ Range(Append(s, p)) = Range(s) \union {p}
<1>1. Append(s, p) = s \o <<p>>  BY AppendIsConcat
<1>2. <<p>> \in Seq(Packets) /\ Range(<<p>>) = {p}  BY OneIn
<1>3. Range(s \o <<p>>) = Range(s) \union Range(<<p>>)  BY ZenonT(60), <1>2, RangeConcatenation
<1> QED BY <1>1, <1>2, <1>3

-----------------------------------------------------------------------------
(* The CPUs that are asked. *)

LEMMA AllCpusFacts ==
  /\ AllCpus \in Seq(Cpus) /\ Len(AllCpus) = cCpus /\ Range(AllCpus) = Cpus
  /\ \A i \in 1 .. cCpus : AllCpus[i] = i - 1
<1>1. cCpus \in Nat \ {0}  BY CpusAssumption
<1>2. \A i \in 1 .. cCpus : i - 1 \in Cpus  BY <1>1 DEF Cpus
<1>3. AllCpus \in [1 .. cCpus -> Cpus]  BY <1>2 DEF AllCpus
<1>4. AllCpus \in Seq(Cpus) /\ Len(AllCpus) = cCpus  BY <1>1, <1>3, SeqDef, LenProperties
<1>5. \A i \in 1 .. cCpus : AllCpus[i] = i - 1  BY DEF AllCpus
<1>6. DOMAIN AllCpus = 1 .. cCpus  BY DEF AllCpus
<1>7. ASSUME NEW c \in Cpus PROVE c \in Range(AllCpus)
  <2>1. c + 1 \in 1 .. cCpus /\ AllCpus[c + 1] = c  BY <1>1, <1>5 DEF Cpus
  <2> QED BY <1>6, <2>1 DEF Range
<1>8. Range(AllCpus) \subseteq Cpus  BY <1>2, <1>5, <1>6 DEF Range
<1> QED BY <1>4, <1>5, <1>7, <1>8

LEMMA TargetsFacts ==
  ASSUME NEW dst \in Dests \union {VMCPUID_ALL, VMCPUID_ALL_REVERSE}
  PROVE  /\ Targets(dst) \in Seq(Dests) /\ Len(Targets(dst)) \in Nat \ {0}
         /\ dst \in Dests => Targets(dst) = <<dst>> /\ Len(Targets(dst)) = 1
                             /\ Targets(dst)[1] = dst
         /\ \A i \in 1 .. Len(Targets(dst)) : /\ Targets(dst)[i] \in Dests
                                             /\ Targets(dst)[i] = VMCPUID_ANY <=> dst = VMCPUID_ANY
<1>1. cCpus \in Nat \ {0} /\ VMCPUID_ANY \notin Cpus /\ Cpus \subseteq Dests
  BY CpusAssumption, DestsAssumption DEF Dests
<1>2. CASE dst \in Dests
  <2>1. Targets(dst) = <<dst>>  BY <1>2, DestsAssumption DEF Targets
  <2> QED BY <1>2, <2>1
<1>3. ASSUME dst \notin Dests
      PROVE  Targets(dst) \in Seq(Cpus) /\ Len(Targets(dst)) = cCpus
  <2>1. CASE dst = VMCPUID_ALL  BY <2>1, AllCpusFacts, DestsAssumption DEF Targets
  <2>2. CASE dst # VMCPUID_ALL
    <3>1. Targets(dst) = Reverse(AllCpus)  BY <1>3, <2>2 DEF Targets
    <3>2. \A i \in 1 .. cCpus : (cCpus - i) + 1 \in 1 .. cCpus  BY <1>1
    <3>3. \A i \in 1 .. cCpus : AllCpus[i] \in Cpus  BY AllCpusFacts, ElementOfSeq
    <3>4. Targets(dst) = [i \in 1 .. cCpus |-> AllCpus[(cCpus - i) + 1]]
      BY <3>1, AllCpusFacts DEF Reverse
    <3>5. Targets(dst) \in [1 .. cCpus -> Cpus]  BY <3>2, <3>3, <3>4
    <3> QED BY <1>1, <3>5, SeqDef, LenProperties
  <2> QED BY <2>1, <2>2
<1>4. CASE dst \notin Dests
  <2>1. Targets(dst) \in Seq(Dests)  BY <1>1, <1>3, <1>4, SeqMonotonic
  <2>2. \A i \in 1 .. Len(Targets(dst)) : Targets(dst)[i] \in Cpus  BY <1>3, <1>4, ElementOfSeq
  <2> QED BY <1>1, <1>3, <1>4, <2>1, <2>2 DEF Dests
<1> QED BY <1>2, <1>4

-----------------------------------------------------------------------------
(* Types. *)

LEMMA Types ==
  ASSUME TypeOK
  PROVE  /\ req \in [Packets -> ReqType] /\ emt \in [Cpus -> EmtType]
         /\ client \in [Clients -> ClientType]
         /\ \A p \in Packets : /\ req[p] \in ReqType /\ ran[p] \in Seq(Cpus)
                               /\ req[p].dst \in Dests \union {VMCPUID_ALL, VMCPUID_ALL_REVERSE}
         /\ \A c \in Cpus : /\ emt[c] \in EmtType /\ emt[c].list \in Seq(Packets)
                            /\ emt[c].q \in Dests /\ emt[c].kind \in Kinds
         /\ \A u \in Clients : /\ client[u] \in ClientType /\ client[u].todo \in Seq(Dests)
                               /\ client[u].notify \in Seq(Cpus)
         /\ \A d \in Dests, k \in Kinds : reqs[d][k] \in Seq(Packets)
BY DEF TypeOK, ReqType, States, EmtType, EmtPcs, ClientType, ClientPcs

LEMMA Idles ==
  /\ EmtTop \in EmtType /\ EmtTop.pc = "top" /\ EmtTop.q = VMCPUID_ANY
  /\ Idle \in ClientType /\ Idle.pc = "idle" /\ Idle.notify = <<>>
  /\ <<>> \in Seq(Packets) /\ <<>> \in Seq(Cpus) /\ <<>> \in Seq(Dests)
<1>1. <<>> \in Seq(Packets) /\ <<>> \in Seq(Cpus) /\ <<>> \in Seq(Dests)  BY EmptySeq
<1> QED BY <1>1 DEF EmtTop, Idle, EmtType, EmtPcs, ClientType, ClientPcs, Kinds, Dests

LEMMA Fresh ==
  ASSUME NEW p \in In("FREE") \union New
  PROVE  p \in Packets /\ req[p].enmState \in {"INVALID", "FREE"}
BY DEF In, New

\* The packet in the hands of a thread is one.
LEMMA Held ==
  ASSUME IInv
  PROVE  /\ \A c \in Cpus : emt[c].pc \in HandPcs \union ServicePcs => emt[c].req \in Packets
         /\ \A u \in Clients : client[u].pc # "idle" => client[u].req \in Packets
BY DEF IInv, EmtOK, ClientOK

LEMMA TailFacts ==
  ASSUME NEW S, NEW s \in Seq(S), s # <<>>
  PROVE  /\ Head(s) \in S /\ Tail(s) \in Seq(S) /\ Len(Tail(s)) = Len(s) - 1 /\ Head(s) = s[1]
         /\ Len(s) \in Nat \ {0} /\ \A i \in 1 .. Len(s) - 1 : Tail(s)[i] = s[i + 1]
         /\ More(s) <=> Tail(s) # <<>>
<1>1. /\ Head(s) \in S /\ Tail(s) \in Seq(S) /\ Len(Tail(s)) = Len(s) - 1
      /\ \A i \in 1 .. Len(Tail(s)) : Tail(s)[i] = s[i + 1]
      /\ Len(s) \in Nat \ {0}
  BY HeadTailProperties, EmptySeq
<1>2. Head(s) = s[1]  OBVIOUS
<1>3. ASSUME More(s) PROVE Tail(s) # <<>>
  <2>1. Len(Tail(s)) > 0  BY <1>1, <1>3 DEF More
  <2>2. Tail(s) = <<>> => Len(Tail(s)) = 0  BY EmptySeq
  <2> QED BY <1>1, <2>1, <2>2
<1>4. ASSUME ~More(s) PROVE Tail(s) = <<>>
  <2> DEFINE m == Len(s)
  <2>1. m \in Nat \ {0} /\ ~(m > 1) /\ Len(Tail(s)) = m - 1  BY <1>1, <1>4 DEF More
  <2> HIDE DEF m
  <2>2. Len(Tail(s)) = 0  BY <2>1
  <2> QED BY <1>1, <2>2, EmptySeq
<1> QED BY <1>1, <1>2, <1>3, <1>4

\* A packet's state alone changes.
LEMMA States1 ==
  ASSUME TypeOK, NEW p \in Packets, NEW s \in States, SetState(p, s)
  PROVE  /\ req' \in [Packets -> ReqType] /\ \A o \in Packets \ {p} : req'[o] = req[o]
         /\ req'[p].enmState = s /\ req'[p].dst = req[p].dst /\ req'[p].kind = req[p].kind
         /\ req'[p].noWait = req[p].noWait /\ req'[p].em = req[p].em
         /\ req'[p].fEventSemClear = req[p].fEventSemClear
<1> DEFINE r == [req[p] EXCEPT !.enmState = s]
<1>1. req \in [Packets -> ReqType] /\ req[p] \in ReqType  BY Types
<1>2. r \in ReqType  BY <1>1 DEF ReqType
<1>3. /\ r.enmState = s /\ r.dst = req[p].dst /\ r.kind = req[p].kind
      /\ r.noWait = req[p].noWait /\ r.em = req[p].em
      /\ r.fEventSemClear = req[p].fEventSemClear
  BY <1>1 DEF ReqType
<1>4. req' = [req EXCEPT ![p] = r]  BY <1>1 DEF SetState
<1> HIDE DEF r
<1>5. /\ req' \in [Packets -> ReqType] /\ \A o \in Packets \ {p} : req'[o] = req[o]
      /\ req'[p] = r
  BY <1>1, <1>2, <1>4
<1> QED BY <1>3, <1>5

LEMMA Freed ==
  ASSUME TypeOK, NEW p \in Packets, VMR3ReqFree(p)
  PROVE  \E s \in {"FREE", "INVALID"} : s \in States /\ SetState(p, s)
BY DEF VMR3ReqFree, States

\* A packet's fEventSemClear alone changes.
LEMMA Clears ==
  ASSUME TypeOK, NEW p \in Packets, NEW b \in BOOLEAN,
         req' = [req EXCEPT ![p].fEventSemClear = b]
  PROVE  /\ req' \in [Packets -> ReqType] /\ \A o \in Packets \ {p} : req'[o] = req[o]
         /\ req'[p].fEventSemClear = b /\ req'[p].dst = req[p].dst
         /\ req'[p].kind = req[p].kind /\ req'[p].noWait = req[p].noWait
         /\ req'[p].em = req[p].em /\ req'[p].enmState = req[p].enmState
<1> DEFINE r == [req[p] EXCEPT !.fEventSemClear = b]
<1>1. req \in [Packets -> ReqType] /\ req[p] \in ReqType  BY Types
<1>2. r \in ReqType  BY <1>1 DEF ReqType
<1>3. /\ r.fEventSemClear = b /\ r.dst = req[p].dst /\ r.kind = req[p].kind
      /\ r.noWait = req[p].noWait /\ r.em = req[p].em /\ r.enmState = req[p].enmState
  BY <1>1 DEF ReqType
<1>4. req' = [req EXCEPT ![p] = r]  BY <1>1
<1> HIDE DEF r
<1>5. /\ req' \in [Packets -> ReqType] /\ \A o \in Packets \ {p} : req'[o] = req[o]
      /\ req'[p] = r
  BY <1>1, <1>2, <1>4
<1> QED BY <1>3, <1>5

\* A client step keeps the types, given that it keeps those of the client.
LEMMA ClientTypes ==
  ASSUME TypeOK, NEW u \in Clients, NEW r \in ClientType, client' = [client EXCEPT ![u] = r],
         r.pc # "idle" => r.todo # <<>>, r.pc = "notify" => r.notify # <<>>,
         req' \in [Packets -> ReqType], event' \in [Packets -> BOOLEAN],
         reqs' \in [Dests -> [Kinds -> Seq(Packets)]], ff' \in [Dests -> BOOLEAN],
         semWait' \in [Cpus -> BOOLEAN], ran' \in [Packets -> Seq(Cpus)],
         calls' \in [Clients -> Seq(Call)], UNCHANGED <<vmState, fWait, emt>>
  PROVE  TypeOK'
<1>1. client' \in [Clients -> ClientType]  BY Types
<1>2. \A v \in Clients : /\ client'[v].pc # "idle" => client'[v].todo # <<>>
                         /\ client'[v].pc = "notify" => client'[v].notify # <<>>
  BY DEF TypeOK
<1> QED BY <1>1, <1>2 DEF TypeOK, ReqType, States, ClientType, ClientPcs

\* An EMT step keeps the types, given that it keeps those of the EMT.
LEMMA EmtTypes ==
  ASSUME TypeOK, emt' \in [Cpus -> EmtType], vmState' \in {"RUNNING", "SUSPENDED"},
         req' \in [Packets -> ReqType], event' \in [Packets -> BOOLEAN],
         reqs' \in [Dests -> [Kinds -> Seq(Packets)]], ff' \in [Dests -> BOOLEAN],
         semWait' \in [Cpus -> BOOLEAN], fWait' \in [Cpus -> BOOLEAN],
         ran' \in [Packets -> Seq(Cpus)], UNCHANGED <<client, calls>>
  PROVE  TypeOK'
BY DEF TypeOK, ReqType, States, EmtType, EmtPcs

LEMMA ClientTypeInv ==
  ASSUME IInv, NEW u \in Clients, VMR3ReqAllocU(u) \/ ClientNext(u)
  PROVE  TypeOK'
<1>0. /\ TypeOK /\ client[u] \in ClientType
      /\ client[u].pc # "idle" => client[u].req \in Packets /\ client[u].todo # <<>>
      /\ client[u].pc = "notify" => client[u].notify # <<>>
      /\ client[u].todo \in Seq(Dests) /\ client[u].notify \in Seq(Cpus)
      /\ req \in [Packets -> ReqType] /\ client \in [Clients -> ClientType]
  BY Types, Held DEF IInv, TypeOK
<1>1. CASE VMR3ReqAllocU(u)
  <2>1. PICK p \in In("FREE") \union New :
          LET call == Head(calls[u]) IN
          /\ req' = [req EXCEPT ![p] =
               [enmState |-> "ALLOCATED", dst |-> call.dst, kind |-> call.kind,
                noWait |-> call.noWait, em |-> call.em, fEventSemClear |-> TRUE]]
          /\ event' = [event EXCEPT ![p] = @ /\ req[p].enmState = "FREE" /\ req[p].fEventSemClear]
          /\ ran' = [ran EXCEPT ![p] = <<>>]
          /\ client' = [client EXCEPT ![u] =
               [pc |-> "queue", req |-> p, noWait |-> call.noWait,
                todo |-> Targets(call.dst), notify |-> <<>>]]
    BY <1>1 DEF VMR3ReqAllocU
  <2> DEFINE call == Head(calls[u])
             r == [pc |-> "queue", req |-> p, noWait |-> call.noWait,
                   todo |-> Targets(call.dst), notify |-> <<>>]
  <2>2. calls[u] # <<>> /\ calls[u] \in Seq(Call)  BY <1>0, <1>1 DEF VMR3ReqAllocU, TypeOK
  <2>3. call \in Call /\ Tail(calls[u]) \in Seq(Call)  BY <2>2, HeadTailProperties
  <2>4. call.dst \in Dests \union {VMCPUID_ALL, VMCPUID_ALL_REVERSE}  BY <2>3 DEF Call
  <2>5. Targets(call.dst) \in Seq(Dests) /\ Targets(call.dst) # <<>>
    <3>1. Len(<<>>) = 0  BY EmptySeq
    <3> QED BY <2>4, <3>1, TargetsFacts
  <2>6. p \in Packets  BY Fresh
  <2>7. r \in ClientType /\ r.pc = "queue" /\ r.todo # <<>>
    BY <2>3, <2>5, <2>6, Idles DEF ClientType, ClientPcs, Call
  <2>8. req' \in [Packets -> ReqType]
    BY <1>0, <2>1, <2>3, <2>6 DEF ReqType, States, Call
  <2>9. event' \in [Packets -> BOOLEAN]
    <3>1. event \in [Packets -> BOOLEAN]  BY <1>0 DEF TypeOK
    <3>2. (event[p] /\ req[p].enmState = "FREE" /\ req[p].fEventSemClear) \in BOOLEAN  OBVIOUS
    <3> QED BY <2>1, <3>1, <3>2
  <2>10. ran' \in [Packets -> Seq(Cpus)]  BY <1>0, <2>1, Idles DEF TypeOK
  <2>11. calls' \in [Clients -> Seq(Call)]  BY <1>0, <1>1, <2>3 DEF VMR3ReqAllocU, TypeOK
  <2>12. UNCHANGED <<vmState, reqs, ff, fWait, semWait, emt>>  BY <1>1 DEF VMR3ReqAllocU
  <2>13. client' = [client EXCEPT ![u] = r]  BY SMTT(40), <2>1
  <2> HIDE DEF r
  <2> QED BY <1>0, <2>7, <2>8, <2>9, <2>10, <2>11, <2>12, <2>13, ClientTypes DEF TypeOK
<1>2. CASE Queue(u)
  <2> DEFINE p == client[u].req
             d == Head(client[u].todo)
             r == [client[u] EXCEPT !.pc = "setff"]
  <2>1. p \in Packets /\ d \in Dests /\ req[p].kind \in Kinds
    BY <1>0, <1>2, TailFacts DEF Queue, ClientAt, ReqType
  <2>2. <<p>> \in Seq(Packets) /\ reqs[d][req[p].kind] \in Seq(Packets)
    BY <1>0, <2>1, OneIn DEF TypeOK
  <2>3. <<p>> \o reqs[d][req[p].kind] \in Seq(Packets)  BY SMTT(40), <2>2, ConcatProperties
  <2>4. reqs' \in [Dests -> [Kinds -> Seq(Packets)]]
    <3>1. reqs \in [Dests -> [Kinds -> Seq(Packets)]]  BY <1>0 DEF TypeOK
    <3>2. PICK k \in Kinds : k = req[p].kind  BY <2>1
    <3>3. PICK s \in Seq(Packets) : s = <<p>> \o reqs[d][k]  BY <2>3, <3>2
    <3>4. reqs' = [reqs EXCEPT ![d] = [reqs[d] EXCEPT ![k] = s]]  BY <1>2, <3>2, <3>3 DEF Queue
    <3> HIDE DEF d, p
    <3>5. [reqs[d] EXCEPT ![k] = s] \in [Kinds -> Seq(Packets)]  BY <2>1, <3>1
    <3> QED BY <2>1, <3>1, <3>4, <3>5
  <2>5. req' \in [Packets -> ReqType]
    <3>1. req \in [Packets -> ReqType] /\ req' = [req EXCEPT ![p].enmState = "QUEUED"]
      BY <1>0, <1>2 DEF Queue, SetState, TypeOK
    <3> HIDE DEF p
    <3>2. [req[p] EXCEPT !.enmState = "QUEUED"] \in ReqType
      BY <2>1, <3>1 DEF ReqType, States
    <3> QED BY <2>1, <3>1, <3>2
  <2>6. client' = [client EXCEPT ![u] = r] /\ r \in ClientType /\ r.pc = "setff" /\ r.todo # <<>>
    BY <1>0, <1>2 DEF Queue, ClientAt, ClientGo, ClientType, ClientPcs
  <2> HIDE DEF r
  <2> QED BY ZenonT(60), <1>0, <1>2, <2>4, <2>5, <2>6, ClientTypes DEF Queue, TypeOK
<1>3. CASE SetFF(u)
  <2> DEFINE d == Head(client[u].todo)
             n == IF d = VMCPUID_ANY THEN AllCpus ELSE <<d>>
             r == [client[u] EXCEPT !.pc = "notify", !.notify = n]
  <2>1. d \in Dests  BY <1>0, <1>3, TailFacts DEF SetFF, ClientAt
  <2>2. n \in Seq(Cpus) /\ n # <<>>
    <3>1. CASE d = VMCPUID_ANY
      <4>1. Len(<<>>) = 0  BY EmptySeq
      <4> QED BY <3>1, <4>1, AllCpusFacts, CpusAssumption
    <3>2. CASE d # VMCPUID_ANY  BY <2>1, <3>2 DEF Dests
    <3> QED BY <3>1, <3>2
  <2> HIDE DEF n
  <2>3. client' = [client EXCEPT ![u] = r]
    BY <1>0, <1>3 DEF SetFF, n
  <2>4. r \in ClientType /\ r.pc = "notify" /\ r.todo # <<>> /\ r.notify # <<>>
    BY <1>0, <1>3, <2>2 DEF SetFF, ClientAt, ClientType, ClientPcs
  <2>5. ff' \in [Dests -> BOOLEAN]  BY <1>0, <1>3, <2>1 DEF SetFF, TypeOK
  <2> HIDE DEF r
  <2> QED BY <1>0, <1>3, <2>3, <2>4, <2>5, ClientTypes DEF SetFF, TypeOK
<1>4. CASE NotifyFF(u)
  <2> DEFINE n == client[u].notify
             c == Head(n)
             r == CASE More(n) -> [client[u] EXCEPT !.notify = Tail(n)]
                    [] ~More(n) /\ client[u].noWait -> Idle
                    [] OTHER -> [client[u] EXCEPT !.notify = <<>>,
                                                  !.pc = IF u \in Pollers THEN "poll" ELSE "wait"]
  <2>1. client[u].pc = "notify" /\ n # <<>> /\ client[u].todo # <<>>
    BY <1>0, <1>4 DEF NotifyFF, ClientAt
  <2>2. c \in Cpus /\ Tail(n) \in Seq(Cpus) /\ (More(n) => Tail(n) # <<>>)
    <3>1. n \in Seq(Cpus) /\ n # <<>>  BY <1>0, <2>1
    <3>2. /\ Head(n) \in Cpus /\ Tail(n) \in Seq(Cpus)
          /\ More(n) => Tail(n) # <<>>
      BY ONLY <3>1, TailFacts
    <3> QED BY <3>2
  <2>3. client' = [client EXCEPT ![u] = r]  BY <1>0, <1>4 DEF NotifyFF
  <2>4. /\ r \in ClientType
        /\ r.pc # "idle" => r.todo # <<>>
        /\ r.pc = "notify" => r.notify # <<>>
    <3>1. CASE More(n)
      <4>1. r = [client[u] EXCEPT !.notify = Tail(n)]  BY <3>1
      <4> QED BY <1>0, <2>1, <2>2, <3>1, <4>1 DEF ClientType
    <3>2. CASE ~More(n) /\ client[u].noWait
      <4>1. r = Idle  BY <3>2
      <4> QED BY <4>1, Idles
    <3>3. CASE ~More(n) /\ ~client[u].noWait
      <4>1. r = [client[u] EXCEPT !.notify = <<>>, !.pc = IF u \in Pollers THEN "poll" ELSE "wait"]
        BY <3>3
      <4> QED BY <1>0, <2>1, <4>1, Idles DEF ClientType, ClientPcs
    <3> QED BY <3>1, <3>2, <3>3
  <2> HIDE DEF r
  <2>5. semWait' \in [Cpus -> BOOLEAN]
    <3>1. semWait \in [Cpus -> BOOLEAN] /\ (semWait[c] \/ fWait[c]) \in BOOLEAN  BY <1>0 DEF TypeOK
    <3>2. semWait' = [semWait EXCEPT ![c] = semWait[c] \/ fWait[c]]  BY <1>4 DEF NotifyFF
    <3> QED BY <3>1, <3>2
  <2>6. UNCHANGED <<vmState, req, event, reqs, ff, fWait, emt, ran, calls>>
    BY <1>4 DEF NotifyFF
  <2> QED BY <1>0, <2>3, <2>4, <2>5, <2>6, ClientTypes DEF TypeOK
<1>5. CASE Poll(u) \/ WaitEvent(u) \/ CheckState(u)
  <2> DEFINE p == client[u].req
  <2>1. client[u].pc # "idle" /\ p \in Packets /\ client[u].todo # <<>>
    BY <1>0, <1>5 DEF Poll, WaitEvent, CheckState, ClientAt
  <2>2. PICK pc \in ClientPcs \ {"notify"}, todo \in Seq(Dests) :
          /\ todo # <<>> /\ client' = [client EXCEPT ![u] = [@ EXCEPT !.pc = pc, !.todo = todo]]
    <3>1. /\ Tail(client[u].todo) \in Seq(Dests)
          /\ More(client[u].todo) => Tail(client[u].todo) # <<>>
      BY <1>0, <2>1, TailFacts
    <3>2. client[u] = [client[u] EXCEPT !.todo = client[u].todo]  BY <1>0 DEF ClientType
    <3>3. \A l \in ClientPcs : ClientGo(u, l) =>
            client' = [client EXCEPT ![u] = [@ EXCEPT !.pc = l, !.todo = client[u].todo]]
      BY <1>0 DEF ClientGo, ClientType
    <3>4. CASE Poll(u) \/ WaitEvent(u)
      BY ZenonT(60), <1>0, <2>1, <3>3, <3>4 DEF Poll, WaitEvent, ClientPcs
    <3>5. CASE CheckState(u)
      <4>1. CASE ClientGo(u, "wait") \/ ClientGo(u, "free")
        BY ZenonT(60), <1>0, <2>1, <3>3, <4>1 DEF ClientPcs
      <4>2. CASE /\ More(client[u].todo)
                 /\ client' = [client EXCEPT ![u].pc = "queue", ![u].todo = Tail(@)]
        <5>1. client' = [client EXCEPT ![u] =
                           [@ EXCEPT !.pc = "queue", !.todo = Tail(client[u].todo)]]
          BY <1>0, <4>2 DEF ClientType
        <5> QED BY Zenon, <3>1, <4>2, <5>1 DEF ClientPcs
      <4> QED BY Zenon, <3>5, <4>1, <4>2 DEF CheckState
    <3> QED BY Zenon, <1>5, <3>4, <3>5
  <2> DEFINE r == [client[u] EXCEPT !.pc = pc, !.todo = todo]
  <2>3. /\ r \in ClientType /\ r.todo # <<>> /\ r.pc # "notify"
        /\ client' = [client EXCEPT ![u] = r]
    BY <1>0, <2>2 DEF ClientType
  <2> HIDE DEF r
  <2>4. req' \in [Packets -> ReqType]
    <3>1. (req[p].fEventSemClear \/ event[p]) \in BOOLEAN  BY <1>0, <2>1 DEF TypeOK, ReqType
    <3>2. CASE Poll(u)
      <4>1. req' = [req EXCEPT ![p] =
                      [@ EXCEPT !.fEventSemClear = req[p].fEventSemClear \/ event[p]]]
        BY <1>0, <2>1, <3>2 DEF Poll
      <4> QED BY ZenonT(60), <1>0, <2>1, <3>1, <4>1 DEF ReqType
    <3>3. CASE WaitEvent(u)  BY <1>0, <3>3 DEF WaitEvent
    <3>4. CASE CheckState(u)
      <4>1. \/ req' = req
            \/ req' = [req EXCEPT ![p].fEventSemClear = TRUE, ![p].enmState = "ALLOCATED"]
            \/ req' = [req EXCEPT ![p].fEventSemClear = TRUE]
        BY <3>4 DEF CheckState
      <4>2. CASE req' = [req EXCEPT ![p].fEventSemClear = TRUE, ![p].enmState = "ALLOCATED"]
        <5>1. req' = [req EXCEPT ![p] =
                        [@ EXCEPT !.fEventSemClear = TRUE, !.enmState = "ALLOCATED"]]
          BY <1>0, <2>1, <4>2
        <5>2. [req[p] EXCEPT !.fEventSemClear = TRUE, !.enmState = "ALLOCATED"] \in ReqType
          <6>1. [req[p] EXCEPT !.fEventSemClear = TRUE] \in ReqType
            BY ZenonT(60), <1>0, <2>1 DEF ReqType
          <6>2. [[req[p] EXCEPT !.fEventSemClear = TRUE] EXCEPT !.enmState = "ALLOCATED"]
                  \in ReqType
            BY <6>1 DEF ReqType, States
          <6>3. [req[p] EXCEPT !.fEventSemClear = TRUE, !.enmState = "ALLOCATED"]
                  = [[req[p] EXCEPT !.fEventSemClear = TRUE] EXCEPT !.enmState = "ALLOCATED"]
            OBVIOUS
          <6> QED BY <6>2, <6>3
        <5> QED BY <1>0, <5>1, <5>2
      <4>3. CASE req' = [req EXCEPT ![p].fEventSemClear = TRUE]
        <5>1. [req[p] EXCEPT !.fEventSemClear = TRUE] \in ReqType
          BY ZenonT(60), <1>0, <2>1 DEF ReqType, States
        <5> QED BY <1>0, <4>3, <5>1
      <4> QED BY <1>0, <4>1, <4>2, <4>3
    <3> QED BY <1>5, <3>2, <3>3, <3>4
  <2>5. event' \in [Packets -> BOOLEAN]
    BY <1>0, <1>5 DEF Poll, WaitEvent, CheckState, TypeOK
  <2>6. UNCHANGED <<vmState, reqs, ff, fWait, semWait, emt, ran, calls>>
    BY <1>5 DEF Poll, WaitEvent, CheckState
  <2> QED BY <1>0, <2>3, <2>4, <2>5, <2>6, ClientTypes DEF TypeOK
<1>6. CASE Free(u)
  <2>1. req' \in [Packets -> ReqType]
    BY <1>0, <1>6 DEF Free, ClientAt, VMR3ReqFree, SetState, ReqType, States
  <2>2. client' = [client EXCEPT ![u] = Idle]  BY <1>6 DEF Free
  <2> QED BY <1>0, <1>6, <2>1, <2>2, Idles, ClientTypes DEF Free, TypeOK
<1> QED BY <1>1, <1>2, <1>3, <1>4, <1>5, <1>6 DEF ClientNext

\* What a step of the control of an EMT leaves alone.
LEMMA Goes ==
  ASSUME TypeOK, NEW c \in Cpus, NEW pc \in EmtPcs, EmtGo(c, pc)
  PROVE  /\ emt' \in [Cpus -> EmtType] /\ \A b \in Cpus \ {c} : emt'[b] = emt[b]
         /\ emt'[c].pc = pc /\ emt'[c].q = emt[c].q /\ emt'[c].kind = emt[c].kind
         /\ emt'[c].list = emt[c].list /\ emt'[c].req = emt[c].req /\ emt'[c].em = emt[c].em
<1>1. emt \in [Cpus -> EmtType] /\ emt[c] \in EmtType  BY Types
<1>2. emt' = [emt EXCEPT ![c] = [emt[c] EXCEPT !.pc = pc]]  BY <1>1 DEF EmtGo
<1>3. [emt[c] EXCEPT !.pc = pc] \in EmtType  BY <1>1 DEF EmtType
<1>4. /\ [emt[c] EXCEPT !.pc = pc].pc = pc /\ [emt[c] EXCEPT !.pc = pc].q = emt[c].q
      /\ [emt[c] EXCEPT !.pc = pc].kind = emt[c].kind
      /\ [emt[c] EXCEPT !.pc = pc].list = emt[c].list
      /\ [emt[c] EXCEPT !.pc = pc].req = emt[c].req
      /\ [emt[c] EXCEPT !.pc = pc].em = emt[c].em
  BY <1>1 DEF EmtType
<1> HIDE DEF EmtType
<1> QED BY <1>1, <1>2, <1>3, <1>4

\* An EMT whose record is replaced.
LEMMA Becomes ==
  ASSUME TypeOK, NEW c \in Cpus, NEW r \in EmtType, emt' = [emt EXCEPT ![c] = r]
  PROVE  /\ emt' \in [Cpus -> EmtType] /\ \A b \in Cpus \ {c} : emt'[b] = emt[b]
         /\ emt'[c] = r
BY Types

\* The EMT that begins to serve q, and the loop of VMR3ReqProcessU.
LEMMA Begins ==
  ASSUME NEW q \in Dests
  PROVE  LET r == [EmtTop EXCEPT !.pc = "clear", !.q = q] IN
         r \in EmtType /\ r.pc = "clear" /\ r.q = q
BY Idles DEF EmtTop, EmtType, EmtPcs, Kinds

LEMMA Resumes ==
  ASSUME TypeOK, NEW c \in Cpus, Resume(c)
  PROVE  /\ emt' \in [Cpus -> EmtType] /\ \A b \in Cpus \ {c} : emt'[b] = emt[b]
         /\ \/ emt'[c].pc = "top" /\ emt'[c].q = VMCPUID_ANY
            \/ emt'[c].pc = "clear" /\ emt'[c].q = emt[c].q
<1> DEFINE r == IF emt[c].em THEN EmtTop ELSE [EmtTop EXCEPT !.pc = "clear", !.q = emt[c].q]
<1>1. emt' = [emt EXCEPT ![c] = r]  BY Types DEF Resume
<1>2. r \in EmtType /\ \/ r.pc = "top" /\ r.q = VMCPUID_ANY
                       \/ r.pc = "clear" /\ r.q = emt[c].q
  <2>1. emt[c].q \in Dests  BY Types
  <2>2. CASE emt[c].em  BY <2>2, Idles
  <2>3. CASE ~emt[c].em  BY Zenon, <2>1, <2>3, Begins
  <2> QED BY <2>2, <2>3
<1> HIDE DEF r
<1> QED BY <1>1, <1>2, Becomes

\* Where the EMT goes on after it has taken a list of n packets.
LEMMA AfterTake ==
  ASSUME NEW n \in Nat \ {0}, NEW k \in {"priority", "normal"}
  PROVE  LET pc == CASE n > 1 -> "pushback"
                     [] n = 1 /\ k = "priority" -> "peek"
                     [] OTHER -> "exec" IN
         \/ pc = "pushback"
         \/ n = 1 /\ pc = "peek" /\ k = "priority"
         \/ n = 1 /\ pc = "exec" /\ k = "normal"
<1> DEFINE pc == CASE n > 1 -> "pushback"
                   [] n = 1 /\ k = "priority" -> "peek"
                   [] OTHER -> "exec"
<1>1. n > 1 => pc = "pushback"  OBVIOUS
<1>2. n = 1 /\ k = "priority" => pc = "peek"  OBVIOUS
<1>3. n = 1 /\ k = "normal" => pc = "exec"  OBVIOUS
<1>4. n > 1 \/ n = 1  OBVIOUS
<1> HIDE DEF pc
<1>5. \/ pc = "pushback"
      \/ n = 1 /\ pc = "peek" /\ k = "priority"
      \/ n = 1 /\ pc = "exec" /\ k = "normal"
  <2>1. k = "priority" \/ k = "normal"  OBVIOUS
  <2>2. CASE n > 1  BY <1>1, <2>2
  <2>3. CASE n = 1  BY <1>2, <1>3, <2>1, <2>3
  <2> QED BY <1>4, <2>2, <2>3
<1> QED BY <1>5 DEF pc

\* Take empties the list; the oldest packet and the others are in the hands of the EMT.
LEMMA TakeFacts ==
  ASSUME IInv, NEW c \in Cpus, NEW k \in Kinds, Take(c, k)
  PROVE  LET q == emt[c].q
             l == reqs[q][k] IN
         /\ emt[c].pc = k /\ q \in Dests /\ l \in Seq(Packets) /\ IsInjective(l)
         /\ emt' \in [Cpus -> EmtType] /\ \A b \in Cpus \ {c} : emt'[b] = emt[b]
         /\ reqs' = [reqs EXCEPT ![q] = [@ EXCEPT ![k] = <<>>]]
         /\ l = <<>> => \/ k = "priority" /\ emt'[c].pc = "normal" /\ emt'[c].q = q
                        \/ k = "normal" /\ emt'[c].pc = "top" /\ emt'[c].q = VMCPUID_ANY
         /\ l # <<>> =>
              /\ emt'[c].kind = k /\ emt'[c].q = q
              /\ emt'[c].req = Last(l) /\ emt'[c].list = Front(l)
              /\ \/ emt'[c].pc = "pushback"
                 \/ emt'[c].pc = "peek" /\ k = "priority" /\ Front(l) = <<>>
                 \/ emt'[c].pc = "exec" /\ k = "normal" /\ Front(l) = <<>>
<1> DEFINE q == emt[c].q
           l == reqs[q][k]
           pc == CASE Len(l) > 1 -> "pushback"
                   [] Len(l) = 1 /\ k = "priority" -> "peek"
                   [] OTHER -> "exec"
           some == [emt[c] EXCEPT !.kind = k, !.req = Last(l), !.list = Front(l), !.pc = pc]
           none == IF k = "priority" THEN [emt[c] EXCEPT !.pc = "normal"] ELSE EmtTop
<1>1. /\ TypeOK /\ q \in Dests /\ l \in Seq(Packets) /\ IsInjective(l)
      /\ emt[c] \in EmtType /\ emt \in [Cpus -> EmtType] /\ k \in {"priority", "normal"}
  BY Types DEF IInv, ListsOK, Kinds
<1>2. emt[c].pc = k /\ emt' = [emt EXCEPT ![c] = IF l = <<>> THEN none ELSE some]
  BY <1>1 DEF Take, EmtAt
<1>3. reqs' = [reqs EXCEPT ![q] = [@ EXCEPT ![k] = <<>>]]  BY <1>1 DEF Take, TypeOK
<1>4. CASE l = <<>>
  <2>1. none \in EmtType /\ \/ k = "priority" /\ none.pc = "normal" /\ none.q = q
                            \/ k = "normal" /\ none.pc = "top" /\ none.q = VMCPUID_ANY
    BY <1>1, Idles DEF EmtType, EmtPcs, Kinds
  <2>2. emt' = [emt EXCEPT ![c] = none]  BY <1>2, <1>4
  <2> HIDE DEF none
  <2>3. /\ emt' \in [Cpus -> EmtType] /\ \A b \in Cpus \ {c} : emt'[b] = emt[b]
        /\ emt'[c] = none
    BY <1>1, <2>1, <2>2, Becomes
  <2> QED BY <1>1, <1>2, <1>3, <1>4, <2>1, <2>3
<1>5. CASE l # <<>>
  <2>1. /\ Last(l) \in Packets /\ Front(l) \in Seq(Packets)
        /\ Len(l) = 1 => Front(l) = <<>>
    BY <1>1, <1>5, FrontLast
  <2>2. \/ pc = "pushback"
        \/ pc = "peek" /\ k = "priority" /\ Front(l) = <<>>
        \/ pc = "exec" /\ k = "normal" /\ Front(l) = <<>>
    <3>1. Len(l) \in Nat \ {0}  BY <1>1, <1>5, FrontLast
    <3>2. LET o == CASE Len(l) > 1 -> "pushback"
                     [] Len(l) = 1 /\ k = "priority" -> "peek"
                     [] OTHER -> "exec" IN
          \/ o = "pushback"
          \/ Len(l) = 1 /\ o = "peek" /\ k = "priority"
          \/ Len(l) = 1 /\ o = "exec" /\ k = "normal"
      BY <1>1, <3>1, AfterTake
    <3>3. \/ pc = "pushback"
          \/ Len(l) = 1 /\ pc = "peek" /\ k = "priority"
          \/ Len(l) = 1 /\ pc = "exec" /\ k = "normal"
      BY <3>2
    <3> HIDE DEF pc
    <3> QED BY <2>1, <3>3
  <2> HIDE DEF pc, l
  <2>3. pc \in EmtPcs  BY <2>2 DEF EmtPcs
  <2>4. /\ some \in EmtType /\ some.pc = pc /\ some.kind = k /\ some.q = q
        /\ some.req = Last(l) /\ some.list = Front(l)
    BY <1>1, <2>1, <2>3 DEF EmtType
  <2>5. emt' = [emt EXCEPT ![c] = some]  BY <1>2, <1>5
  <2> HIDE DEF some
  <2>6. /\ emt' \in [Cpus -> EmtType] /\ \A b \in Cpus \ {c} : emt'[b] = emt[b]
        /\ emt'[c] = some
    BY <1>1, <2>4, <2>5, Becomes
  <2>7. /\ emt'[c].kind = k /\ emt'[c].q = q
        /\ emt'[c].req = Last(l) /\ emt'[c].list = Front(l)
        /\ \/ emt'[c].pc = "pushback"
           \/ emt'[c].pc = "peek" /\ k = "priority" /\ Front(l) = <<>>
           \/ emt'[c].pc = "exec" /\ k = "normal" /\ Front(l) = <<>>
    BY <2>2, <2>4, <2>6
  <2> QED BY <1>1, <1>2, <1>3, <1>5, <2>6, <2>7 DEF l
<1> QED BY <1>4, <1>5

LEMMA EmtTypeInv ==
  ASSUME IInv, NEW c \in Cpus, EmtNext(c) \/ StartWait(c) \/ Timeout(c)
  PROVE  /\ TypeOK' /\ emt' \in [Cpus -> EmtType]
         /\ \A b \in Cpus \ {c} : emt'[b] = emt[b]
         /\ \A b \in Cpus \ {c} : fWait'[b] = fWait[b] /\ semWait'[b] = semWait[b]
<1>0. /\ TypeOK /\ emt[c] \in EmtType /\ emt[c].q \in Dests /\ emt[c].kind \in Kinds
      /\ emt[c].list \in Seq(Packets)
      /\ emt[c].pc \in HandPcs \union ServicePcs => emt[c].req \in Packets
      /\ req \in [Packets -> ReqType] /\ vmState \in {"RUNNING", "SUSPENDED"}
      /\ event \in [Packets -> BOOLEAN] /\ ff \in [Dests -> BOOLEAN]
      /\ reqs \in [Dests -> [Kinds -> Seq(Packets)]]
      /\ fWait \in [Cpus -> BOOLEAN] /\ semWait \in [Cpus -> BOOLEAN]
      /\ ran \in [Packets -> Seq(Cpus)]
  BY Types, Held DEF IInv, TypeOK
<1>1. ASSUME NEW pc \in EmtPcs, EmtGo(c, pc)
      PROVE  emt' \in [Cpus -> EmtType] /\ \A b \in Cpus \ {c} : emt'[b] = emt[b]
  BY <1>0, <1>1, Goes
<1>2. CASE Serve(c)
  <2>1. PICK d \in {VMCPUID_ANY, c} :
          emt' = [emt EXCEPT ![c] = [EmtTop EXCEPT !.pc = "clear", !.q = d]]
    BY <1>2 DEF Serve
  <2>2. d \in Dests  BY DEF Dests
  <2>3. [EmtTop EXCEPT !.pc = "clear", !.q = d] \in EmtType  BY Zenon, <2>2, Begins
  <2>4. emt' \in [Cpus -> EmtType] /\ \A b \in Cpus \ {c} : emt'[b] = emt[b]
    BY <1>0, <2>1, <2>3, Becomes
  <2> QED BY <1>0, <1>2, <2>4, EmtTypes DEF Serve
<1>3. CASE StartWait(c)
  <2>1. emt' \in [Cpus -> EmtType] /\ \A b \in Cpus \ {c} : emt'[b] = emt[b]
    BY <1>1, <1>3 DEF StartWait, EmtPcs
  <2> QED BY <1>0, <1>3, <2>1, EmtTypes DEF StartWait
<1>4. CASE SetWait(c)
  <2>1. emt' \in [Cpus -> EmtType] /\ \A b \in Cpus \ {c} : emt'[b] = emt[b]
    BY <1>1, <1>4 DEF SetWait, EmtPcs
  <2> QED BY <1>0, <1>4, <2>1, EmtTypes DEF SetWait
<1>5. CASE CheckFF(c)
  <2>1. emt' \in [Cpus -> EmtType] /\ \A b \in Cpus \ {c} : emt'[b] = emt[b]
    BY <1>1, <1>5 DEF CheckFF, EmtPcs
  <2> QED BY <1>0, <1>5, <2>1, EmtTypes DEF CheckFF
<1>6. CASE Wake(c)
  <2>1. emt' \in [Cpus -> EmtType] /\ \A b \in Cpus \ {c} : emt'[b] = emt[b]
    BY <1>1, <1>6 DEF Wake, EmtPcs
  <2> QED BY <1>0, <1>6, <2>1, EmtTypes DEF Wake
<1>7. CASE Timeout(c)
  <2>1. emt' \in [Cpus -> EmtType] /\ \A b \in Cpus \ {c} : emt'[b] = emt[b]
    BY <1>1, <1>7 DEF Timeout, EmtPcs
  <2> QED BY <1>0, <1>7, <2>1, EmtTypes DEF Timeout
<1>8. CASE ClearFF(c)
  <2>1. emt' \in [Cpus -> EmtType] /\ \A b \in Cpus \ {c} : emt'[b] = emt[b]
    BY <1>1, <1>8 DEF ClearFF, EmtPcs, Kinds
  <2> QED BY <1>0, <1>8, <2>1, EmtTypes DEF ClearFF
<1>9. ASSUME NEW k \in Kinds, Take(c, k)
      PROVE  /\ TypeOK' /\ emt' \in [Cpus -> EmtType]
             /\ \A b \in Cpus \ {c} : emt'[b] = emt[b]
             /\ \A b \in Cpus \ {c} : fWait'[b] = fWait[b] /\ semWait'[b] = semWait[b]
  <2>1. emt' \in [Cpus -> EmtType] /\ \A b \in Cpus \ {c} : emt'[b] = emt[b]
    BY <1>9, TakeFacts
  <2>2. reqs' = [reqs EXCEPT ![emt[c].q] = [@ EXCEPT ![k] = <<>>]]  BY <1>9, TakeFacts
  <2>3. reqs' \in [Dests -> [Kinds -> Seq(Packets)]]  BY <1>0, <2>2, Idles
  <2> QED BY <1>0, <1>9, <2>1, <2>3, EmtTypes DEF Take
<1>10. CASE Peek(c)
  <2>1. emt' \in [Cpus -> EmtType] /\ \A b \in Cpus \ {c} : emt'[b] = emt[b]
    BY <1>1, <1>10 DEF Peek, EmtPcs
  <2> QED BY <1>0, <1>10, <2>1, EmtTypes DEF Peek
<1>11. CASE PushBack(c)
  <2> DEFINE q == emt[c].q
             k == emt[c].kind
             r == [emt[c] EXCEPT !.pc = "setff", !.list = <<>>]
  <2>1. r \in EmtType  BY <1>0, Idles DEF EmtType, EmtPcs
  <2>2. CASE reqs[q][k] = <<>>
    <3>1. reqs' = [reqs EXCEPT ![q] = [@ EXCEPT ![k] = emt[c].list]]
      BY <1>0, <1>11, <2>2 DEF PushBack
    <3>2. emt' = [emt EXCEPT ![c] = r]  BY <1>0, <1>11, <2>2 DEF PushBack, EmtType
    <3> HIDE DEF r
    <3>3. emt' \in [Cpus -> EmtType] /\ \A b \in Cpus \ {c} : emt'[b] = emt[b]
      BY <1>0, <2>1, <3>2, Becomes
    <3>4. reqs' \in [Dests -> [Kinds -> Seq(Packets)]]  BY <1>0, <3>1
    <3> QED BY <1>0, <1>11, <3>3, <3>4, EmtTypes DEF PushBack
  <2>3. CASE reqs[q][k] # <<>>
    <3>1. emt' \in [Cpus -> EmtType] /\ \A b \in Cpus \ {c} : emt'[b] = emt[b]
      BY <1>1, <1>11, <2>3 DEF PushBack, EmtPcs
    <3> QED BY <1>0, <1>11, <2>3, <3>1, EmtTypes DEF PushBack
  <2> QED BY <2>2, <2>3
<1>12. CASE Retake(c)
  <2> DEFINE q == emt[c].q
             k == emt[c].kind
             l == Joined(reqs[q][k], emt[c].list)
             r == [emt[c] EXCEPT !.pc = "pushback", !.list = l]
  <2>1. reqs[q][k] \in Seq(Packets)  BY <1>0
  <2>2. l \in Seq(Packets)  BY <1>0, <2>1, ConcatProperties DEF Joined
  <2>3. reqs' = [reqs EXCEPT ![q] = [@ EXCEPT ![k] = <<>>]]  BY <1>0, <1>12 DEF Retake
  <2>4. emt' = [emt EXCEPT ![c] = r]  BY <1>0, <1>12 DEF Retake, EmtType
  <2> HIDE DEF l
  <2>5. r \in EmtType  BY <1>0, <2>2 DEF EmtType, EmtPcs
  <2> HIDE DEF r
  <2>6. emt' \in [Cpus -> EmtType] /\ \A b \in Cpus \ {c} : emt'[b] = emt[b]
    BY <1>0, <2>4, <2>5, Becomes
  <2>7. reqs' \in [Dests -> [Kinds -> Seq(Packets)]]  BY <1>0, <2>3, Idles
  <2> QED BY <1>0, <1>12, <2>6, <2>7, EmtTypes DEF Retake
<1>13. CASE ReqSetFF(c)
  <2>1. emt' \in [Cpus -> EmtType] /\ \A b \in Cpus \ {c} : emt'[b] = emt[b]
    BY <1>1, <1>13 DEF ReqSetFF, EmtPcs
  <2> QED BY <1>0, <1>13, <2>1, EmtTypes DEF ReqSetFF
<1>14. CASE Exec(c)
  <2> DEFINE p == emt[c].req
             r == [emt[c] EXCEPT !.pc = "complete", !.em = req[p].em]
  <2>1. p \in Packets /\ req[p].em \in BOOLEAN
    BY <1>0, <1>14 DEF Exec, EmtAt, HandPcs, ReqType
  <2>2. emt' = [emt EXCEPT ![c] = r]  BY <1>0, <1>14 DEF Exec, EmtType
  <2>3. r \in EmtType  BY <1>0, <2>1 DEF EmtType, EmtPcs
  <2> HIDE DEF r
  <2>4. emt' \in [Cpus -> EmtType] /\ \A b \in Cpus \ {c} : emt'[b] = emt[b]
    BY <1>0, <2>2, <2>3, Becomes
  <2>5. req' \in [Packets -> ReqType]
    BY <1>0, <1>14, <2>1, States1 DEF Exec, States
  <2>6. vmState' \in {"RUNNING", "SUSPENDED"}  BY <1>0, <1>14 DEF Exec
  <2>7. ran' \in [Packets -> Seq(Cpus)]
    <3>1. ran[p] \in Seq(Cpus)  BY <1>0, <2>1
    <3>2. Append(ran[p], c) \in Seq(Cpus)  BY <3>1, AppendProperties
    <3> QED BY <1>0, <1>14, <3>2 DEF Exec
  <2> QED BY <1>0, <1>14, <2>4, <2>5, <2>6, <2>7, EmtTypes DEF Exec
<1>15. CASE Complete(c)
  <2>1. emt' \in [Cpus -> EmtType] /\ \A b \in Cpus \ {c} : emt'[b] = emt[b]
    BY <1>1, <1>15 DEF Complete, EmtPcs
  <2>2. req' \in [Packets -> ReqType]
    BY <1>0, <1>15, States1 DEF Complete, EmtAt, ServicePcs, States
  <2> QED BY <1>0, <1>15, <2>1, <2>2, EmtTypes DEF Complete
<1>16. CASE Flags(c)
  <2>1. emt' \in [Cpus -> EmtType] /\ \A b \in Cpus \ {c} : emt'[b] = emt[b]
    BY <1>0, <1>1, <1>16, Resumes DEF Flags, EmtPcs
  <2>2. req' \in [Packets -> ReqType]
    <3>1. emt[c].req \in Packets  BY <1>0, <1>16 DEF Flags, EmtAt, ServicePcs
    <3>2. CASE VMR3ReqFree(emt[c].req)  BY <1>0, <3>1, <3>2, Freed, States1
    <3>3. CASE req' = [req EXCEPT ![emt[c].req].fEventSemClear = FALSE]
      BY <1>0, <3>1, <3>3, Clears
    <3> QED BY <1>16, <3>2, <3>3 DEF Flags
  <2> QED BY <1>0, <1>16, <2>1, <2>2, EmtTypes DEF Flags
<1>17. CASE Signal(c)
  <2>1. emt' \in [Cpus -> EmtType] /\ \A b \in Cpus \ {c} : emt'[b] = emt[b]
    BY <1>0, <1>17, Resumes DEF Signal
  <2> QED BY <1>0, <1>17, <2>1, EmtTypes DEF Signal
<1> QED BY <1>2, <1>3, <1>4, <1>5, <1>6, <1>7, <1>8, <1>9, <1>10, <1>11, <1>12, <1>13,
           <1>14, <1>15, <1>16, <1>17 DEF EmtNext, Process

-----------------------------------------------------------------------------
(* What an EMT holds. *)

\* The helper either gives the others back or finds that more has been pushed.
LEMMA PushBackFacts ==
  ASSUME IInv, NEW c \in Cpus, PushBack(c)
  PROVE  LET q == emt[c].q
             k == emt[c].kind IN
         /\ q \in Dests /\ k \in Kinds /\ emt[c].pc = "pushback"
         /\ emt'[c].q = q /\ emt'[c].kind = k /\ emt'[c].req = emt[c].req
         /\ \A b \in Cpus \ {c} : emt'[b] = emt[b]
         /\ reqs[q][k] = <<>> =>
              /\ reqs' = [reqs EXCEPT ![q] = [@ EXCEPT ![k] = emt[c].list]]
              /\ emt'[c].pc = "setff" /\ emt'[c].list = <<>>
         /\ reqs[q][k] # <<>> =>
              reqs' = reqs /\ emt'[c].pc = "retake" /\ emt'[c].list = emt[c].list
<1> DEFINE q == emt[c].q
           k == emt[c].kind
           r == [emt[c] EXCEPT !.pc = "setff", !.list = <<>>]
<1>1. /\ TypeOK /\ emt \in [Cpus -> EmtType] /\ emt[c] \in EmtType /\ q \in Dests /\ k \in Kinds
      /\ reqs \in [Dests -> [Kinds -> Seq(Packets)]]
  BY Types DEF IInv, TypeOK
<1>2. emt[c].pc = "pushback"  BY DEF PushBack, EmtAt
<1>3. CASE reqs[q][k] = <<>>
  <2>1. reqs' = [reqs EXCEPT ![q] = [@ EXCEPT ![k] = emt[c].list]]
    BY <1>1, <1>3 DEF PushBack
  <2>2. emt' = [emt EXCEPT ![c] = r]  BY <1>1, <1>3 DEF PushBack, EmtType
  <2>3. /\ r \in EmtType /\ r.pc = "setff" /\ r.q = q /\ r.kind = k /\ r.req = emt[c].req
        /\ r.list = <<>>
    BY <1>1, Idles DEF EmtType, EmtPcs
  <2> HIDE DEF r
  <2>4. emt'[c] = r /\ \A b \in Cpus \ {c} : emt'[b] = emt[b]
    BY <1>1, <2>2, <2>3, Becomes
  <2> QED BY <1>1, <1>2, <1>3, <2>1, <2>3, <2>4
<1>4. CASE reqs[q][k] # <<>>
  <2>1. reqs' = reqs /\ EmtGo(c, "retake")  BY <1>4 DEF PushBack
  <2>2. "retake" \in EmtPcs  BY DEF EmtPcs
  <2>3. /\ emt'[c].pc = "retake" /\ emt'[c].q = q /\ emt'[c].kind = k
        /\ emt'[c].list = emt[c].list /\ emt'[c].req = emt[c].req
        /\ \A b \in Cpus \ {c} : emt'[b] = emt[b]
    BY SMTT(40), <1>1, <2>1, <2>2, Goes
  <2> QED BY <1>1, <1>2, <1>4, <2>1, <2>3
<1> QED BY <1>3, <1>4

\* The packets taken at last are put before those taken first.
LEMMA RetakeFacts ==
  ASSUME IInv, NEW c \in Cpus, Retake(c)
  PROVE  LET q == emt[c].q
             k == emt[c].kind
             l == reqs[q][k] \o emt[c].list IN
         /\ q \in Dests /\ k \in Kinds /\ emt[c].pc = "retake"
         /\ emt'[c].pc = "pushback" /\ emt'[c].q = q /\ emt'[c].kind = k
         /\ emt'[c].req = emt[c].req /\ emt'[c].list = l
         /\ \A b \in Cpus \ {c} : emt'[b] = emt[b]
         /\ reqs' = [reqs EXCEPT ![q] = [@ EXCEPT ![k] = <<>>]]
         /\ l \in Seq(Packets) /\ IsInjective(l)
         /\ Range(l) = Range(reqs[q][k]) \union Range(emt[c].list) /\ emt[c].req \notin Range(l)
<1> DEFINE q == emt[c].q
           k == emt[c].kind
           l == reqs[q][k] \o emt[c].list
           r == [emt[c] EXCEPT !.pc = "pushback", !.list = l]
<1>1. /\ TypeOK /\ emt \in [Cpus -> EmtType] /\ emt[c] \in EmtType /\ q \in Dests /\ k \in Kinds
      /\ reqs \in [Dests -> [Kinds -> Seq(Packets)]] /\ emt[c].list \in Seq(Packets)
      /\ reqs[q][k] \in Seq(Packets)
  BY Types DEF IInv, TypeOK
<1>2. emt[c].pc = "retake"  BY DEF Retake, EmtAt
<1>3. /\ IsInjective(emt[c].list) /\ emt[c].req \notin Range(emt[c].list)
      /\ Hand(c) = Range(emt[c].list) \union {emt[c].req}
  BY <1>2 DEF IInv, EmtOK, HandPcs, Hand
<1>4. IsInjective(reqs[q][k])  BY <1>1 DEF IInv, ListsOK
<1>5. \A p \in Hand(c) : p \notin Range(reqs[q][k])  BY <1>1 DEF IInv, ListsOK
<1>6. /\ l \in Seq(Packets) /\ IsInjective(l)
      /\ Range(l) = Range(reqs[q][k]) \union Range(emt[c].list)
  <2>1. Range(reqs[q][k]) \cap Range(emt[c].list) = {}  BY <1>3, <1>5
  <2> QED BY <1>1, <1>3, <1>4, <2>1, JoinedFacts
<1>7. emt[c].req \notin Range(l)  BY <1>3, <1>5, <1>6
<1>8. reqs' = [reqs EXCEPT ![q] = [@ EXCEPT ![k] = <<>>]]  BY <1>1 DEF Retake
<1>9. emt' = [emt EXCEPT ![c] = r]  BY <1>1 DEF Retake, Joined, EmtType
<1> HIDE DEF l
<1>10. /\ r \in EmtType /\ r.pc = "pushback" /\ r.q = q /\ r.kind = k /\ r.req = emt[c].req
       /\ r.list = l
  BY <1>1, <1>6 DEF EmtType, EmtPcs
<1> HIDE DEF r
<1>11. emt'[c] = r /\ \A b \in Cpus \ {c} : emt'[b] = emt[b]  BY <1>1, <1>9, <1>10, Becomes
<1>12. /\ emt'[c].pc = "pushback" /\ emt'[c].q = q /\ emt'[c].kind = k
       /\ emt'[c].req = emt[c].req /\ emt'[c].list = l
  BY <1>10, <1>11
<1> QED BY <1>1, <1>2, <1>6, <1>7, <1>8, <1>11, <1>12 DEF l

LEMMA ExecFacts ==
  ASSUME IInv, NEW c \in Cpus, Exec(c)
  PROVE  LET p == emt[c].req IN
         /\ p \in Packets /\ emt[c].pc = "exec" /\ emt[c].list = <<>> /\ Hand(c) = {p}
         /\ emt'[c].pc = "complete" /\ emt'[c].q = emt[c].q /\ emt'[c].req = p
         /\ \A b \in Cpus \ {c} : emt'[b] = emt[b]
         /\ SetState(p, "PROCESSING") /\ ran' = [ran EXCEPT ![p] = Append(@, c)]
         /\ UNCHANGED <<event, reqs, ff, fWait, semWait, client, calls>>
<1> DEFINE p == emt[c].req
           r == [emt[c] EXCEPT !.pc = "complete", !.em = req[p].em]
<1>1. /\ TypeOK /\ emt \in [Cpus -> EmtType] /\ emt[c] \in EmtType
      /\ emt[c].pc = "exec" /\ p \in Packets /\ emt[c].list = <<>>
  BY Types DEF IInv, EmtOK, Exec, EmtAt, HandPcs
<1>2. Hand(c) = {p}
  <2>1. Range(emt[c].list) = {}  BY <1>1, NoneIn
  <2> QED BY <1>1, <2>1 DEF Hand, HandPcs
<1>3. emt' = [emt EXCEPT ![c] = r]  BY <1>1 DEF Exec, EmtType
<1>4. r \in EmtType /\ r.pc = "complete" /\ r.q = emt[c].q /\ r.req = p
  <2>1. req[p] \in ReqType  BY <1>1, Types
  <2>2. req[p].em \in BOOLEAN  BY <2>1 DEF ReqType
  <2> QED BY <1>1, <2>2 DEF EmtType, EmtPcs
<1> HIDE DEF r
<1>5. emt'[c] = r /\ \A b \in Cpus \ {c} : emt'[b] = emt[b]  BY <1>1, <1>3, <1>4, Becomes
<1> QED BY <1>1, <1>2, <1>4, <1>5 DEF Exec

LEMMA EmtInv ==
  ASSUME IInv, NEW c \in Cpus, EmtNext(c) \/ StartWait(c) \/ Timeout(c)
  PROVE  \A b \in Cpus : EmtOK(b)'
<1>0. TypeOK /\ (\A b \in Cpus : EmtOK(b)) /\ emt[c].kind \in Kinds  BY Types DEF IInv
<1>1. \A b \in Cpus \ {c} : EmtOK(b)'
  <2>1. \A b \in Cpus \ {c} : emt'[b] = emt[b] /\ fWait'[b] = fWait[b]  BY EmtTypeInv
  <2> QED BY <1>0, <2>1 DEF EmtOK
<1>2. SUFFICES EmtOK(c)'  BY <1>1
<1>3. EmtOK(c)  BY <1>0
<1>4. "priority" \notin HandPcs \union ServicePcs /\ "normal" \notin HandPcs \union ServicePcs
  BY DEF HandPcs, ServicePcs
<1>5. CASE Serve(c)
  <2>1. PICK d \in {VMCPUID_ANY, c} :
          emt' = [emt EXCEPT ![c] = [EmtTop EXCEPT !.pc = "clear", !.q = d]]
    BY <1>5 DEF Serve
  <2>2. d \in Dests  BY DEF Dests
  <2>3. /\ [EmtTop EXCEPT !.pc = "clear", !.q = d] \in EmtType
        /\ [EmtTop EXCEPT !.pc = "clear", !.q = d].pc = "clear"
        /\ [EmtTop EXCEPT !.pc = "clear", !.q = d].q = d
    BY Zenon, <2>2, Begins
  <2>4. emt'[c].pc = "clear" /\ emt'[c].q = d  BY <1>0, <2>1, <2>3, Becomes
  <2> QED BY <2>4 DEF EmtOK, HandPcs, ServicePcs
<1>6. ASSUME NEW pc \in EmtPcs, EmtGo(c, pc),
             pc \in HandPcs \union ServicePcs => emt[c].pc \in HandPcs \union ServicePcs,
             pc \in HandPcs => emt[c].pc \in HandPcs,
             pc \in {"peek", "setff", "exec"} => emt[c].pc \in {"peek", "setff", "exec"},
             pc \in {"check", "sleep"} => fWait'[c]
      PROVE  EmtOK(c)'
  BY <1>0, <1>3, <1>6, Goes DEF EmtOK
<1>7. CASE StartWait(c)  BY <1>6, <1>7 DEF StartWait, EmtPcs, HandPcs, ServicePcs
<1>8. CASE SetWait(c)
  <2>1. fWait'[c]  BY <1>0, <1>8 DEF SetWait, TypeOK
  <2> QED BY <1>6, <1>8, <2>1 DEF SetWait, EmtPcs, HandPcs, ServicePcs
<1>9. CASE CheckFF(c)
  <2>1. fWait[c]  BY <1>3, <1>9 DEF CheckFF, EmtAt, EmtOK
  <2> QED BY <1>6, <1>9, <2>1 DEF CheckFF, EmtPcs, HandPcs, ServicePcs
<1>10. CASE Wake(c) \/ Timeout(c)
  <2>1. fWait[c] /\ fWait' = fWait  BY <1>3, <1>10 DEF Wake, Timeout, EmtAt, EmtOK
  <2> QED BY <1>6, <1>10, <2>1 DEF Wake, Timeout, EmtPcs, HandPcs, ServicePcs
<1>11. CASE ClearFF(c)
  BY <1>6, <1>11 DEF ClearFF, EmtPcs, Kinds, HandPcs, ServicePcs
<1>12. ASSUME NEW k \in Kinds, Take(c, k) PROVE EmtOK(c)'
  <2> DEFINE l == reqs[emt[c].q][k]
  <2>1. CASE l = <<>>
    <3>1. emt'[c].pc \in {"normal", "top"} /\ emt'[c].q \in {VMCPUID_ANY, emt[c].q}
      BY <1>12, <2>1, TakeFacts
    <3> QED BY <1>3, <3>1 DEF EmtOK, HandPcs, ServicePcs
  <2>2. CASE l # <<>>
    <3>1. /\ l \in Seq(Packets) /\ IsInjective(l)
          /\ emt'[c].q = emt[c].q /\ emt'[c].req = Last(l) /\ emt'[c].list = Front(l)
          /\ emt'[c].pc \in {"pushback", "peek", "exec"}
          /\ emt'[c].pc # "pushback" => Front(l) = <<>>
      BY ZenonT(60), <1>12, <2>2, TakeFacts
    <3>2. Last(l) \in Packets /\ IsInjective(Front(l)) /\ Last(l) \notin Range(Front(l))
      BY <2>2, <3>1, FrontLast
    <3> HIDE DEF l
    <3> QED BY <1>3, <3>1, <3>2 DEF EmtOK, HandPcs, ServicePcs
  <2> QED BY <2>1, <2>2
<1>13. CASE Peek(c)
  BY <1>6, <1>13 DEF Peek, EmtAt, EmtPcs, HandPcs, ServicePcs
<1>14. CASE PushBack(c)
  <2>1. emt[c].pc = "pushback" /\ emt'[c].q = emt[c].q /\ emt'[c].req = emt[c].req
    BY <1>14, PushBackFacts
  <2>2. \/ emt'[c].pc = "setff" /\ emt'[c].list = <<>>
        \/ emt'[c].pc = "retake" /\ emt'[c].list = emt[c].list
    BY <1>14, PushBackFacts
  <2>3. Range(<<>>) = {} /\ IsInjective(<<>>)  BY NoneIn
  <2> QED BY <1>3, <2>1, <2>2, <2>3 DEF EmtOK, HandPcs, ServicePcs
<1>15. CASE Retake(c)
  <2>1. /\ emt[c].pc = "retake" /\ emt'[c].pc = "pushback" /\ emt'[c].q = emt[c].q
        /\ emt'[c].req = emt[c].req
        /\ IsInjective(emt'[c].list) /\ emt[c].req \notin Range(emt'[c].list)
    BY <1>15, RetakeFacts
  <2> QED BY <1>3, <2>1 DEF EmtOK, HandPcs, ServicePcs
<1>16. CASE ReqSetFF(c)
  BY <1>6, <1>16 DEF ReqSetFF, EmtAt, EmtPcs, HandPcs, ServicePcs
<1>17. CASE Exec(c)
  <2>1. emt'[c].pc = "complete" /\ emt'[c].q = emt[c].q /\ emt'[c].req \in Packets
    BY <1>17, ExecFacts
  <2> QED BY <1>3, <2>1 DEF EmtOK, HandPcs, ServicePcs
<1>18. CASE Complete(c)
  BY <1>6, <1>18 DEF Complete, EmtAt, EmtPcs, HandPcs, ServicePcs
<1>19. ASSUME Resume(c) PROVE EmtOK(c)'
  <2>1. emt'[c].pc \in {"top", "clear"} /\ emt'[c].q \in {VMCPUID_ANY, emt[c].q}
    BY <1>0, <1>19, Resumes
  <2> QED BY <1>3, <2>1 DEF EmtOK, HandPcs, ServicePcs
<1>20. CASE Flags(c)
  BY <1>6, <1>19, <1>20 DEF Flags, EmtAt, EmtPcs, HandPcs, ServicePcs
<1>21. CASE Signal(c)  BY <1>19, <1>21 DEF Signal
<1> QED BY <1>5, <1>7, <1>8, <1>9, <1>10, <1>11, <1>12, <1>13, <1>14, <1>15, <1>16, <1>17,
           <1>18, <1>20, <1>21 DEF EmtNext, Process

-----------------------------------------------------------------------------
(* Calls, notifications, force flags and sleep. *)

\* How a step of client u other than VMR3ReqAllocU and CheckState changes it.
LEMMA ClientMoves ==
  ASSUME IInv, NEW u \in Clients, VMR3ReqAllocU(u) \/ ClientNext(u)
  PROVE  /\ \A v \in Clients \ {u} : client'[v] = client[v]
         /\ Queue(u) => /\ client'[u].pc = "setff" /\ client'[u].req = client[u].req
                        /\ client'[u].noWait = client[u].noWait
                        /\ client'[u].todo = client[u].todo
                        /\ client'[u].notify = client[u].notify
         /\ SetFF(u) => /\ client'[u].pc = "notify" /\ client'[u].req = client[u].req
                        /\ client'[u].noWait = client[u].noWait
                        /\ client'[u].todo = client[u].todo
                        /\ client'[u].notify = IF Head(client[u].todo) = VMCPUID_ANY
                                               THEN AllCpus ELSE <<Head(client[u].todo)>>
         /\ NotifyFF(u) =>
              \/ /\ More(client[u].notify)
                 /\ client'[u].notify = Tail(client[u].notify)
                 /\ client'[u].pc = "notify" /\ client'[u].req = client[u].req
                 /\ client'[u].noWait = client[u].noWait
                 /\ client'[u].todo = client[u].todo
              \/ ~More(client[u].notify) /\ client[u].noWait /\ client'[u] = Idle
              \/ /\ ~More(client[u].notify) /\ ~client[u].noWait
                 /\ client'[u].notify = <<>> /\ client'[u].pc \in {"poll", "wait"}
                 /\ client'[u].req = client[u].req /\ client'[u].noWait = client[u].noWait
                 /\ client'[u].todo = client[u].todo
<1>1. /\ client \in [Clients -> ClientType] /\ client[u] \in ClientType
  BY SMTT(40), Types DEF IInv
<1>2. \A v \in Clients \ {u} : client'[v] = client[v]
  BY ZenonT(60), <1>1
    DEF VMR3ReqAllocU, ClientNext, Queue, SetFF, NotifyFF, Poll, WaitEvent, CheckState,
              Free, ClientGo
<1>3. ASSUME Queue(u)
      PROVE  client'[u] = [client[u] EXCEPT !.pc = "setff"]
  BY <1>1, <1>3 DEF Queue, ClientGo
<1>4. ASSUME SetFF(u)
      PROVE  client'[u] = [client[u] EXCEPT !.pc = "notify",
                             !.notify = IF Head(client[u].todo) = VMCPUID_ANY
                                        THEN AllCpus ELSE <<Head(client[u].todo)>>]
  BY <1>1, <1>4 DEF SetFF
<1>5. ASSUME NotifyFF(u)
      PROVE  \/ /\ More(client[u].notify)
                /\ client'[u] = [client[u] EXCEPT !.notify = Tail(client[u].notify)]
             \/ ~More(client[u].notify) /\ client[u].noWait /\ client'[u] = Idle
             \/ /\ ~More(client[u].notify) /\ ~client[u].noWait
                /\ client'[u] = [client[u] EXCEPT !.notify = <<>>,
                                   !.pc = IF u \in Pollers THEN "poll" ELSE "wait"]
  <2>1. client' = [client EXCEPT ![u] =
          CASE More(client[u].notify) -> [client[u] EXCEPT !.notify = Tail(client[u].notify)]
            [] ~More(client[u].notify) /\ client[u].noWait -> Idle
            [] OTHER -> [client[u] EXCEPT !.notify = <<>>,
                                          !.pc = IF u \in Pollers THEN "poll" ELSE "wait"]]
    BY <1>1, <1>5 DEF NotifyFF
  <2>2. CASE More(client[u].notify)  BY <1>1, <2>1, <2>2
  <2>3. CASE ~More(client[u].notify) /\ client[u].noWait  BY <1>1, <2>1, <2>3
  <2>4. CASE ~More(client[u].notify) /\ ~client[u].noWait  BY <1>1, <2>1, <2>4
  <2> QED BY <2>2, <2>3, <2>4
<1>6. NotifyFF(u) => client[u].pc = "notify"  BY DEF NotifyFF, ClientAt
<1>7. Queue(u) => /\ client'[u].pc = "setff" /\ client'[u].req = client[u].req
                  /\ client'[u].noWait = client[u].noWait
                  /\ client'[u].todo = client[u].todo
                  /\ client'[u].notify = client[u].notify
  BY <1>1, <1>3 DEF ClientType
<1>8. SetFF(u) => /\ client'[u].pc = "notify" /\ client'[u].req = client[u].req
                  /\ client'[u].noWait = client[u].noWait
                  /\ client'[u].todo = client[u].todo
                  /\ client'[u].notify = IF Head(client[u].todo) = VMCPUID_ANY
                                         THEN AllCpus ELSE <<Head(client[u].todo)>>
  BY <1>1, <1>4 DEF ClientType
<1>9. ASSUME NotifyFF(u)
      PROVE  \/ /\ More(client[u].notify)
                /\ client'[u].notify = Tail(client[u].notify)
                /\ client'[u].pc = "notify" /\ client'[u].req = client[u].req
                /\ client'[u].noWait = client[u].noWait
                /\ client'[u].todo = client[u].todo
             \/ ~More(client[u].notify) /\ client[u].noWait /\ client'[u] = Idle
             \/ /\ ~More(client[u].notify) /\ ~client[u].noWait
                /\ client'[u].notify = <<>> /\ client'[u].pc \in {"poll", "wait"}
                /\ client'[u].req = client[u].req /\ client'[u].noWait = client[u].noWait
                /\ client'[u].todo = client[u].todo
  BY ZenonT(60), <1>1, <1>5, <1>6, <1>9 DEF ClientType
<1> QED BY <1>2, <1>7, <1>8, <1>9

\* The others: to wait, to look, to ask the next CPU, to return.
LEMMA ClientGoes ==
  ASSUME IInv, NEW u \in Clients, NEW pc \in ClientPcs, ClientGo(u, pc)
  PROVE  /\ client'[u].pc = pc /\ client'[u].req = client[u].req
         /\ client'[u].noWait = client[u].noWait /\ client'[u].todo = client[u].todo
         /\ client'[u].notify = client[u].notify
         /\ \A v \in Clients \ {u} : client'[v] = client[v]
<1>1. client \in [Clients -> ClientType] /\ client[u] \in ClientType  BY Types DEF IInv
<1>2. client'[u] = [client[u] EXCEPT !.pc = pc]  BY <1>1 DEF ClientGo
<1>3. \A v \in Clients \ {u} : client'[v] = client[v]  BY <1>1 DEF ClientGo
<1> QED BY <1>1, <1>2, <1>3 DEF ClientType

LEMMA NextCpu ==
  ASSUME IInv, NEW u \in Clients,
         client' = [client EXCEPT ![u].pc = "queue", ![u].todo = Tail(@)]
  PROVE  /\ client'[u].pc = "queue" /\ client'[u].req = client[u].req
         /\ client'[u].noWait = client[u].noWait /\ client'[u].todo = Tail(client[u].todo)
         /\ client'[u].notify = client[u].notify
<1>1. client \in [Clients -> ClientType] /\ client[u] \in ClientType  BY Types DEF IInv
<1>2. client'[u] = [client[u] EXCEPT !.pc = "queue", !.todo = Tail(client[u].todo)]
  BY <1>1 DEF ClientType
<1> QED BY <1>1, <1>2 DEF ClientType

LEMMA CallsInv ==
  ASSUME IInv, NEW u \in Clients, VMR3ReqAllocU(u) \/ ClientNext(u)
  PROVE  CallsOK'
<1>1. CallsOK /\ calls \in [Clients -> Seq(Call)]  BY DEF IInv, TypeOK
<1>2. CASE VMR3ReqAllocU(u)
  <2>1. calls[u] # <<>> /\ calls[u] \in Seq(Call) /\ calls' = [calls EXCEPT ![u] = Tail(@)]
    BY <1>1, <1>2 DEF VMR3ReqAllocU
  <2>2. \A v \in Clients \ {u} : calls'[v] = calls[v]  BY <1>1, <2>1
  <2>3. calls'[u] = Tail(calls[u])  BY <1>1, <2>1
  <2>4. ASSUME NEW i \in DOMAIN Tail(calls[u])
        PROVE  Tail(calls[u])[i].dst \notin Dests => ~Tail(calls[u])[i].noWait
    <3> DEFINE s == calls[u]
    <3>1. /\ Tail(s) \in Seq(Call) /\ Len(Tail(s)) = Len(s) - 1 /\ Len(s) \in Nat
          /\ \A j \in 1 .. Len(s) - 1 : Tail(s)[j] = s[j + 1]
      BY <2>1, TailFacts
    <3>2. DOMAIN Tail(s) = 1 .. Len(s) - 1 /\ DOMAIN s = 1 .. Len(s)
      BY <2>1, <3>1, LenProperties
    <3>3. i + 1 \in DOMAIN s /\ Tail(s)[i] = s[i + 1]  BY <3>1, <3>2
    <3> QED BY <1>1, <3>3 DEF CallsOK
  <2> QED BY <1>1, <2>2, <2>3, <2>4 DEF CallsOK
<1>3. CASE ClientNext(u)
  <2>1. calls' = calls
    BY Zenon, <1>3 DEF ClientNext, Queue, SetFF, NotifyFF, Poll, WaitEvent, CheckState, Free
  <2> QED BY SMTT(40), <1>1, <2>1 DEF CallsOK
<1> QED BY <1>2, <1>3

\* Nobody but the notifying client has a CPU to notify.
LEMMA NotifyInv ==
  ASSUME IInv, NEW u \in Clients, VMR3ReqAllocU(u) \/ ClientNext(u)
  PROVE  /\ NotifyOK'
         /\ ~NotifyFF(u) /\ ~SetFF(u) => client[u].notify = <<>> /\ client'[u].notify = <<>>
<1>0. NotifyOK /\ client \in [Clients -> ClientType]  BY Types DEF IInv
<1>1. \A v \in Clients \ {u} : client'[v] = client[v]  BY ClientMoves
<1>2. SUFFICES /\ client'[u].pc # "notify" => client'[u].notify = <<>>
               /\ ~NotifyFF(u) /\ ~SetFF(u) => client[u].notify = <<>> /\ client'[u].notify = <<>>
  BY <1>0, <1>1 DEF NotifyOK
<1>3. CASE VMR3ReqAllocU(u)
  <2>1. client'[u].notify = <<>>  BY <1>0, <1>3 DEF VMR3ReqAllocU
  <2>2. client[u].notify = <<>>  BY <1>0, <1>3 DEF VMR3ReqAllocU, ClientAt, NotifyOK
  <2> QED BY <2>1, <2>2
<1>4. CASE Queue(u)
  <2>1. client[u].notify = <<>>  BY <1>0, <1>4 DEF Queue, ClientAt, NotifyOK
  <2> QED BY <1>4, <2>1, ClientMoves
<1>5. CASE SetFF(u)  BY <1>5, ClientMoves
<1>6. CASE NotifyFF(u)  BY <1>6, ClientMoves, Idles
<1>7. ASSUME Poll(u) \/ WaitEvent(u) \/ CheckState(u) \/ Free(u)
      PROVE  client[u].notify = <<>> /\ client'[u].notify = <<>>
  <2>1. client[u].notify = <<>>
    BY <1>0, <1>7 DEF Poll, WaitEvent, CheckState, Free, ClientAt, NotifyOK
  <2>2. CASE \E pc \in ClientPcs : ClientGo(u, pc)  BY <2>1, <2>2, ClientGoes
  <2>3. CASE client' = [client EXCEPT ![u].pc = "queue", ![u].todo = Tail(@)]
    BY <2>1, <2>3, NextCpu
  <2>4. CASE client' = [client EXCEPT ![u] = Idle]  BY <1>0, <2>1, <2>4, Idles
  <2> QED BY <1>7, <2>2, <2>3, <2>4 DEF Poll, WaitEvent, CheckState, Free, ClientPcs
<1> QED BY <1>3, <1>4, <1>5, <1>6, <1>7 DEF ClientNext

\* Somebody is to raise the flag of d, or an EMT is to look at list k of d.
Watches(c, d, k) ==
  /\ emt[c].q = d
  /\ emt[c].pc \in {"clear", "priority", "pushback", "retake", "setff"}
                   \union IF k = "normal" THEN {"normal", "peek"} ELSE {}
Raises(u, d) == client[u].pc = "setff" /\ Head(client[u].todo) = d

Flagged(d, k) == \/ ff[d]
                 \/ \E u \in Clients : Raises(u, d)
                 \/ \E c \in Cpus : Watches(c, d, k)

LEMMA FlaggedFacts ==
  ASSUME PendingFlagged, NEW d \in Dests, NEW k \in Kinds, reqs[d][k] # <<>>
  PROVE  Flagged(d, k)
<1>1. \/ ff[d]
      \/ \E u \in Clients : client[u].pc = "setff" /\ Head(client[u].todo) = d
      \/ \E c \in Cpus : /\ emt[c].q = d
                         /\ emt[c].pc \in {"clear", "priority", "pushback", "retake", "setff"}
                                          \union IF k = "normal" THEN {"normal", "peek"} ELSE {}
  BY DEF PendingFlagged
<1> QED BY <1>1 DEF Flagged, Raises, Watches

LEMMA FlaggedNext ==
  ASSUME \A d \in Dests, k \in Kinds : reqs'[d][k] # <<>> => Flagged(d, k)'
  PROVE  PendingFlagged'
BY Zenon DEF PendingFlagged, Flagged, Raises, Watches

\* The requests of d are announced after a step of a client.
LEMMA FlagByClient ==
  ASSUME IInv, NEW u \in Clients, VMR3ReqAllocU(u) \/ ClientNext(u)
  PROVE  PendingFlagged'
<1>0. /\ PendingFlagged /\ TypeOK /\ reqs \in [Dests -> [Kinds -> Seq(Packets)]]
      /\ ff \in [Dests -> BOOLEAN] /\ req \in [Packets -> ReqType]
      /\ client \in [Clients -> ClientType]
  BY SMTT(40), Types DEF IInv, TypeOK
<1>1. \A v \in Clients \ {u} : client'[v] = client[v]  BY ClientMoves
<1>2. emt' = emt
  BY Zenon DEF VMR3ReqAllocU, ClientNext, Queue, SetFF, NotifyFF, Poll, WaitEvent, CheckState, Free
<1> DEFINE Stays == \A c \in Cpus, e \in Dests, l \in Kinds : Watches(c, e, l) => Watches(c, e, l)'
<1>21. Stays  BY <1>2 DEF Watches
<1> HIDE DEF Stays
<1>3. CASE Queue(u)
  <2> DEFINE k == req[client[u].req].kind
  <2>0. PICK d : d = Head(client[u].todo)  BY SMTT(40)
  <2>1. ff' = ff /\ client[u].pc = "queue"  BY Zenon, <1>3 DEF Queue, ClientAt
  <2>2. client'[u].pc = "setff" /\ Head(client'[u].todo) = d  BY <1>3, <2>0, ClientMoves
  <2>3. \A e \in Dests, l \in Kinds : e # d => reqs'[e][l] = reqs[e][l]
    BY <1>0, <1>3, <2>0 DEF Queue
  <2>4. \A v \in Clients, e \in Dests : e # d /\ Raises(v, e) => Raises(v, e)'
    BY <1>1, <2>1 DEF Raises
  <2>5. Raises(u, d)'  BY <2>2 DEF Raises
  <2>6. ASSUME NEW e \in Dests, NEW l \in Kinds, reqs'[e][l] # <<>> PROVE Flagged(e, l)'
    <3>1. CASE e = d  BY <2>5, <3>1 DEF Flagged
    <3>2. CASE e # d
      <4>1. Flagged(e, l)  BY <1>0, <2>3, <2>6, <3>2, FlaggedFacts
      <4> QED BY <2>1, <2>4, <3>2, <4>1, <1>21 DEF Flagged, Stays
    <3> QED BY <3>1, <3>2
  <2> QED BY <2>6, FlaggedNext
<1>4. CASE SetFF(u)
  <2> DEFINE d == Head(client[u].todo)
  <2>1. reqs' = reqs /\ ff' = [ff EXCEPT ![d] = TRUE]  BY <1>4 DEF SetFF
  <2>2. \A v \in Clients, e \in Dests : e # d /\ Raises(v, e) => Raises(v, e)'
    BY <1>1 DEF Raises
  <2> HIDE DEF d
  <2>3. \A e \in Dests : e = d \/ ff[e] => ff'[e]  BY <1>0, <2>1
  <2>4. ASSUME NEW e \in Dests, NEW l \in Kinds, reqs'[e][l] # <<>> PROVE Flagged(e, l)'
    <3>1. Flagged(e, l)  BY <1>0, <2>1, <2>4, FlaggedFacts
    <3> QED BY <2>2, <2>3, <3>1, <1>21 DEF Flagged, Stays
  <2> QED BY <2>4, FlaggedNext
<1>5. CASE ~Queue(u) /\ ~SetFF(u)
  <2>1. reqs' = reqs /\ ff' = ff /\ client[u].pc # "setff"
    BY <1>5 DEF VMR3ReqAllocU, ClientNext, NotifyFF, Poll, WaitEvent, CheckState, Free, ClientAt
  <2>2. \A v \in Clients, e \in Dests : Raises(v, e) => Raises(v, e)'
    BY <1>1, <2>1 DEF Raises
  <2>3. ASSUME NEW e \in Dests, NEW l \in Kinds, reqs'[e][l] # <<>> PROVE Flagged(e, l)'
    <3>1. Flagged(e, l)  BY <1>0, <2>1, <2>3, FlaggedFacts
    <3> QED BY <2>1, <2>2, <3>1, <1>21 DEF Flagged, Stays
  <2> QED BY <2>3, FlaggedNext
<1> QED BY <1>3, <1>4, <1>5

\* What must hold for list k of d when EMT c has moved.
LEMMA FlagByEmt ==
  ASSUME IInv, NEW c \in Cpus, EmtNext(c) \/ StartWait(c) \/ Timeout(c)
  PROVE  PendingFlagged'
<1>0. /\ PendingFlagged /\ TypeOK /\ reqs \in [Dests -> [Kinds -> Seq(Packets)]]
      /\ ff \in [Dests -> BOOLEAN] /\ emt[c].q \in Dests /\ emt[c].kind \in Kinds
      /\ Kinds = {"priority", "normal"}
  BY SMTT(40), Types DEF IInv, TypeOK, Kinds
<1>1. \A b \in Cpus \ {c} : emt'[b] = emt[b]  BY EmtTypeInv
<1>2. client' = client
  BY Zenon
    DEF EmtNext, Process, StartWait, Timeout, Serve, SetWait, CheckFF, Wake, ClearFF, Take, Peek,
         PushBack, Retake, ReqSetFF, Exec, Complete, Flags, Signal
<1>3. \A b \in Cpus \ {c}, d \in Dests, k \in Kinds : Watches(b, d, k) => Watches(b, d, k)'
  BY <1>1 DEF Watches
<1>4. \A d \in Dests, k \in Kinds : reqs[d][k] # <<>> => Flagged(d, k)
  BY <1>0, FlaggedFacts
<1>5. SUFFICES ASSUME NEW d \in Dests, NEW k \in Kinds, reqs'[d][k] # <<>>
               PROVE  Flagged(d, k)'
  BY FlaggedNext
<1>6. \A u \in Clients : Raises(u, d) => Raises(u, d)'  BY <1>2 DEF Raises
\* Nothing to show when the list is as it was and the EMT did not watch it, or still does.
<1>7. ASSUME reqs[d][k] # <<>>, ff[d] => ff'[d] \/ Watches(c, d, k)',
             Watches(c, d, k) => ff'[d] \/ Watches(c, d, k)'
      PROVE  Flagged(d, k)'
  BY <1>3, <1>4, <1>6, <1>7 DEF Flagged
<1>8. ASSUME Serve(c) \/ StartWait(c) \/ SetWait(c) \/ CheckFF(c) \/ Wake(c) \/ Timeout(c)
             \/ Exec(c) \/ Complete(c) \/ Flags(c) \/ Signal(c)
      PROVE  reqs' = reqs /\ ff' = ff /\ ~Watches(c, d, k)
  BY <1>0, <1>8 DEF Serve, StartWait, SetWait, CheckFF, Wake, Timeout, Exec, Complete, Flags,
                    Signal, EmtAt, Watches
<1>9. CASE ClearFF(c)
  <2>1. emt'[c].pc = "priority" /\ emt'[c].q = emt[c].q
    BY <1>0, <1>9, Goes DEF ClearFF, EmtPcs, Kinds
  <2>2. reqs' = reqs /\ \A e \in Dests : e # emt[c].q => ff'[e] = ff[e]
    BY <1>0, <1>9 DEF ClearFF
  <2>3. d = emt[c].q => Watches(c, d, k)'  BY <2>1 DEF Watches
  <2>4. d # emt[c].q => ~Watches(c, d, k)  BY DEF Watches
  <2> QED BY <1>5, <1>7, <2>2, <2>3, <2>4
<1>10. ASSUME NEW l \in Kinds, Take(c, l)
       PROVE  Flagged(d, k)'
  <2>1. /\ emt[c].pc = l /\ reqs' = [reqs EXCEPT ![emt[c].q] = [@ EXCEPT ![l] = <<>>]]
    BY <1>10, TakeFacts
  <2>2. ff' = ff  BY <1>10 DEF Take
  <2>3. reqs'[d][k] = IF d = emt[c].q /\ k = l THEN <<>> ELSE reqs[d][k]  BY <1>0, <2>1
  <2>4. reqs[d][k] # <<>> /\ ~(d = emt[c].q /\ k = l)  BY <1>5, <2>3
  <2>5. d # emt[c].q => ~Watches(c, d, k)  BY DEF Watches
  <2>6. ASSUME d = emt[c].q, Watches(c, d, k) PROVE Watches(c, d, k)'
    <3>1. l = "priority" /\ k = "normal"  BY <1>0, <2>1, <2>4, <2>6 DEF Watches
    <3>2. CASE reqs[emt[c].q][l] = <<>>
      <4>1. emt'[c].pc = "normal" /\ emt'[c].q = d  BY <1>10, <2>6, <3>1, <3>2, TakeFacts
      <4> QED BY <3>1, <4>1 DEF Watches
    <3>3. CASE reqs[emt[c].q][l] # <<>>
      <4>1. emt'[c].pc \in {"pushback", "peek"} /\ emt'[c].q = d
        BY <1>10, <2>6, <3>1, <3>3, TakeFacts
      <4> QED BY <3>1, <4>1 DEF Watches
    <3> QED BY <3>2, <3>3
  <2> QED BY <1>7, <2>2, <2>4, <2>5, <2>6
<1>11. CASE Peek(c)
  <2>1. reqs' = reqs /\ ff' = ff /\ emt[c].pc = "peek"  BY <1>11 DEF Peek, EmtAt
  <2>2. CASE reqs[emt[c].q]["normal"] # <<>>
    <3>1. EmtGo(c, "setff")  BY <1>11, <2>2 DEF Peek
    <3>2. emt'[c].pc = "setff" /\ emt'[c].q = emt[c].q  BY <1>0, <3>1, Goes DEF EmtPcs
    <3>3. Watches(c, d, k) => Watches(c, d, k)'  BY <3>2 DEF Watches
    <3> QED BY <1>5, <1>7, <2>1, <3>3
  <2>3. CASE reqs[emt[c].q]["normal"] = <<>>
    <3>1. ~Watches(c, d, k)  BY <1>5, <2>1, <2>3 DEF Watches
    <3> QED BY <1>5, <1>7, <2>1, <3>1
  <2> QED BY <2>2, <2>3
<1>12. CASE PushBack(c)
  <2>1. emt[c].pc = "pushback" /\ emt'[c].q = emt[c].q /\ emt'[c].pc \in {"setff", "retake"}
    BY <1>12, PushBackFacts
  <2>2. d = emt[c].q => Watches(c, d, k)'  BY <2>1 DEF Watches
  <2>3. d # emt[c].q => ~Watches(c, d, k) /\ reqs'[d][k] = reqs[d][k]
    BY <1>0, <1>12 DEF Watches, PushBack
  <2>4. ff' = ff  BY <1>12 DEF PushBack
  <2> QED BY <1>5, <1>7, <2>2, <2>3, <2>4 DEF Flagged
<1>13. CASE Retake(c)
  <2>1. emt'[c].q = emt[c].q /\ emt'[c].pc = "pushback"  BY <1>13, RetakeFacts
  <2>2. d = emt[c].q => Watches(c, d, k)'  BY <2>1 DEF Watches
  <2>3. d # emt[c].q => ~Watches(c, d, k) /\ reqs'[d][k] = reqs[d][k]
    BY <1>0, <1>13 DEF Watches, Retake
  <2>4. ff' = ff  BY <1>13 DEF Retake
  <2> QED BY <1>5, <1>7, <2>2, <2>3, <2>4 DEF Flagged
<1>14. CASE ReqSetFF(c)
  <2>1. reqs' = reqs /\ ff' = [ff EXCEPT ![emt[c].q] = TRUE]  BY <1>14 DEF ReqSetFF
  <2>2. (d = emt[c].q \/ ff[d]) => ff'[d]  BY <1>0, <2>1
  <2>3. d # emt[c].q => ~Watches(c, d, k)  BY DEF Watches
  <2> QED BY <1>5, <1>7, <2>1, <2>2, <2>3
<1> QED BY <1>5, <1>7, <1>8, <1>9, <1>10, <1>11, <1>12, <1>13, <1>14 DEF EmtNext, Process

-----------------------------------------------------------------------------
(* Sleep. *)

Servers(d) == IF d = VMCPUID_ANY THEN Cpus ELSE {d}

LEMMA ServersFacts ==
  /\ \A d \in Dests : Servers(d) \subseteq Cpus /\ Servers(d) # {}
  /\ \A d \in Dests, c \in Cpus : c \in Servers(d) <=> d \in {VMCPUID_ANY, c}
<1>1. 0 \in Cpus  BY CpusAssumption DEF Cpus
<1>2. VMCPUID_ANY \notin Cpus  BY DestsAssumption
<1> QED BY <1>1, <1>2 DEF Servers, Dests

\* A client that raises the flag of d is to notify all the EMTs that may serve d.
LEMMA WakeByClient ==
  ASSUME IInv, NEW u \in Clients, VMR3ReqAllocU(u) \/ ClientNext(u)
  PROVE  NoLostWakeup'
<1>0. /\ NoLostWakeup /\ TypeOK /\ ff \in [Dests -> BOOLEAN] /\ semWait \in [Cpus -> BOOLEAN]
      /\ \A c \in Cpus : emt[c].pc = "sleep" => fWait[c]
  BY DEF IInv, TypeOK, EmtOK
<1>1. \A v \in Clients \ {u} : client'[v] = client[v]  BY ClientMoves
<1>2. emt' = emt
  BY DEF VMR3ReqAllocU, ClientNext, Queue, SetFF, NotifyFF, Poll, WaitEvent, CheckState, Free
<1>3. CASE SetFF(u)
  <2> DEFINE d == Head(client[u].todo)
  <2>1. ff' = [ff EXCEPT ![d] = TRUE] /\ semWait' = semWait /\ client[u].pc = "setff"
    BY <1>3 DEF SetFF, ClientAt
  <2>2. d \in Dests
    <3>1. client[u].todo \in Seq(Dests) /\ client[u].todo # <<>>  BY <1>0, <2>1, Types DEF TypeOK
    <3> QED BY <3>1, TailFacts
  <2>3. client[u].notify = <<>>  BY <2>1 DEF IInv, NotifyOK
  <2>4. Range(client[u].notify) = {}  BY <2>3, NoneIn
  <2>5. client'[u].notify = IF d = VMCPUID_ANY THEN AllCpus ELSE <<d>>  BY <1>3, ClientMoves
  <2> HIDE DEF d
  <2>6. Range(client'[u].notify) = Servers(d)
    <3>1. CASE d = VMCPUID_ANY  BY <2>5, <3>1, AllCpusFacts DEF Servers
    <3>2. CASE d # VMCPUID_ANY
      <4>1. Range(<<d>>) = {d}  BY DEF Range
      <4> QED BY <2>5, <3>2, <4>1 DEF Servers
    <3> QED BY <3>1, <3>2
  <2>7. \E c \in Servers(d) : c \in Range(client'[u].notify)  BY <2>2, <2>6, ServersFacts
  <2>8. \A e \in Dests : e # d => ff'[e] = ff[e]  BY <1>0, <2>1
  <2>9. \A v \in Clients, c \in Cpus : c \in Range(client[v].notify) => v # u
    BY <2>4
  <2>10. \A v \in Clients, c \in Cpus : c \in Range(client[v].notify) => c \in Range(client'[v].notify)
    BY <1>1, <2>9
  <2>11. ASSUME NEW e \in Dests, ff'[e], \A c \in Servers(e) : emt'[c].pc = "sleep"
         PROVE  \E c \in Servers(e) : \/ semWait'[c]
                                      \/ \E v \in Clients : c \in Range(client'[v].notify)
    <3>1. CASE e = d  BY <2>7, <3>1
    <3>2. CASE e # d
      <4>1. ff[e] /\ \A c \in Servers(e) : emt[c].pc = "sleep"  BY <1>2, <2>8, <2>11, <3>2
      <4>2. PICK c \in Servers(e) : semWait[c] \/ \E v \in Clients : c \in Range(client[v].notify)
        BY <1>0, <4>1 DEF NoLostWakeup, Servers
      <4>3. c \in Cpus  BY ServersFacts
      <4> QED BY <2>1, <2>10, <4>2, <4>3
    <3> QED BY <3>1, <3>2
  <2> QED BY <2>11 DEF NoLostWakeup, Servers
<1>4. CASE NotifyFF(u)
  <2> DEFINE n == client[u].notify
             h == Head(n)
  <2>1. /\ ff' = ff /\ client[u].pc = "notify"
        /\ semWait' = [semWait EXCEPT ![h] = @ \/ fWait[h]]
    BY <1>4 DEF NotifyFF, ClientAt
  <2>2. n \in Seq(Cpus) /\ n # <<>>  BY <1>0, <2>1, Types DEF TypeOK
  <2>3. h \in Cpus  BY <2>2, TailFacts
  <2>4. Range(n) = {h} \union Range(client'[u].notify)
    <3>1. Range(n) = {h} \union Range(Tail(n))
      <4>1. /\ Len(n) \in Nat \ {0} /\ Len(Tail(n)) = Len(n) - 1 /\ h = n[1]
            /\ Tail(n) \in Seq(Cpus) /\ \A i \in 1 .. Len(n) - 1 : Tail(n)[i] = n[i + 1]
        BY <2>2, TailFacts
      <4> DEFINE m == Len(n)
                 t == Tail(n)
      <4>2. DOMAIN n = 1 .. m /\ DOMAIN t = 1 .. m - 1  BY <2>2, <4>1, LenProperties
      <4>3. m \in Nat \ {0} /\ h = n[1] /\ \A i \in 1 .. m - 1 : t[i] = n[i + 1]  BY <4>1
      <4> HIDE DEF m, n, t, h
      <4>4. \A i \in 1 .. m : n[i] = h \/ (i - 1 \in 1 .. m - 1 /\ n[i] = t[i - 1])
        <5>1. SUFFICES ASSUME NEW i \in 1 .. m, i # 1 PROVE n[i] = t[i - 1] /\ i - 1 \in 1 .. m - 1
          BY <4>3
        <5>2. i - 1 \in 1 .. m - 1 /\ (i - 1) + 1 = i  BY <4>3, <5>1
        <5> QED BY <4>3, <5>2
      <4>5. \A i \in 1 .. m - 1 : i + 1 \in 1 .. m  BY <4>3
      <4>6. 1 \in 1 .. m  BY <4>3
      <4>7. Range(n) = {n[i] : i \in 1 .. m} /\ Range(t) = {t[i] : i \in 1 .. m - 1}
        BY <4>2 DEF Range
      <4>8. Range(n) = {h} \union Range(t)  BY <4>3, <4>4, <4>5, <4>6, <4>7
      <4> QED BY <4>8 DEF t
    <3>2. CASE More(n)
      <4>1. client'[u].notify = Tail(n)  BY <1>4, <3>2, ClientMoves
      <4> QED BY <3>1, <4>1
    <3>3. CASE ~More(n)
      <4>1. client'[u].notify = <<>>  BY <1>4, <3>3, ClientMoves, Idles
      <4>2. Tail(n) = <<>>  BY <2>2, <3>3, TailFacts
      <4> QED BY <3>1, <4>1, <4>2
    <3> QED BY <3>2, <3>3
  <2> HIDE DEF n, h
  <2>5. \A c \in Cpus : semWait[c] => semWait'[c]  BY <1>0, <2>1, <2>3
  <2>6. fWait[h] => semWait'[h]  BY <1>0, <2>1, <2>3
  <2>7. \A v \in Clients \ {u}, c \in Cpus : c \in Range(client[v].notify) => c \in Range(client'[v].notify)
    BY <1>1
  <2>8. \A c \in Cpus : c \in Range(client[u].notify) => c = h \/ c \in Range(client'[u].notify)
    BY <2>4 DEF n
  <2>9. ASSUME NEW e \in Dests, ff'[e], \A c \in Servers(e) : emt'[c].pc = "sleep"
        PROVE  \E c \in Servers(e) : \/ semWait'[c]
                                     \/ \E v \in Clients : c \in Range(client'[v].notify)
    <3>1. ff[e] /\ \A c \in Servers(e) : emt[c].pc = "sleep"  BY <1>2, <2>1, <2>9
    <3>2. PICK c \in Servers(e) : semWait[c] \/ \E v \in Clients : c \in Range(client[v].notify)
      BY <1>0, <3>1 DEF NoLostWakeup, Servers
    <3>3. c \in Cpus  BY ServersFacts
    <3>4. fWait[c]  BY <1>0, <3>1, <3>3
    <3> QED BY <2>5, <2>6, <2>7, <2>8, <3>2, <3>3, <3>4
  <2> QED BY <2>9 DEF NoLostWakeup, Servers
<1>5. CASE ~SetFF(u) /\ ~NotifyFF(u)
  <2>1. ff' = ff /\ semWait' = semWait
    BY Zenon, <1>5 DEF VMR3ReqAllocU, ClientNext, Queue, Poll, WaitEvent, CheckState, Free
  <2>2. client[u].notify = <<>> /\ client'[u].notify = <<>>  BY <1>5, NotifyInv
  <2>3. \A v \in Clients : client'[v].notify = client[v].notify  BY <1>1, <2>2
  <2> QED BY SMTT(40), <1>0, <1>2, <2>1, <2>3 DEF NoLostWakeup
<1> QED BY <1>3, <1>4, <1>5

\* An EMT goes to sleep only when no flag is up that it may have to serve.
LEMMA WakeByEmt ==
  ASSUME IInv, NEW c \in Cpus, EmtNext(c) \/ StartWait(c) \/ Timeout(c)
  PROVE  NoLostWakeup'
<1>0. /\ NoLostWakeup /\ TypeOK /\ ff \in [Dests -> BOOLEAN] /\ emt[c].q \in Dests
      /\ emt[c].q \in {VMCPUID_ANY, c}
  BY SMTT(40), Types DEF IInv, TypeOK, EmtOK
<1>1. \A b \in Cpus \ {c} : emt'[b] = emt[b] /\ semWait'[b] = semWait[b]  BY EmtTypeInv
<1>2. client' = client
  BY DEF EmtNext, Process, StartWait, Timeout, Serve, SetWait, CheckFF, Wake, ClearFF, Take, Peek,
         PushBack, Retake, ReqSetFF, Exec, Complete, Flags, Signal
<1>3. \A e \in Dests : c \notin Servers(e) => (ff'[e] => ff[e])
  <2>1. ff' = ff \/ \E x \in BOOLEAN : ff' = [ff EXCEPT ![emt[c].q] = x]
    BY Zenon DEF EmtNext, Process, StartWait, Timeout, Serve, SetWait, CheckFF, Wake, ClearFF, Take,
           Peek, PushBack, Retake, ReqSetFF, Exec, Complete, Flags, Signal
  <2>2. c \in Servers(emt[c].q)  BY <1>0, ServersFacts
  <2> QED BY <1>0, <2>1, <2>2
<1>4. \/ emt'[c].pc # "sleep"
      \/ \A e \in Dests : c \in Servers(e) => ~ff'[e]
  <2>1. CASE CheckFF(c)
    <3>1. CASE FFPending(c)
      <4>1. EmtGo(c, "top")  BY <2>1, <3>1 DEF CheckFF
      <4> QED BY <1>0, <4>1, Goes DEF EmtPcs
    <3>2. CASE ~FFPending(c)
      <4>1. ff' = ff /\ ~ff[VMCPUID_ANY] /\ ~ff[c]  BY <2>1, <3>2 DEF CheckFF, FFPending
      <4> QED BY <4>1, ServersFacts
    <3> QED BY <3>1, <3>2
  <2>2. ASSUME NEW pc \in EmtPcs \ {"sleep"}, EmtGo(c, pc) PROVE emt'[c].pc # "sleep"
    BY <1>0, <2>2, Goes
  <2>3. CASE StartWait(c) \/ SetWait(c) \/ Wake(c) \/ Timeout(c) \/ ClearFF(c) \/ Peek(c)
             \/ ReqSetFF(c) \/ Complete(c)
    BY <2>2, <2>3 DEF StartWait, SetWait, Wake, Timeout, ClearFF, Peek, ReqSetFF, Complete, EmtPcs,
                      Kinds
  <2>4. CASE Serve(c)
    <3>1. PICK d \in {VMCPUID_ANY, c} :
            emt' = [emt EXCEPT ![c] = [EmtTop EXCEPT !.pc = "clear", !.q = d]]
      BY <2>4 DEF Serve
    <3>2. d \in Dests  BY DEF Dests
    <3>3. /\ [EmtTop EXCEPT !.pc = "clear", !.q = d] \in EmtType
          /\ [EmtTop EXCEPT !.pc = "clear", !.q = d].pc = "clear"
      BY Zenon, <3>2, Begins
    <3>4. emt'[c].pc = "clear"  BY <1>0, <3>1, <3>3, Becomes
    <3> QED BY <3>4
  <2>5. ASSUME NEW k \in Kinds, Take(c, k) PROVE emt'[c].pc # "sleep"
    <3>1. CASE reqs[emt[c].q][k] = <<>>
      <4>1. emt'[c].pc = "normal" \/ emt'[c].pc = "top"  BY <2>5, <3>1, TakeFacts
      <4> QED BY <4>1
    <3>2. CASE reqs[emt[c].q][k] # <<>>
      <4>1. emt'[c].pc \in {"pushback", "peek", "exec"}  BY <2>5, <3>2, TakeFacts
      <4> QED BY <4>1
    <3> QED BY <3>1, <3>2
  <2>6. CASE PushBack(c)
    <3>1. emt'[c].pc \in {"setff", "retake"}  BY <2>6, PushBackFacts
    <3> QED BY <3>1
  <2>7. CASE Retake(c)  BY <2>7, RetakeFacts
  <2>8. CASE Exec(c)  BY <2>8, ExecFacts
  <2>9. ASSUME Resume(c) PROVE emt'[c].pc # "sleep"
    <3>1. emt'[c].pc \in {"top", "clear"}  BY <1>0, <2>9, Resumes
    <3> QED BY <3>1
  <2>10. CASE Flags(c)  BY <2>2, <2>9, <2>10 DEF Flags, EmtPcs
  <2>11. CASE Signal(c)  BY <2>9, <2>11 DEF Signal
  <2> QED BY <2>1, <2>3, <2>4, <2>5, <2>6, <2>7, <2>8, <2>10, <2>11 DEF EmtNext, Process
<1>5. ASSUME NEW e \in Dests, ff'[e], \A b \in Servers(e) : emt'[b].pc = "sleep"
      PROVE  \E b \in Servers(e) : \/ semWait'[b]
                                   \/ \E v \in Clients : b \in Range(client'[v].notify)
  <2>1. c \notin Servers(e)  BY <1>4, <1>5
  <2>2. \A b \in Servers(e) : b \in Cpus \ {c}  BY <2>1, ServersFacts
  <2>3. ff[e] /\ \A b \in Servers(e) : emt[b].pc = "sleep"  BY <1>1, <1>3, <1>5, <2>1, <2>2
  <2>4. PICK b \in Servers(e) : semWait[b] \/ \E v \in Clients : b \in Range(client[v].notify)
    BY <1>0, <2>3 DEF NoLostWakeup, Servers
  <2> QED BY <1>1, <1>2, <2>2, <2>4
<1> QED BY <1>5 DEF NoLostWakeup, Servers

-----------------------------------------------------------------------------
(* What a step leaves alone keeps its part of the invariant. *)

SameHands == \A b \in Cpus :
  /\ Hand(b)' = Hand(b)
  /\ Hand(b) # {} => emt'[b].q = emt[b].q /\ emt'[b].kind = emt[b].kind
SameService == \A b \in Cpus :
  /\ emt'[b].pc \in ServicePcs <=> emt[b].pc \in ServicePcs
  /\ emt[b].pc \in ServicePcs => emt'[b].pc = emt[b].pc /\ emt'[b].req = emt[b].req
SamePacket(p) == req'[p] = req[p] /\ event'[p] = event[p] /\ ran'[p] = ran[p]
SameClient(u) == /\ client'[u].pc = client[u].pc /\ client'[u].req = client[u].req
                 /\ client'[u].noWait = client[u].noWait /\ client'[u].todo = client[u].todo

\* Packets in lists and hands are queued, served ones run or have run, and those that a
\* client will look at again are neither invalid nor free.
LEMMA Where ==
  ASSUME IInv
  PROVE  /\ \A d \in Dests, k \in Kinds : \A p \in Range(reqs[d][k]) :
              p \in Packets /\ req[p].enmState = "QUEUED"
         /\ \A c \in Cpus : \A p \in Hand(c) : p \in Packets /\ req[p].enmState = "QUEUED"
         /\ \A c \in Cpus : \A p : Serves(c, p) =>
              /\ p \in Packets /\ req[p].enmState \in {"PROCESSING", "COMPLETED"}
              /\ ~event[p] /\ \A b \in Cpus : Serves(b, p) => b = c
         /\ \A u \in Clients : \A p : Owns(u, p) =>
              /\ p \in Packets
              /\ req[p].enmState \in {"ALLOCATED", "QUEUED", "PROCESSING", "COMPLETED"}
              /\ \A v \in Clients : Owns(v, p) => v = u
<1>0. TypeOK /\ ListsOK  BY DEF IInv
<1>1. ASSUME NEW d \in Dests, NEW k \in Kinds, NEW p \in Range(reqs[d][k])
      PROVE  p \in Packets /\ req[p].enmState = "QUEUED"
  <2>1. reqs[d][k] \in Seq(Packets)  BY <1>0, Types
  <2>2. Range(reqs[d][k]) \subseteq Packets  BY <2>1, RangeOfSeq
  <2> QED BY <1>0, <2>2 DEF ListsOK, TurnOf
<1>2. ASSUME NEW c \in Cpus, NEW p \in Hand(c)
      PROVE  p \in Packets /\ req[p].enmState = "QUEUED"
  <2>1. emt[c].pc \in HandPcs /\ emt[c].list \in Seq(Packets) /\ emt[c].req \in Packets
    BY <1>0, Types, Held DEF Hand
  <2>2. Range(emt[c].list) \subseteq Packets  BY <2>1, RangeOfSeq
  <2> QED BY <1>0, <2>1, <2>2 DEF Hand, ListsOK, TurnOf
<1>3. ASSUME NEW c \in Cpus, NEW p, Serves(c, p)
      PROVE  /\ p \in Packets /\ req[p].enmState \in {"PROCESSING", "COMPLETED"}
             /\ ~event[p] /\ \A b \in Cpus : Serves(b, p) => b = c
  <2>1. p \in Packets  BY <1>3, Held DEF Serves
  <2>2. /\ req[p].enmState \in {"PROCESSING", "COMPLETED"}
        /\ \A b \in Cpus : Serves(b, p) => b = c
    BY <1>3 DEF IInv, ServiceOK, Serves
  <2>3. ~event[p]  BY <1>3, <2>1 DEF IInv, PacketOK
  <2> QED BY <2>1, <2>2, <2>3
<1>4. ASSUME NEW u \in Clients, NEW p, Owns(u, p)
      PROVE  /\ p \in Packets
             /\ req[p].enmState \in {"ALLOCATED", "QUEUED", "PROCESSING", "COMPLETED"}
             /\ \A v \in Clients : Owns(v, p) => v = u
  <2>1. p \in Packets /\ \A v \in Clients : Owns(v, p) => v = u
    BY <1>4 DEF IInv, ClientOK, Owns
  <2>2. req[p].enmState \notin {"INVALID", "FREE"}  BY <1>4, <2>1 DEF IInv, PacketOK
  <2>3. req[p] \in ReqType  BY <1>0, <2>1, Types
  <2>4. req[p].enmState \in States  BY <2>3 DEF ReqType
  <2> QED BY <2>1, <2>2, <2>4 DEF States
<1> QED BY <1>1, <1>2, <1>3, <1>4

LEMMA ServesSame ==
  ASSUME SameService, NEW b \in Cpus, NEW p
  PROVE  Serves(b, p)' <=> Serves(b, p)
BY DEF SameService, Serves

\* The lists, when a packet that changes is not queued, before or after.
LEMMA ListsFrame ==
  ASSUME IInv, reqs' = reqs, SameHands,
         \A p \in Packets :
           \/ /\ req'[p].enmState = req[p].enmState /\ req'[p].dst = req[p].dst
              /\ req'[p].kind = req[p].kind /\ ran'[p] = ran[p]
           \/ req[p].enmState # "QUEUED" /\ req'[p].enmState # "QUEUED"
  PROVE  ListsOK'
<1>0. ListsOK  BY DEF IInv
<1>1. \A p \in Packets : \A d : TurnOf(p, d) => TurnOf(p, d)' /\ req'[p].kind = req[p].kind
  BY DEF TurnOf
<1>2. \A d \in Dests, k \in Kinds :
        /\ IsInjective(reqs'[d][k])
        /\ \A p \in Range(reqs'[d][k]) : TurnOf(p, d)' /\ req'[p].kind = k
  BY <1>0, <1>1, Where DEF ListsOK
<1>3. \A c \in Cpus : \A p \in Hand(c)' :
        /\ TurnOf(p, emt[c].q)' /\ req'[p].kind = emt'[c].kind
        /\ \A d \in Dests, k \in Kinds : p \notin Range(reqs'[d][k])
        /\ \A b \in Cpus : p \in Hand(b)' => b = c
  <2> SUFFICES ASSUME NEW c \in Cpus, NEW p \in Hand(c)
               PROVE  /\ TurnOf(p, emt[c].q)' /\ req'[p].kind = emt'[c].kind
                      /\ \A d \in Dests, k \in Kinds : p \notin Range(reqs'[d][k])
                      /\ \A b \in Cpus : p \in Hand(b)' => b = c
    BY DEF SameHands
  <2>1. emt'[c].q = emt[c].q /\ emt'[c].kind = emt[c].kind  BY DEF SameHands
  <2>2. p \in Packets /\ TurnOf(p, emt[c].q) /\ req[p].kind = emt[c].kind
    BY <1>0, Where DEF ListsOK
  <2>3. req'[p].kind = req[p].kind  BY <1>1, <2>2
  <2>4. TurnOf(p, emt[c].q)' /\ req'[p].kind = emt'[c].kind
    BY <2>1, <2>2, <2>3 DEF TurnOf
  <2>5. \A d \in Dests, k \in Kinds : p \notin Range(reqs'[d][k])  BY <1>0 DEF ListsOK
  <2>6. \A b \in Cpus : p \in Hand(b)' => b = c  BY <1>0 DEF ListsOK, SameHands
  <2> QED BY <2>4, <2>5, <2>6
<1>4. \A p \in Packets : req'[p].enmState = "QUEUED" =>
        \/ \E d \in Dests, k \in Kinds : p \in Range(reqs'[d][k])
        \/ \E c \in Cpus : p \in Hand(c)'
  <2>1. \A p \in Packets : req'[p].enmState = "QUEUED" => req[p].enmState = "QUEUED"  OBVIOUS
  <2> QED BY <1>0, <2>1 DEF ListsOK, SameHands
<1> QED BY <1>2, <1>3, <1>4 DEF ListsOK

LEMMA ServiceFrame ==
  ASSUME IInv, SameService,
         \A p \in Packets : (\E c \in Cpus : Serves(c, p)) =>
           /\ req'[p].enmState = req[p].enmState /\ req'[p].noWait = req[p].noWait
           /\ req'[p].fEventSemClear = req[p].fEventSemClear
  PROVE  \A c \in Cpus : ServiceOK(c)'
<1> SUFFICES ASSUME NEW c \in Cpus, emt[c].pc \in ServicePcs PROVE ServiceOK(c)'
  BY DEF SameService, ServiceOK
<1>1. emt'[c].pc = emt[c].pc /\ emt'[c].req = emt[c].req  BY DEF SameService
<1>2. Serves(c, emt[c].req) /\ emt[c].req \in Packets  BY Held DEF Serves
<1>3. ServiceOK(c)  BY DEF IInv
<1>4. \A b \in Cpus : \A p : Serves(b, p)' <=> Serves(b, p)  BY ServesSame
<1> QED BY <1>1, <1>2, <1>3, <1>4 DEF ServiceOK

LEMMA PacketFrame ==
  ASSUME IInv, NEW p \in Packets, SamePacket(p),
         \A c \in Cpus : Serves(c, p)' => Serves(c, p),
         \A u \in Clients : Owns(u, p)' => Owns(u, p)
  PROVE  PacketOK(p)'
<1>1. PacketOK(p)  BY DEF IInv
<1> QED BY <1>1 DEF PacketOK, SamePacket

LEMMA ClientFrame ==
  ASSUME IInv, NEW u \in Clients, SameClient(u),
         \A p \in Packets : Owns(u, p) =>
           /\ \A v \in Clients : Owns(v, p)' => Owns(v, p)
           /\ req'[p].noWait = req[p].noWait /\ req'[p].dst = req[p].dst
           /\ req'[p].enmState = req[p].enmState /\ ran'[p] = ran[p]
           /\ event'[p] => event[p]
           /\ \A c \in Cpus : Serves(c, p)' => Serves(c, p)
  PROVE  ClientOK(u)'
<1>1. ClientOK(u)  BY DEF IInv
<1>2. CASE client[u].pc = "idle"  BY <1>2 DEF ClientOK, SameClient
<1>3. CASE client[u].pc # "idle"
  <2> DEFINE p == client[u].req
  <2>1. /\ p \in Packets
        /\ client[u].noWait => client[u].pc \in {"queue", "setff", "notify"}
    BY <1>1, <1>3 DEF ClientOK
  <2>2. client'[u].req = p /\ (Owns(u, p)' <=> Owns(u, p))  BY DEF SameClient, Owns
  <2>3. CASE ~Owns(u, p)
    BY <2>1, <2>2, <2>3 DEF ClientOK, SameClient
  <2>4. CASE Owns(u, p)
    <3> DEFINE todo == client[u].todo
               T == Targets(req[p].dst)
               D == Done(p, client[u].todo)
    <3>1. todo' = todo /\ T' = T /\ D' = D  BY <2>1, <2>2, <2>4 DEF Done, SameClient
    <3>2. /\ \A v \in Clients : Owns(v, p) => v = u
          /\ req[p].noWait = client[u].noWait
          /\ Len(todo) <= Len(T) /\ \A i \in 1 .. Len(todo) : todo[i] = T[D + i]
          /\ Len(ran[p]) = IF req[p].enmState \in {"ALLOCATED", "QUEUED"} THEN D ELSE D + 1
          /\ client[u].pc = "queue" => req[p].enmState = "ALLOCATED"
          /\ client[u].pc \in {"setff", "notify", "poll", "wait"} =>
               req[p].enmState \in {"QUEUED", "PROCESSING", "COMPLETED"}
          /\ client[u].pc \in {"check", "free"} =>
               /\ req[p].enmState = "COMPLETED" /\ ~event[p]
               /\ \A c \in Cpus : ~Serves(c, p)
          /\ client[u].pc = "free" => Len(todo) = 1
      BY <1>1, <1>3, <2>4 DEF ClientOK
    <3> HIDE DEF todo, T, D
    <3>3. /\ \A v \in Clients : Owns(v, p)' => v = u
          /\ req'[p].noWait = client'[u].noWait
          /\ Len(todo') <= Len(T') /\ \A i \in 1 .. Len(todo') : todo'[i] = T'[D' + i]
          /\ Len(ran'[p]) = IF req'[p].enmState \in {"ALLOCATED", "QUEUED"} THEN D' ELSE D' + 1
          /\ client'[u].pc = "queue" => req'[p].enmState = "ALLOCATED"
          /\ client'[u].pc \in {"setff", "notify", "poll", "wait"} =>
               req'[p].enmState \in {"QUEUED", "PROCESSING", "COMPLETED"}
          /\ client'[u].pc \in {"check", "free"} =>
               /\ req'[p].enmState = "COMPLETED" /\ ~event'[p]
               /\ \A c \in Cpus : ~Serves(c, p)'
          /\ client'[u].pc = "free" => Len(todo') = 1
      BY <2>1, <2>4, <3>1, <3>2 DEF SameClient
    <3>4. client'[u].noWait => client'[u].pc \in {"queue", "setff", "notify"}
      BY <2>1 DEF SameClient
    <3> QED BY <2>1, <2>2, <3>3, <3>4 DEF ClientOK, todo, T, D
  <2> QED BY <2>3, <2>4
<1> QED BY <1>2, <1>3

-----------------------------------------------------------------------------
(* Steps of the EMTs. *)

Core == /\ \A c \in Cpus : ServiceOK(c)
        /\ \A u \in Clients : ClientOK(u)
        /\ \A p \in Packets : PacketOK(p)
        /\ ListsOK

LEMMA CoreByControl ==
  ASSUME IInv, UNCHANGED <<req, event, reqs, client, ran>>, SameHands, SameService
  PROVE  Core'
<1>1. \A b \in Cpus : \A p : Serves(b, p)' <=> Serves(b, p)  BY ServesSame
<1>2. \A u \in Clients : \A p : Owns(u, p)' <=> Owns(u, p)  BY DEF Owns
<1>3. \A p \in Packets : SamePacket(p)  BY DEF SamePacket
<1>4. \A u \in Clients : SameClient(u)  BY DEF SameClient
<1>5. \A c \in Cpus : ServiceOK(c)'  BY ServiceFrame
<1>6. \A u \in Clients : ClientOK(u)'  BY <1>1, <1>2, <1>4, ClientFrame
<1>7. \A p \in Packets : PacketOK(p)'  BY <1>1, <1>2, <1>3, PacketFrame
<1>8. ListsOK'  BY ListsFrame
<1> QED BY <1>5, <1>6, <1>7, <1>8 DEF Core

LEMMA HandsOf ==
  ASSUME NEW c \in Cpus, \A b \in Cpus \ {c} : emt'[b] = emt[b], Hand(c)' = Hand(c),
         Hand(c) # {} => emt'[c].q = emt[c].q /\ emt'[c].kind = emt[c].kind
  PROVE  SameHands
<1>1. \A b \in Cpus \ {c} : Hand(b)' = Hand(b)  BY DEF Hand
<1> QED BY <1>1 DEF SameHands

LEMMA ServiceOf ==
  ASSUME NEW c \in Cpus, \A b \in Cpus \ {c} : emt'[b] = emt[b],
         emt[c].pc \notin ServicePcs, emt'[c].pc \notin ServicePcs
  PROVE  SameService
BY DEF SameService

\* The steps that only move the control of an EMT, and its flag.
LEMMA ControlSteps ==
  ASSUME IInv, NEW c \in Cpus,
         \/ Serve(c) \/ StartWait(c) \/ SetWait(c) \/ CheckFF(c) \/ Wake(c) \/ Timeout(c)
         \/ ClearFF(c) \/ Peek(c) \/ ReqSetFF(c)
  PROVE  Core'
<1>0. /\ TypeOK /\ UNCHANGED <<req, event, reqs, client, ran>>
      /\ \A b \in Cpus \ {c} : emt'[b] = emt[b]
  <2>1. EmtNext(c) \/ StartWait(c) \/ Timeout(c)  BY DEF EmtNext, Process
  <2> QED BY <2>1, EmtTypeInv
          DEF IInv, Serve, StartWait, SetWait, CheckFF, Wake, Timeout, ClearFF, Peek, ReqSetFF
<1>1. CASE Peek(c) \/ ReqSetFF(c)
  <2>1. PICK pc \in {"setff", "exec"} : EmtGo(c, pc)  BY <1>1 DEF Peek, ReqSetFF
  <2>2. emt[c].pc \in HandPcs \ ServicePcs
    BY <1>1 DEF Peek, ReqSetFF, EmtAt, HandPcs, ServicePcs
  <2>3. pc \in EmtPcs /\ pc \in HandPcs \ ServicePcs  BY DEF EmtPcs, HandPcs, ServicePcs
  <2>4. /\ emt'[c].pc = pc /\ emt'[c].q = emt[c].q /\ emt'[c].kind = emt[c].kind
        /\ emt'[c].list = emt[c].list /\ emt'[c].req = emt[c].req
    BY <1>0, <2>1, <2>3, Goes
  <2>5. Hand(c)' = Hand(c)  BY <2>2, <2>3, <2>4 DEF Hand
  <2>6. SameHands  BY <1>0, <2>4, <2>5, HandsOf
  <2>7. SameService  BY <1>0, <2>2, <2>3, <2>4, ServiceOf
  <2> QED BY <1>0, <2>6, <2>7, CoreByControl
<1>2. CASE Serve(c) \/ StartWait(c) \/ SetWait(c) \/ CheckFF(c) \/ Wake(c) \/ Timeout(c)
           \/ ClearFF(c)
  <2>1. emt'[c].pc \in {"fwait", "check", "sleep", "top", "priority", "clear"}
    <3>1. CASE Serve(c)
      <4>1. PICK d \in {VMCPUID_ANY, c} :
              emt' = [emt EXCEPT ![c] = [EmtTop EXCEPT !.pc = "clear", !.q = d]]
        BY <3>1 DEF Serve
      <4>2. d \in Dests  BY DEF Dests
      <4>3. /\ [EmtTop EXCEPT !.pc = "clear", !.q = d] \in EmtType
            /\ [EmtTop EXCEPT !.pc = "clear", !.q = d].pc = "clear"
        BY Zenon, <4>2, Begins
      <4> QED BY <1>0, <4>1, <4>3, Becomes
    <3>2. CASE ~Serve(c)
      <4>1. PICK pc \in {"fwait", "check", "sleep", "top", "priority"} : EmtGo(c, pc)
        BY <1>2, <3>2 DEF StartWait, SetWait, CheckFF, Wake, Timeout, ClearFF
      <4>2. pc \in EmtPcs  BY DEF EmtPcs, Kinds
      <4> QED BY <1>0, <4>1, <4>2, Goes
    <3> QED BY <3>1, <3>2
  <2>2. emt[c].pc \in {"fwait", "check", "sleep", "top", "clear"}
    BY <1>2 DEF Serve, StartWait, SetWait, CheckFF, Wake, Timeout, ClearFF, EmtAt
  <2>3. Hand(c)' = {} /\ Hand(c) = {}  BY <2>1, <2>2 DEF Hand, HandPcs
  <2>4. SameHands  BY <1>0, <2>3, HandsOf
  <2>5. SameService  BY <1>0, <2>1, <2>2, ServiceOf DEF ServicePcs
  <2> QED BY <1>0, <2>4, <2>5, CoreByControl
<1> QED BY <1>1, <1>2

\* Packets move between list k of q and the hands of the EMT that serves q.
LEMMA ListsMove ==
  ASSUME IInv, NEW c \in Cpus, NEW q \in Dests, q = emt[c].q, NEW k \in Kinds,
         NEW t \in Seq(Packets), IsInjective(t),
         reqs' = [reqs EXCEPT ![q] = [@ EXCEPT ![k] = t]], UNCHANGED <<req, ran>>,
         \A b \in Cpus \ {c} : emt'[b] = emt[b],
         Hand(c) # {} => emt[c].kind = k,
         Hand(c)' # {} => emt'[c].kind = k /\ emt'[c].q = q,
         Range(t) \union Hand(c)' = Range(reqs[q][k]) \union Hand(c),
         Range(t) \cap Hand(c)' = {}
  PROVE  ListsOK'
<1>0. ListsOK /\ TypeOK /\ reqs \in [Dests -> [Kinds -> Seq(Packets)]]  BY DEF IInv, TypeOK
<1> DEFINE U == Range(reqs[q][k]) \union Hand(c)
<1>1. ASSUME NEW p \in U
      PROVE  /\ p \in Packets /\ TurnOf(p, q) /\ req[p].kind = k
             /\ \A d \in Dests, l \in Kinds : (d # q \/ l # k) => p \notin Range(reqs[d][l])
             /\ \A b \in Cpus \ {c} : p \notin Hand(b)
  <2>1. CASE p \in Hand(c)
    <3>1. p \in Packets /\ TurnOf(p, q) /\ req[p].kind = k
      BY <1>0, <2>1, Where DEF ListsOK
    <3> QED BY <1>0, <2>1, <3>1 DEF ListsOK
  <2>2. CASE p \in Range(reqs[q][k])
    <3>1. p \in Packets /\ TurnOf(p, q) /\ req[p].kind = k
      BY <1>0, <2>2, Where DEF ListsOK
    <3>2. \A d \in Dests, l \in Kinds : p \in Range(reqs[d][l]) => d = q /\ l = k
      BY <1>0, <3>1 DEF ListsOK, TurnOf
    <3>3. \A b \in Cpus : p \notin Hand(b)  BY <1>0, <2>2 DEF ListsOK
    <3> QED BY <3>1, <3>2, <3>3
  <2> QED BY <2>1, <2>2
<1>2. \A p, d : TurnOf(p, d)' <=> TurnOf(p, d)  BY DEF TurnOf
<1>3. /\ reqs'[q][k] = t
      /\ \A d \in Dests, l \in Kinds : (d # q \/ l # k) => reqs'[d][l] = reqs[d][l]
  BY <1>0
<1>4. \A b \in Cpus \ {c} : Hand(b)' = Hand(b)  BY DEF Hand
<1>5. Range(t) \subseteq U /\ Hand(c)' \subseteq U /\ U = Range(t) \union Hand(c)'  OBVIOUS
<1> HIDE DEF U
<1>6. ASSUME NEW d \in Dests, NEW l \in Kinds
      PROVE  /\ IsInjective(reqs'[d][l])
             /\ \A p \in Range(reqs'[d][l]) : TurnOf(p, d)' /\ req'[p].kind = l
  <2>1. CASE d = q /\ l = k  BY <1>1, <1>2, <1>3, <1>5, <2>1
  <2>2. CASE d # q \/ l # k
    <3>1. reqs'[d][l] = reqs[d][l]  BY <1>3, <2>2
    <3> QED BY <1>0, <1>2, <3>1 DEF ListsOK
  <2> QED BY <2>1, <2>2
<1>7. ASSUME NEW b \in Cpus, NEW p \in Hand(b)'
      PROVE  /\ TurnOf(p, emt[b].q)' /\ req'[p].kind = emt'[b].kind
             /\ \A d \in Dests, l \in Kinds : p \notin Range(reqs'[d][l])
             /\ \A a \in Cpus : p \in Hand(a)' => a = b
  <2>1. CASE b = c
    <3>1. p \in U /\ emt'[c].kind = k /\ emt'[c].q = q  BY <1>5, <1>7, <2>1
    <3>2. TurnOf(p, q) /\ req[p].kind = k  BY <1>1, <3>1
    <3>3. TurnOf(p, emt[c].q)'  BY <3>1, <3>2 DEF TurnOf
    <3>4. \A d \in Dests, l \in Kinds : p \notin Range(reqs'[d][l])
      BY <1>1, <1>3, <1>7, <2>1, <3>1
    <3>5. \A a \in Cpus : p \in Hand(a)' => a = c  BY <1>1, <1>4, <3>1
    <3> QED BY <2>1, <3>1, <3>2, <3>3, <3>4, <3>5
  <2>2. CASE b # c
    <3>1. p \in Hand(b) /\ emt'[b] = emt[b]  BY <1>4, <1>7, <2>2
    <3>2. p \notin U  BY <1>1, <2>2, <3>1
    <3>3. /\ TurnOf(p, emt[b].q) /\ req[p].kind = emt[b].kind
          /\ \A d \in Dests, l \in Kinds : p \notin Range(reqs[d][l])
          /\ \A a \in Cpus : p \in Hand(a) => a = b
      BY <1>0, <3>1 DEF ListsOK
    <3>4. TurnOf(p, emt[b].q)'  BY <3>1, <3>3 DEF TurnOf
    <3>5. \A d \in Dests, l \in Kinds : p \notin Range(reqs'[d][l])
      BY <1>3, <1>5, <3>2, <3>3
    <3>6. \A a \in Cpus : p \in Hand(a)' => a = b  BY <1>4, <1>5, <3>2, <3>3
    <3> QED BY <3>1, <3>3, <3>4, <3>5, <3>6
  <2> QED BY <2>1, <2>2
<1>8. ASSUME NEW p \in Packets, req'[p].enmState = "QUEUED"
      PROVE  \/ \E d \in Dests, l \in Kinds : p \in Range(reqs'[d][l])
             \/ \E b \in Cpus : p \in Hand(b)'
  <2>1. CASE p \in U  BY <1>3, <1>5, <2>1
  <2>2. CASE p \notin U
    <3>1. \/ \E d \in Dests, l \in Kinds : p \in Range(reqs[d][l])
          \/ \E b \in Cpus : p \in Hand(b)
      BY <1>0, <1>8 DEF ListsOK
    <3>2. CASE \E d \in Dests, l \in Kinds : p \in Range(reqs[d][l])
      <4>1. PICK d \in Dests, l \in Kinds : p \in Range(reqs[d][l])  BY <3>2
      <4>2. d # q \/ l # k  BY <2>2, <4>1 DEF U
      <4>3. p \in Range(reqs'[d][l])  BY <1>3, <4>1, <4>2
      <4> QED BY <4>3
    <3>3. CASE \E b \in Cpus : p \in Hand(b)  BY <1>4, <2>2, <3>3 DEF U
    <3> QED BY <3>1, <3>2, <3>3
  <2> QED BY <2>1, <2>2
<1> QED BY <1>6, <1>7, <1>8 DEF ListsOK

\* Such a step changes nothing else.
LEMMA CoreByMove ==
  ASSUME IInv, ListsOK', UNCHANGED <<req, event, client, ran>>, SameService
  PROVE  Core'
<1>1. \A b \in Cpus : \A p : Serves(b, p)' <=> Serves(b, p)  BY ServesSame
<1>2. \A u \in Clients : \A p : Owns(u, p)' <=> Owns(u, p)  BY DEF Owns
<1>3. \A p \in Packets : SamePacket(p)  BY DEF SamePacket
<1>4. \A u \in Clients : SameClient(u)  BY DEF SameClient
<1>5. \A c \in Cpus : ServiceOK(c)'  BY ServiceFrame
<1>6. \A u \in Clients : ClientOK(u)'  BY <1>1, <1>2, <1>4, ClientFrame
<1>7. \A p \in Packets : PacketOK(p)'  BY <1>1, <1>2, <1>3, PacketFrame
<1> QED BY <1>5, <1>6, <1>7 DEF Core

LEMMA TakeCore ==
  ASSUME IInv, NEW c \in Cpus, NEW k \in Kinds, Take(c, k)
  PROVE  Core'
<1> DEFINE l == reqs[emt[c].q][k]
<1>0. /\ emt[c].pc = k /\ emt[c].q \in Dests /\ l \in Seq(Packets) /\ IsInjective(l)
      /\ reqs' = [reqs EXCEPT ![emt[c].q] = [@ EXCEPT ![k] = <<>>]]
      /\ \A b \in Cpus \ {c} : emt'[b] = emt[b]
  BY TakeFacts
<1>1. UNCHANGED <<req, event, client, ran>>  BY DEF Take
<1>2. Hand(c) = {} /\ emt[c].pc \notin ServicePcs  BY <1>0 DEF Hand, HandPcs, ServicePcs, Kinds
<1>3. <<>> \in Seq(Packets) /\ IsInjective(<<>>) /\ Range(<<>>) = {}  BY NoneIn
<1>4. CASE l = <<>>
  <2>1. emt'[c].pc \in {"normal", "top"}  BY <1>4, TakeFacts
  <2>2. Hand(c)' = {} /\ emt'[c].pc \notin ServicePcs  BY <2>1 DEF Hand, HandPcs, ServicePcs
  <2>3. Range(l) = {}  BY <1>4, NoneIn
  <2>4. PICK q \in Dests : q = emt[c].q  BY <1>0
  <2>5. ListsOK'
    <3>1. reqs' = [reqs EXCEPT ![q] = [@ EXCEPT ![k] = <<>>]]  BY <1>0, <2>4
    <3>2. Range(<<>>) \union Hand(c)' = Range(reqs[q][k]) \union Hand(c)
      BY <1>2, <1>3, <2>2, <2>3, <2>4
    <3>3. Range(<<>>) \cap Hand(c)' = {}  BY <1>3
    <3> HIDE DEF l
    <3> QED BY <1>0, <1>1, <1>2, <1>3, <2>2, <2>4, <3>1, <3>2, <3>3, ListsMove
  <2>6. SameService  BY <1>0, <1>2, <2>2, ServiceOf
  <2> QED BY <1>1, <2>5, <2>6, CoreByMove
<1>5. CASE l # <<>>
  <2>1. /\ emt'[c].pc \in {"pushback", "peek", "exec"} /\ emt'[c].kind = k
        /\ emt'[c].q = emt[c].q /\ emt'[c].req = Last(l) /\ emt'[c].list = Front(l)
    BY ZenonT(60), <1>5, TakeFacts
  <2>2. Range(l) = Range(Front(l)) \union {Last(l)}  BY <1>0, <1>5, FrontLast
  <2>3. Hand(c)' = Range(l) /\ emt'[c].pc \notin ServicePcs
    BY <2>1, <2>2 DEF Hand, HandPcs, ServicePcs
  <2>4. PICK q \in Dests : q = emt[c].q  BY <1>0
  <2>5. ListsOK'
    <3>1. reqs' = [reqs EXCEPT ![q] = [@ EXCEPT ![k] = <<>>]]  BY <1>0, <2>4
    <3>2. Range(<<>>) \union Hand(c)' = Range(reqs[q][k]) \union Hand(c)
      BY <1>2, <1>3, <2>3, <2>4
    <3>3. Range(<<>>) \cap Hand(c)' = {}  BY <1>3
    <3> HIDE DEF l
    <3> QED BY ZenonT(60), <1>0, <1>1, <1>2, <1>3, <2>1, <2>4, <3>1, <3>2, <3>3, ListsMove
  <2>6. SameService  BY <1>0, <1>2, <2>3, ServiceOf
  <2> QED BY <1>1, <2>5, <2>6, CoreByMove
<1> QED BY <1>4, <1>5

LEMMA PushBackCore ==
  ASSUME IInv, NEW c \in Cpus, PushBack(c)
  PROVE  Core'
<1> DEFINE k == emt[c].kind
           l == reqs[emt[c].q][k]
<1>0. /\ emt[c].q \in Dests /\ k \in Kinds /\ emt[c].pc = "pushback"
      /\ emt'[c].q = emt[c].q /\ emt'[c].kind = k /\ emt'[c].req = emt[c].req
      /\ \A b \in Cpus \ {c} : emt'[b] = emt[b]
  BY PushBackFacts
<1>1. UNCHANGED <<req, event, client, ran>>  BY DEF PushBack
<1>2. /\ emt[c].list \in Seq(Packets) /\ IsInjective(emt[c].list)
      /\ emt[c].req \notin Range(emt[c].list)
      /\ Hand(c) = Range(emt[c].list) \union {emt[c].req} /\ emt[c].pc \notin ServicePcs
  BY <1>0, Types DEF IInv, EmtOK, HandPcs, Hand, ServicePcs
<1>3. CASE l # <<>>
  <2>1. reqs' = reqs /\ emt'[c].pc = "retake" /\ emt'[c].list = emt[c].list
    BY <1>3, PushBackFacts
  <2>2. Hand(c)' = Hand(c) /\ emt'[c].pc \notin ServicePcs
    BY <1>0, <1>2, <2>1 DEF Hand, HandPcs, ServicePcs
  <2>3. SameHands  BY <1>0, <2>2, HandsOf
  <2>4. SameService  BY <1>0, <1>2, <2>2, ServiceOf
  <2> QED BY <1>1, <2>1, <2>3, <2>4, CoreByControl
<1>4. CASE l = <<>>
  <2>1. /\ reqs' = [reqs EXCEPT ![emt[c].q] = [@ EXCEPT ![k] = emt[c].list]]
        /\ emt'[c].pc = "setff" /\ emt'[c].list = <<>>
    BY <1>4, PushBackFacts
  <2>2. Range(<<>>) = {}  BY NoneIn
  <2>3. Hand(c)' = {emt[c].req} /\ emt'[c].pc \notin ServicePcs
    BY <1>0, <2>1, <2>2 DEF Hand, HandPcs, ServicePcs
  <2>4. Range(l) = {}  BY <1>4, NoneIn
  <2>5. ListsOK'
    <3>0. PICK q \in Dests, m \in Kinds, t \in Seq(Packets) :
            q = emt[c].q /\ m = k /\ t = emt[c].list
      BY <1>0, <1>2
    <3>1. reqs' = [reqs EXCEPT ![q] = [@ EXCEPT ![m] = t]]  BY <2>1, <3>0
    <3>2. Range(t) \union Hand(c)' = Range(reqs[q][m]) \union Hand(c)
      BY <1>2, <2>3, <2>4, <3>0
    <3>3. Range(t) \cap Hand(c)' = {}  BY <1>2, <2>3, <3>0
    <3>4. emt[c].kind = m /\ emt'[c].kind = m /\ emt'[c].q = q /\ IsInjective(t)
      BY <1>0, <1>2, <3>0
    <3> HIDE DEF k, l
    <3> QED BY <1>0, <1>1, <3>0, <3>1, <3>2, <3>3, <3>4, ListsMove
  <2>6. SameService  BY SMTT(40), <1>0, <1>2, <2>3, ServiceOf
  <2> QED BY <1>1, <2>5, <2>6, CoreByMove
<1> QED BY <1>3, <1>4

LEMMA RetakeCore ==
  ASSUME IInv, NEW c \in Cpus, Retake(c)
  PROVE  Core'
<1> DEFINE k == emt[c].kind
           l == reqs[emt[c].q][k] \o emt[c].list
<1>0. /\ emt[c].q \in Dests /\ k \in Kinds /\ emt[c].pc = "retake"
      /\ emt'[c].pc = "pushback" /\ emt'[c].q = emt[c].q /\ emt'[c].kind = k
      /\ emt'[c].req = emt[c].req /\ emt'[c].list = l
      /\ \A b \in Cpus \ {c} : emt'[b] = emt[b]
      /\ reqs' = [reqs EXCEPT ![emt[c].q] = [@ EXCEPT ![k] = <<>>]]
      /\ Range(l) = Range(reqs[emt[c].q][k]) \union Range(emt[c].list)
  BY RetakeFacts
<1>1. UNCHANGED <<req, event, client, ran>>  BY DEF Retake
<1>2. Hand(c) = Range(emt[c].list) \union {emt[c].req} /\ emt[c].pc \notin ServicePcs
  BY <1>0 DEF HandPcs, Hand, ServicePcs
<1>3. <<>> \in Seq(Packets) /\ IsInjective(<<>>) /\ Range(<<>>) = {}  BY SMTT(40), NoneIn
<1>4. /\ Hand(c)' = Range(reqs[emt[c].q][k]) \union Hand(c)
      /\ emt'[c].pc \notin ServicePcs
  BY <1>0, <1>2 DEF Hand, HandPcs, ServicePcs
<1>5. ListsOK'
  <2>0. PICK q \in Dests, m \in Kinds, t \in Seq(Packets) :
          q = emt[c].q /\ m = k /\ t = <<>>
    BY <1>0, <1>3
  <2>1. reqs' = [reqs EXCEPT ![q] = [@ EXCEPT ![m] = t]]  BY <1>0, <2>0
  <2>2. Range(t) = {} /\ IsInjective(t)  BY Zenon, <1>3, <2>0
  <2>3. /\ Range(t) \union Hand(c)' = Range(reqs[q][m]) \union Hand(c)
        /\ Range(t) \cap Hand(c)' = {}
    <3>1. Hand(c)' = Range(reqs[q][m]) \union Hand(c)  BY Zenon, <1>4, <2>0
    <3> QED BY <2>2, <3>1
  <2>4. emt[c].kind = m /\ emt'[c].kind = m /\ emt'[c].q = q  BY Zenon, <1>0, <2>0
  <2>5. \A b \in Cpus \ {c} : emt'[b] = emt[b]  BY Zenon, <1>0
  <2> HIDE DEF k, l
  <2> QED BY <1>1, <2>0, <2>5, <2>1, <2>2, <2>3, <2>4, ListsMove
<1>6. SameService  BY <1>0, <1>2, <1>4, ServiceOf
<1> QED BY <1>1, <1>5, <1>6, CoreByMove

\* An EMT works on packet p: what it leaves alone.
LEMMA WorkFrame ==
  ASSUME IInv, NEW c \in Cpus, NEW p \in Packets, client' = client,
         \A b \in Cpus \ {c} : emt'[b] = emt[b] /\ ~Serves(b, p),
         \A o \in Packets \ {p} : SamePacket(o),
         \A o \in Packets \ {p} : ~Serves(c, o) /\ ~Serves(c, o)'
  PROVE  /\ \A b \in Cpus \ {c} : ServiceOK(b)'
         /\ \A u \in Clients : ~Owns(u, p) => ClientOK(u)'
         /\ \A o \in Packets \ {p} : PacketOK(o)'
<1>1. \A b \in Cpus \ {c} : \A o : Serves(b, o)' <=> Serves(b, o)  BY DEF Serves
<1>2. \A u \in Clients : \A o : Owns(u, o)' <=> Owns(u, o)  BY DEF Owns
<1>3. \A u \in Clients : SameClient(u)  BY DEF SameClient
<1>4. \A b \in Cpus, o \in Packets \ {p} : Serves(b, o)' => Serves(b, o)  BY <1>1
<1>5. \A o \in Packets \ {p} : PacketOK(o)'  BY <1>2, <1>4, PacketFrame
<1>6. ASSUME NEW u \in Clients, ~Owns(u, p) PROVE ClientOK(u)'
  BY <1>2, <1>3, <1>4, <1>6, ClientFrame DEF SamePacket
<1>7. ASSUME NEW b \in Cpus \ {c} PROVE ServiceOK(b)'
  <2> SUFFICES ASSUME emt[b].pc \in ServicePcs PROVE ServiceOK(b)'
    BY DEF ServiceOK
  <2> DEFINE o == emt[b].req
  <2>1. Serves(b, o) /\ o \in Packets \ {p} /\ emt'[b] = emt[b]  BY Held DEF Serves
  <2>2. /\ req[o].enmState = IF emt[b].pc = "complete" THEN "PROCESSING" ELSE "COMPLETED"
        /\ emt[b].pc = "signal" => ~req[o].noWait /\ ~req[o].fEventSemClear
        /\ \A d \in Cpus : Serves(d, o) => d = b
    BY DEF IInv, ServiceOK
  <2>3. req'[o] = req[o]  BY <2>1 DEF SamePacket
  <2>4. \A d \in Cpus : Serves(d, o)' => d = b  BY <1>4, <2>1, <2>2
  <2> QED BY <2>1, <2>2, <2>3, <2>4 DEF ServiceOK
<1> QED BY <1>5, <1>6, <1>7

\* The client that owns packet p, while an EMT works on it: only its state changes, on
\* to the next, and what has run of it when it begins to.
OwnerWaits(u, p) ==
  /\ Owns(u, p) /\ client' = client
  /\ req'[p].dst = req[p].dst /\ req'[p].noWait = req[p].noWait
  /\ req[p].enmState # "ALLOCATED" /\ req'[p].enmState \in {"PROCESSING", "COMPLETED"}
  /\ Len(ran[p]) \in Nat
  /\ Len(ran'[p]) = Len(ran[p]) + (IF req[p].enmState = "QUEUED" THEN 1 ELSE 0)
  /\ req[p].enmState = "COMPLETED" => \E c \in Cpus : Serves(c, p)

LEMMA OwnerFrame ==
  ASSUME IInv, NEW u \in Clients, NEW p \in Packets, OwnerWaits(u, p)
  PROVE  ClientOK(u)'
<1> USE DEF OwnerWaits
<1> DEFINE todo == client[u].todo
           T == Targets(req[p].dst)
           D == Done(p, client[u].todo)
<1>1. /\ client[u].pc # "idle" /\ client[u].req = p
      /\ client[u].noWait => client[u].pc = "queue"
  BY DEF Owns
<1>2. /\ \A v \in Clients : Owns(v, p) => v = u
      /\ req[p].noWait = client[u].noWait
      /\ Len(todo) <= Len(T) /\ \A i \in 1 .. Len(todo) : todo[i] = T[D + i]
      /\ Len(ran[p]) = IF req[p].enmState \in {"ALLOCATED", "QUEUED"} THEN D ELSE D + 1
      /\ client[u].pc = "queue" => req[p].enmState = "ALLOCATED"
      /\ client[u].pc \in {"check", "free"} =>
           /\ req[p].enmState = "COMPLETED" /\ ~event[p]
           /\ \A c \in Cpus : ~Serves(c, p)
  BY <1>1 DEF IInv, ClientOK
<1>3. todo' = todo /\ T' = T /\ D' = D  BY DEF Done
<1>4. client[u].pc \notin {"check", "free", "queue"}  BY <1>2
<1>5. \A v \in Clients : Owns(v, p)' => v = u  BY <1>2 DEF Owns
<1>6. D \in Int
  <2>1. client[u].todo \in Seq(Dests)  BY Types DEF IInv
  <2>2. T \in Seq(Dests)
    <3>1. req[p].dst \in Dests \union {VMCPUID_ALL, VMCPUID_ALL_REVERSE}  BY Types DEF IInv
    <3> QED BY <3>1, TargetsFacts
  <2>3. Len(T) \in Nat /\ Len(client[u].todo) \in Nat  BY <2>1, <2>2, LenProperties
  <2> QED BY <2>3 DEF Done
<1>7. Len(ran'[p]) = D + 1
  <2> DEFINE m == Len(ran[p])
             n == Len(ran'[p])
  <2>1. /\ n = m + (IF req[p].enmState = "QUEUED" THEN 1 ELSE 0)
        /\ m = IF req[p].enmState = "QUEUED" THEN D ELSE D + 1
    BY <1>2
  <2> HIDE DEF m, n, D
  <2>2. n = D + 1
    <3>1. CASE req[p].enmState = "QUEUED"  BY <1>6, <2>1, <3>1
    <3>2. CASE req[p].enmState # "QUEUED"
      <4>1. n = m + 0 /\ m = D + 1  BY <2>1, <3>2
      <4> QED BY <1>6, <4>1
    <3> QED BY <3>1, <3>2
  <2> QED BY <2>2 DEF n
<1> HIDE DEF todo, T, D
<1>8. /\ \A v \in Clients : Owns(v, p)' => v = u
      /\ req'[p].noWait = client'[u].noWait
      /\ Len(todo') <= Len(T') /\ \A i \in 1 .. Len(todo') : todo'[i] = T'[D' + i]
      /\ Len(ran'[p]) = IF req'[p].enmState \in {"ALLOCATED", "QUEUED"} THEN D' ELSE D' + 1
      /\ client'[u].pc \notin {"check", "free", "queue"}
  BY <1>2, <1>3, <1>4, <1>5, <1>7
<1> QED BY <1>1, <1>4, <1>8 DEF ClientOK, todo, T, D

LEMMA ExecCore ==
  ASSUME IInv, NEW c \in Cpus, Exec(c)
  PROVE  Core'
<1>0. PICK p \in Packets : p = emt[c].req  BY ExecFacts
<1>1. /\ emt[c].pc = "exec" /\ Hand(c) = {p}
      /\ emt'[c].pc = "complete" /\ emt'[c].req = p
      /\ \A b \in Cpus \ {c} : emt'[b] = emt[b]
      /\ SetState(p, "PROCESSING") /\ ran' = [ran EXCEPT ![p] = Append(@, c)]
      /\ UNCHANGED <<event, reqs, client>>
  BY <1>0, ExecFacts
<1>2. /\ TypeOK /\ ListsOK /\ ran \in [Packets -> Seq(Cpus)] /\ ran[p] \in Seq(Cpus)
      /\ emt[c].q \in {VMCPUID_ANY, c} /\ PacketOK(p)
  BY DEF IInv, TypeOK, EmtOK
<1>3. /\ TurnOf(p, emt[c].q) /\ \A d \in Dests, k \in Kinds : p \notin Range(reqs[d][k])
      /\ \A b \in Cpus : p \in Hand(b) => b = c
  BY <1>1, <1>2 DEF ListsOK
<1>4. /\ \A o \in Packets \ {p} : req'[o] = req[o]
      /\ req'[p].enmState = "PROCESSING" /\ req'[p].dst = req[p].dst
      /\ req'[p].kind = req[p].kind /\ req'[p].noWait = req[p].noWait
      /\ req'[p].fEventSemClear = req[p].fEventSemClear
  BY <1>1, <1>2, States1 DEF States
<1>5. /\ ran'[p] = Append(ran[p], c) /\ \A o \in Packets \ {p} : ran'[o] = ran[o]
  BY <1>1, <1>2
<1>6. req[p].enmState = "QUEUED"  BY <1>3 DEF TurnOf
<1>7. \A b \in Cpus : ~Serves(b, p)  BY <1>6, Where
<1>8. \A o \in Packets \ {p} : SamePacket(o)  BY <1>1, <1>4, <1>5 DEF SamePacket
<1>9. \A o \in Packets \ {p} : ~Serves(c, o) /\ ~Serves(c, o)'
  BY <1>1 DEF Serves, ServicePcs
<1>10. /\ \A b \in Cpus \ {c} : ServiceOK(b)'
       /\ \A u \in Clients : ~Owns(u, p) => ClientOK(u)'
       /\ \A o \in Packets \ {p} : PacketOK(o)'
  BY <1>1, <1>7, <1>8, <1>9, WorkFrame
<1>11. ServiceOK(c)'
  <2>1. \A d \in Cpus : Serves(d, p)' => d = c  BY <1>1, <1>7 DEF Serves
  <2> QED BY <1>1, <1>4, <2>1 DEF ServiceOK
<1>12. /\ Len(ran'[p]) = Len(ran[p]) + 1 /\ Len(ran[p]) \in Nat
       /\ \A i \in 1 .. Len(ran[p]) : ran'[p][i] = ran[p][i]
       /\ ran'[p][Len(ran[p]) + 1] = c
  <2>1. Len(ran[p]) \in Nat  BY <1>2, LenProperties
  <2>2. /\ Len(Append(ran[p], c)) = Len(ran[p]) + 1
        /\ \A i \in 1 .. Len(ran[p]) + 1 :
             Append(ran[p], c)[i] = IF i <= Len(ran[p]) THEN ran[p][i] ELSE c
    BY <1>2, AppendProperties
  <2> DEFINE m == Len(ran[p])
  <2>3. /\ m \in Nat /\ Len(ran'[p]) = m + 1
        /\ \A i \in 1 .. m + 1 : ran'[p][i] = IF i <= m THEN ran[p][i] ELSE c
    BY <1>5, <2>1, <2>2
  <2> HIDE DEF m
  <2>4. /\ Len(ran'[p]) = m + 1 /\ m \in Nat
        /\ \A i \in 1 .. m : ran'[p][i] = ran[p][i]
        /\ ran'[p][m + 1] = c
    BY <2>3
  <2> QED BY <2>4 DEF m
<1>13. PacketOK(p)'
  <2> DEFINE T == Targets(req[p].dst)
             m == Len(ran[p])
             n == Len(T)
  <2>1. /\ T' = T /\ m \in Nat /\ m < n /\ T[m + 1] = emt[c].q
        /\ m' = m + 1
    BY <1>3, <1>4, <1>12 DEF TurnOf
  <2>2. n \in Nat /\ \A i \in 1 .. n : T[i] = VMCPUID_ANY <=> req[p].dst = VMCPUID_ANY
    <3>1. req[p].dst \in Dests \union {VMCPUID_ALL, VMCPUID_ALL_REVERSE}  BY <1>2, Types
    <3> QED BY <3>1, TargetsFacts
  <2>3. req[p].dst # VMCPUID_ANY => \A i \in 1 .. m : ran[p][i] = T[i]  BY <1>2 DEF PacketOK
  <2>4. \A i \in 1 .. m : ran'[p][i] = ran[p][i]  BY <1>12
  <2>5. ran'[p][m + 1] = c  BY <1>12
  <2>6. ~event'[p]  BY <1>1, <1>2, <1>6 DEF PacketOK
  <2>7. req'[p].noWait => req'[p].dst \in Dests  BY <1>2, <1>4 DEF PacketOK
  <2> HIDE DEF T, m, n
  <2>8. m + 1 \in 1 .. n /\ m + 1 <= n  BY <2>1, <2>2
  <2>9. req[p].dst # VMCPUID_ANY => T[m + 1] = c  BY <1>2, <2>1, <2>2, <2>8
  <2>10. req[p].dst # VMCPUID_ANY => \A i \in 1 .. m + 1 : ran'[p][i] = T[i]
    <3>1. SUFFICES ASSUME req[p].dst # VMCPUID_ANY, NEW i \in 1 .. m + 1 PROVE ran'[p][i] = T[i]
      OBVIOUS
    <3>2. CASE i = m + 1  BY <2>5, <2>9, <3>1, <3>2
    <3>3. CASE i # m + 1
      <4>1. i \in 1 .. m  BY <2>1, <3>3
      <4> QED BY <2>3, <2>4, <3>1, <4>1
    <3> QED BY <3>2, <3>3
  <2>11. /\ m' <= n /\ T' = T
         /\ req'[p].dst # VMCPUID_ANY => \A i \in 1 .. m' : ran'[p][i] = T[i]
    BY <1>4, <2>1, <2>8, <2>10
  <2> QED BY <1>4, <2>6, <2>7, <2>11 DEF PacketOK, T, m, n
<1>14. \A u \in Clients : ClientOK(u)'
  <2>1. SUFFICES ASSUME NEW u \in Clients, Owns(u, p) PROVE ClientOK(u)'  BY <1>10
  <2>2. Len(ran'[p]) = Len(ran[p]) + (IF req[p].enmState = "QUEUED" THEN 1 ELSE 0)
    BY <1>6, <1>12
  <2>3. Len(ran[p]) \in Nat  BY <1>12
  <2>4. OwnerWaits(u, p)  BY <1>1, <1>4, <1>6, <2>1, <2>2, <2>3 DEF OwnerWaits
  <2> QED BY <2>4, OwnerFrame
<1>15. ListsOK'
  <2>1. \A o \in Packets \ {p} : \A d : TurnOf(o, d) => TurnOf(o, d)'
    BY <1>8 DEF TurnOf, SamePacket
  <2>2. Hand(c)' = {}  BY <1>1 DEF Hand, HandPcs
  <2>3. \A b \in Cpus \ {c} : Hand(b)' = Hand(b) /\ p \notin Hand(b)  BY <1>1, <1>3 DEF Hand
  <2>4. \A d \in Dests, k \in Kinds :
          /\ IsInjective(reqs'[d][k])
          /\ \A o \in Range(reqs'[d][k]) : TurnOf(o, d)' /\ req'[o].kind = k
    <3>1. SUFFICES ASSUME NEW d \in Dests, NEW k \in Kinds
                   PROVE  /\ IsInjective(reqs[d][k])
                          /\ \A o \in Range(reqs[d][k]) : TurnOf(o, d)' /\ req'[o].kind = k
      BY <1>1
    <3>2. \A o \in Range(reqs[d][k]) : o \in Packets \ {p}  BY <1>3, Where
    <3> QED BY <1>2, <1>4, <2>1, <3>2 DEF ListsOK
  <2>5. ASSUME NEW b \in Cpus, NEW o \in Hand(b)'
        PROVE  /\ TurnOf(o, emt[b].q)' /\ req'[o].kind = emt'[b].kind
               /\ \A d \in Dests, k \in Kinds : o \notin Range(reqs'[d][k])
               /\ \A a \in Cpus : o \in Hand(a)' => a = b
    <3>1. b \in Cpus \ {c} /\ o \in Hand(b) /\ o \in Packets \ {p} /\ emt'[b] = emt[b]
      BY <1>1, <2>2, <2>3, <2>5, Where
    <3>2. /\ TurnOf(o, emt[b].q) /\ req[o].kind = emt[b].kind
          /\ \A d \in Dests, k \in Kinds : o \notin Range(reqs[d][k])
          /\ \A a \in Cpus : o \in Hand(a) => a = b
      BY <1>2, <3>1 DEF ListsOK
    <3>3. TurnOf(o, emt[b].q)'  BY <1>8, <3>1, <3>2 DEF TurnOf, SamePacket
    <3> QED BY <1>1, <1>4, <2>2, <2>3, <3>1, <3>2, <3>3
  <2>6. ASSUME NEW o \in Packets, req'[o].enmState = "QUEUED"
        PROVE  \/ \E d \in Dests, k \in Kinds : o \in Range(reqs'[d][k])
               \/ \E b \in Cpus : o \in Hand(b)'
    <3>1. o # p /\ req[o].enmState = "QUEUED"  BY <1>4, <2>6
    <3>2. \/ \E d \in Dests, k \in Kinds : o \in Range(reqs[d][k])
          \/ \E b \in Cpus : o \in Hand(b)
      BY <1>2, <3>1 DEF ListsOK
    <3> QED BY <1>1, <2>3, <3>1, <3>2
  <2> QED BY <2>4, <2>5, <2>6 DEF ListsOK
<1>16. (\A b \in Cpus : ServiceOK(b)') /\ \A o \in Packets : PacketOK(o)'
  BY <1>10, <1>11, <1>13
<1> QED BY <1>14, <1>15, <1>16 DEF Core

\* The EMT that has run a request is alone with it.
LEMMA Alone ==
  ASSUME IInv, NEW c \in Cpus, emt[c].pc \in ServicePcs, NEW p, p = emt[c].req
  PROVE  /\ p \in Packets /\ Serves(c, p) /\ \A b \in Cpus : Serves(b, p) => b = c
         /\ req[p].enmState = IF emt[c].pc = "complete" THEN "PROCESSING" ELSE "COMPLETED"
         /\ emt[c].pc = "signal" => ~req[p].noWait /\ ~req[p].fEventSemClear
         /\ ~event[p] /\ Hand(c) = {} /\ Len(ran[p]) \in Nat
<1>1. Serves(c, p)  BY DEF Serves
<1>2. p \in Packets /\ ~event[p] /\ \A b \in Cpus : Serves(b, p) => b = c  BY <1>1, Where
<1>3. ServiceOK(c)  BY DEF IInv
<1>4. Hand(c) = {}  BY DEF Hand, HandPcs, ServicePcs
<1>5. ran[p] \in Seq(Cpus)  BY <1>2, Types DEF IInv
<1>6. Len(ran[p]) \in Nat  BY <1>5, LenProperties
<1> QED BY <1>1, <1>2, <1>3, <1>4, <1>6 DEF ServiceOK

\* Its steps: the packet is as it was, but for its state and its event.
ReportFrame(c, p) ==
  /\ p = emt[c].req /\ emt[c].pc \in ServicePcs /\ UNCHANGED <<reqs, client, ran>>
  /\ \A b \in Cpus \ {c} : emt'[b] = emt[b]
  /\ emt'[c].pc \notin HandPcs /\ (emt'[c].pc \in ServicePcs => emt'[c].req = p)
  /\ \A o \in Packets \ {p} : req'[o] = req[o] /\ event'[o] = event[o]
  /\ req'[p].dst = req[p].dst /\ req'[p].noWait = req[p].noWait

Reports(c, p) ==
  /\ \/ req'[p].enmState = "COMPLETED"
     \/ req'[p].enmState \in {"FREE", "INVALID"} /\ req[p].noWait /\ emt[c].pc # "complete"
  /\ event'[p] => /\ req'[p].enmState = "COMPLETED" /\ ~req'[p].fEventSemClear
                  /\ emt'[c].pc \notin ServicePcs
  /\ emt'[c].pc \in ServicePcs => emt'[c].pc # "complete" /\ req'[p].enmState = "COMPLETED"
  /\ emt'[c].pc = "signal" => ~req'[p].noWait /\ ~req'[p].fEventSemClear

LEMMA ReportCore ==
  ASSUME IInv, NEW c \in Cpus, NEW p \in Packets, ReportFrame(c, p), Reports(c, p)
  PROVE  Core'
<1>0. /\ Serves(c, p) /\ \A b \in Cpus : Serves(b, p) => b = c
      /\ req[p].enmState = IF emt[c].pc = "complete" THEN "PROCESSING" ELSE "COMPLETED"
      /\ Hand(c) = {} /\ Len(ran[p]) \in Nat
  BY Alone DEF ReportFrame
<1>1. \A o \in Packets \ {p} : SamePacket(o)  BY DEF ReportFrame, SamePacket
<1>2. \A o \in Packets \ {p} : ~Serves(c, o) /\ ~Serves(c, o)'  BY DEF ReportFrame, Serves
<1>3. /\ \A b \in Cpus \ {c} : ServiceOK(b)'
      /\ \A u \in Clients : ~Owns(u, p) => ClientOK(u)'
      /\ \A o \in Packets \ {p} : PacketOK(o)'
  BY <1>0, <1>1, <1>2, WorkFrame DEF ReportFrame
<1>4. \A b \in Cpus : Serves(b, p)' => b = c /\ emt'[c].pc \in ServicePcs
  BY <1>0 DEF ReportFrame, Serves
<1>5. ServiceOK(c)'  BY <1>4 DEF ReportFrame, Reports, ServiceOK, Serves
<1>6. ASSUME NEW u \in Clients, Owns(u, p)
      PROVE  req'[p].enmState = "COMPLETED" /\ ClientOK(u)'
  <2>1. /\ req[p].noWait = client[u].noWait
        /\ client[u].pc = "queue" => req[p].enmState = "ALLOCATED"
    BY <1>6 DEF IInv, ClientOK, Owns
  <2>2. client[u].noWait => client[u].pc = "queue"  BY <1>6 DEF Owns
  <2>3. req[p].enmState # "ALLOCATED" /\ req[p].enmState # "QUEUED"  BY <1>0
  <2>4. req'[p].enmState = "COMPLETED"  BY <2>1, <2>2, <2>3 DEF Reports
  <2>5. ran' = ran /\ client' = client /\ req'[p].dst = req[p].dst /\ req'[p].noWait = req[p].noWait
    BY DEF ReportFrame
  <2>6. Len(ran'[p]) = Len(ran[p]) + (IF req[p].enmState = "QUEUED" THEN 1 ELSE 0)
    <3> DEFINE m == Len(ran[p])
    <3>1. m \in Nat /\ Len(ran'[p]) = m  BY <1>0, <2>5
    <3> HIDE DEF m
    <3>2. Len(ran'[p]) = m + (IF req[p].enmState = "QUEUED" THEN 1 ELSE 0)  BY <2>3, <3>1
    <3> QED BY <3>2 DEF m
  <2>7. OwnerWaits(u, p)
    <3>1. \E b \in Cpus : Serves(b, p)  BY Zenon, <1>0
    <3>2. Len(ran[p]) \in Nat /\ req'[p].enmState \in {"PROCESSING", "COMPLETED"}  BY <1>0, <2>4
    <3> QED BY Zenon, <1>6, <2>3, <2>5, <2>6, <3>1, <3>2 DEF OwnerWaits
  <2>8. ClientOK(u)'  BY <2>7, OwnerFrame
  <2> QED BY <2>4, <2>8
<1>7. PacketOK(p)'
  <2>1. PacketOK(p)  BY DEF IInv
  <2>2. \A u \in Clients : Owns(u, p)' <=> Owns(u, p)  BY DEF ReportFrame, Owns
  <2>3. event'[p] => \A b \in Cpus : ~Serves(b, p)'  BY <1>4 DEF Reports
  <2>4. event'[p] => req'[p].enmState = "COMPLETED" /\ ~req'[p].fEventSemClear  BY DEF Reports
  <2>5. req'[p].enmState \in {"INVALID", "FREE"} => \A u \in Clients : ~Owns(u, p)'
    BY <1>6, <2>2
  <2>6. ran' = ran /\ req'[p].dst = req[p].dst /\ req'[p].noWait = req[p].noWait
    BY DEF ReportFrame
  <2>7. Len(ran'[p]) = Len(ran[p]) /\ Targets(req'[p].dst) = Targets(req[p].dst)  BY <2>6
  <2> QED BY Zenon, <2>1, <2>3, <2>4, <2>5, <2>6, <2>7 DEF PacketOK
<1>8. ListsOK'
  <2>1. Hand(c)' = {}  BY DEF ReportFrame, Hand
  <2>2. SameHands  BY <1>0, <2>1, HandsOf DEF ReportFrame
  <2>3. \A o \in Packets :
          \/ /\ req'[o].enmState = req[o].enmState /\ req'[o].dst = req[o].dst
             /\ req'[o].kind = req[o].kind /\ ran'[o] = ran[o]
          \/ req[o].enmState # "QUEUED" /\ req'[o].enmState # "QUEUED"
    <3>1. req[p].enmState # "QUEUED" /\ req'[p].enmState # "QUEUED"  BY <1>0 DEF Reports
    <3>2. \A o \in Packets \ {p} : req'[o] = req[o] /\ ran'[o] = ran[o]  BY DEF ReportFrame
    <3> QED BY <3>1, <3>2
  <2> QED BY <2>2, <2>3, ListsFrame DEF ReportFrame
<1> QED BY <1>3, <1>5, <1>6, <1>7, <1>8 DEF Core

LEMMA ReportSteps ==
  ASSUME IInv, NEW c \in Cpus, Complete(c) \/ Flags(c) \/ Signal(c)
  PROVE  Core'
<1>0. PICK p : p = emt[c].req  OBVIOUS
<1>1. /\ TypeOK /\ emt[c].pc \in ServicePcs /\ UNCHANGED <<reqs, client, ran>>
      /\ event \in [Packets -> BOOLEAN]
  BY DEF IInv, TypeOK, Complete, Flags, Signal, EmtAt, ServicePcs
<1>2. /\ p \in Packets
      /\ req[p].enmState = IF emt[c].pc = "complete" THEN "PROCESSING" ELSE "COMPLETED"
      /\ emt[c].pc = "signal" => ~req[p].noWait /\ ~req[p].fEventSemClear
      /\ ~event[p]
  BY <1>0, <1>1, Alone
<1>3. CASE Complete(c)
  <2>1. /\ SetState(p, "COMPLETED") /\ EmtGo(c, "flags") /\ event' = event
    BY <1>0, <1>3 DEF Complete
  <2>2. /\ \A o \in Packets \ {p} : req'[o] = req[o]
        /\ req'[p].enmState = "COMPLETED" /\ req'[p].dst = req[p].dst
        /\ req'[p].noWait = req[p].noWait
    BY <1>1, <1>2, <2>1, States1 DEF States
  <2>3. /\ emt'[c].pc = "flags" /\ emt'[c].req = p
        /\ \A b \in Cpus \ {c} : emt'[b] = emt[b]
    BY <1>0, <1>1, <2>1, Goes DEF EmtPcs
  <2>4. "flags" \notin HandPcs  BY DEF HandPcs
  <2>5. ReportFrame(c, p)  BY Zenon, <1>0, <1>1, <1>2, <2>1, <2>2, <2>3, <2>4 DEF ReportFrame
  <2>6. Reports(c, p)  BY <1>0, <1>1, <1>2, <2>1, <2>2, <2>3, <2>4 DEF Reports, ServicePcs
  <2> QED BY <1>2, <2>5, <2>6, ReportCore
<1>4. CASE Flags(c) /\ req[p].noWait
  <2>1. VMR3ReqFree(p) /\ Resume(c) /\ event' = event /\ emt[c].pc = "flags"
    BY <1>0, <1>4 DEF Flags, EmtAt
  <2>2. /\ \A o \in Packets \ {p} : req'[o] = req[o]
        /\ req'[p].enmState \in {"FREE", "INVALID"} /\ req'[p].dst = req[p].dst
        /\ req'[p].noWait = req[p].noWait
    BY <1>1, <1>2, <2>1, Freed, States1
  <2>3. /\ emt'[c].pc \in {"top", "clear"} /\ \A b \in Cpus \ {c} : emt'[b] = emt[b]
    BY <1>1, <2>1, Resumes
  <2>4. emt'[c].pc \notin HandPcs /\ emt'[c].pc \notin ServicePcs /\ emt'[c].pc # "signal"
    BY <2>3 DEF HandPcs, ServicePcs
  <2>5. ReportFrame(c, p)  BY Zenon, <1>0, <1>1, <1>2, <1>4, <2>1, <2>2, <2>3, <2>4 DEF ReportFrame
  <2>6. Reports(c, p)  BY <1>0, <1>1, <1>2, <1>4, <2>1, <2>2, <2>3, <2>4 DEF Reports, ServicePcs
  <2> QED BY <1>2, <2>5, <2>6, ReportCore
<1>5. CASE Flags(c) /\ ~req[p].noWait
  <2>1. /\ req' = [req EXCEPT ![p].fEventSemClear = FALSE] /\ EmtGo(c, "signal")
        /\ event' = event /\ emt[c].pc = "flags"
    BY <1>0, <1>5 DEF Flags, EmtAt
  <2>2. /\ \A o \in Packets \ {p} : req'[o] = req[o]
        /\ req'[p].enmState = req[p].enmState /\ req'[p].dst = req[p].dst
        /\ req'[p].noWait = req[p].noWait /\ ~req'[p].fEventSemClear
    BY <1>1, <1>2, <2>1, Clears
  <2>3. /\ emt'[c].pc = "signal" /\ emt'[c].req = p
        /\ \A b \in Cpus \ {c} : emt'[b] = emt[b]
    BY <1>0, <1>1, <2>1, Goes DEF EmtPcs
  <2>4. "signal" \notin HandPcs  BY DEF HandPcs
  <2>5. ReportFrame(c, p)  BY Zenon, <1>0, <1>1, <1>2, <1>5, <2>1, <2>2, <2>3, <2>4 DEF ReportFrame
  <2>6. Reports(c, p)  BY <1>0, <1>1, <1>2, <1>5, <2>1, <2>2, <2>3, <2>4 DEF Reports, ServicePcs
  <2> QED BY <1>2, <2>5, <2>6, ReportCore
<1>6. CASE Signal(c)
  <2>1. /\ event' = [event EXCEPT ![p] = TRUE] /\ Resume(c) /\ req' = req
        /\ emt[c].pc = "signal"
    BY <1>0, <1>6 DEF Signal, EmtAt
  <2>2. \A o \in Packets \ {p} : event'[o] = event[o]  BY <1>2, <2>1
  <2>3. /\ emt'[c].pc \in {"top", "clear"} /\ \A b \in Cpus \ {c} : emt'[b] = emt[b]
    BY <1>1, <2>1, Resumes
  <2>4. emt'[c].pc \notin HandPcs /\ emt'[c].pc \notin ServicePcs /\ emt'[c].pc # "signal"
    BY <2>3 DEF HandPcs, ServicePcs
  <2>5. ReportFrame(c, p)  BY Zenon, <1>0, <1>1, <1>2, <2>1, <2>2, <2>3, <2>4 DEF ReportFrame
  <2>6. Reports(c, p)  BY <1>0, <1>1, <1>2, <2>1, <2>2, <2>3, <2>4 DEF Reports, ServicePcs
  <2> QED BY <1>2, <2>5, <2>6, ReportCore
<1> QED BY <1>3, <1>4, <1>5, <1>6

-----------------------------------------------------------------------------
(* Steps of the clients. *)

LEMMA ClientEmt ==
  ASSUME NEW u \in Clients, VMR3ReqAllocU(u) \/ ClientNext(u)
  PROVE  emt' = emt /\ SameHands /\ SameService
<1>1. emt' = emt
  BY Zenon DEF VMR3ReqAllocU, ClientNext, Queue, SetFF, NotifyFF, Poll, WaitEvent, CheckState, Free
<1> QED BY SMTT(40), <1>1 DEF SameHands, SameService, Hand

\* Client u works on packet p, which nobody else has; u owns it before or after.
LEMMA ClientWork ==
  ASSUME IInv, NEW u \in Clients, NEW p \in Packets, emt' = emt,
         \A v \in Clients \ {u} : client'[v] = client[v] /\ ~Owns(v, p),
         \A o \in Packets \ {p} : SamePacket(o) /\ ~Owns(u, o) /\ ~Owns(u, o)'
  PROVE  /\ \A v \in Clients \ {u} : ClientOK(v)'
         /\ \A o \in Packets \ {p} : PacketOK(o)'
<1>1. \A b \in Cpus : \A o : Serves(b, o)' <=> Serves(b, o)  BY DEF Serves
<1>2. \A v \in Clients \ {u} : \A o : Owns(v, o)' <=> Owns(v, o)  BY DEF Owns
<1>3. \A v \in Clients \ {u} : SameClient(v)  BY DEF SameClient
<1>4. \A v \in Clients, o \in Packets \ {p} : Owns(v, o)' => Owns(v, o)  BY <1>2
<1>5. \A o \in Packets \ {p} : PacketOK(o)'  BY <1>1, <1>4, PacketFrame
<1>6. ASSUME NEW v \in Clients \ {u} PROVE ClientOK(v)'
  <2>1. \A o \in Packets : Owns(v, o) => o # p  OBVIOUS
  <2> QED BY <1>1, <1>3, <1>4, <2>1, ClientFrame DEF SamePacket
<1> QED BY <1>5, <1>6

\* The client is in a call and owns packet p.
LEMMA InCall ==
  ASSUME IInv, NEW u \in Clients, NEW p, p = client[u].req,
         client[u].pc \in {"queue", "poll", "wait", "check", "free"}
  PROVE  /\ p \in Packets /\ Owns(u, p) /\ \A v \in Clients : Owns(v, p) => v = u
         /\ \A o : Owns(u, o) => o = p
         /\ client[u].noWait => client[u].pc = "queue"
         /\ req[p].noWait = client[u].noWait
         /\ Len(client[u].todo) <= Len(Targets(req[p].dst))
         /\ \A i \in 1 .. Len(client[u].todo) :
              client[u].todo[i] = Targets(req[p].dst)[Done(p, client[u].todo) + i]
         /\ Len(ran[p]) = IF req[p].enmState \in {"ALLOCATED", "QUEUED"}
                          THEN Done(p, client[u].todo) ELSE Done(p, client[u].todo) + 1
         /\ client[u].pc = "queue" => req[p].enmState = "ALLOCATED"
         /\ client[u].pc \in {"poll", "wait"} =>
              req[p].enmState \in {"QUEUED", "PROCESSING", "COMPLETED"}
         /\ client[u].pc \in {"check", "free"} =>
              req[p].enmState = "COMPLETED" /\ ~event[p] /\ \A c \in Cpus : ~Serves(c, p)
         /\ client[u].pc = "free" => Len(client[u].todo) = 1
<1>1. ClientOK(u)  BY DEF IInv
<1>2. client[u].pc # "idle"  OBVIOUS
<1>3. p \in Packets /\ (client[u].noWait => client[u].pc = "queue")
  BY <1>1, <1>2 DEF ClientOK
<1>4. Owns(u, p) /\ \A o : Owns(u, o) => o = p  BY <1>2, <1>3 DEF Owns
<1> QED BY <1>1, <1>2, <1>3, <1>4 DEF ClientOK

\* The types of what is counted.
LEMMA Counts ==
  ASSUME IInv, NEW u \in Clients, NEW p \in Packets
  PROVE  /\ Targets(req[p].dst) \in Seq(Dests) /\ Len(Targets(req[p].dst)) \in Nat \ {0}
         /\ client[u].todo \in Seq(Dests) /\ Len(client[u].todo) \in Nat
         /\ Done(p, client[u].todo) \in Int
         /\ ran[p] \in Seq(Cpus) /\ Len(ran[p]) \in Nat
<1>1. /\ client[u].todo \in Seq(Dests) /\ ran[p] \in Seq(Cpus)
      /\ req[p].dst \in Dests \union {VMCPUID_ALL, VMCPUID_ALL_REVERSE}
  BY Types DEF IInv
<1>2. Len(client[u].todo) \in Nat /\ Len(ran[p]) \in Nat  BY <1>1, LenProperties
<1>3. Targets(req[p].dst) \in Seq(Dests) /\ Len(Targets(req[p].dst)) \in Nat \ {0}
  BY <1>1, TargetsFacts
<1>4. Done(p, client[u].todo) \in Int  BY <1>2, <1>3 DEF Done
<1> QED BY <1>1, <1>2, <1>3, <1>4

\* The notifications do not touch a packet.
LEMMA NotifyCore ==
  ASSUME IInv, NEW u \in Clients, SetFF(u) \/ NotifyFF(u)
  PROVE  Core'
<1>0. /\ UNCHANGED <<req, event, reqs, ran>> /\ emt' = emt /\ SameHands /\ SameService
      /\ client[u].pc \in {"setff", "notify"}
  <2>1. ClientNext(u)  BY DEF ClientNext
  <2> QED BY <2>1, ClientEmt DEF SetFF, NotifyFF, ClientAt
<1>1. \A v \in Clients \ {u} : client'[v] = client[v]  BY Zenon, ClientMoves DEF ClientNext
<1>2. \/ /\ client'[u].pc \in {"notify", "poll", "wait"} /\ client'[u].req = client[u].req
         /\ client'[u].noWait = client[u].noWait /\ client'[u].todo = client[u].todo
         /\ client[u].noWait => client'[u].pc = "notify"
      \/ client[u].noWait /\ client'[u].pc = "idle"
  BY Zenon, ClientMoves, Idles, <1>0 DEF ClientNext, SetFF, NotifyFF, ClientAt
<1>3. \A b \in Cpus : \A o : Serves(b, o)' <=> Serves(b, o)  BY <1>0, ServesSame
<1>4. \A v \in Clients \ {u} : \A o : Owns(v, o)' <=> Owns(v, o)  BY <1>1 DEF Owns
<1>5. \A o : Owns(u, o)' <=> Owns(u, o)  BY <1>0, <1>2 DEF Owns
<1>6. \A v \in Clients : \A o : Owns(v, o)' <=> Owns(v, o)  BY <1>4, <1>5
<1>7. \A p \in Packets : PacketOK(p)'
  <2>1. \A p \in Packets : SamePacket(p)  BY <1>0 DEF SamePacket
  <2> QED BY <1>3, <1>6, <2>1, PacketFrame
<1>8. ASSUME NEW v \in Clients \ {u} PROVE ClientOK(v)'
  <2>1. SameClient(v)  BY <1>1 DEF SameClient
  <2> QED BY <1>0, <1>3, <1>6, <2>1, ClientFrame
<1>9. ClientOK(u)'
  <2> DEFINE p == client[u].req
             D == Done(p, client[u].todo)
             T == Targets(req[p].dst)
  <2>1. CASE client'[u].pc = "idle"  BY <2>1 DEF ClientOK
  <2>2. CASE client'[u].pc # "idle"
    <3>1. /\ client'[u].pc \in {"notify", "poll", "wait"} /\ client'[u].req = client[u].req
          /\ client'[u].noWait = client[u].noWait /\ client'[u].todo = client[u].todo
          /\ client[u].noWait => client'[u].pc = "notify"
      BY <1>2, <2>2
    <3>2. ClientOK(u) /\ client[u].pc # "idle"  BY <1>0 DEF IInv
    <3>3. p' = p /\ p \in Packets  BY <3>1, <3>2 DEF ClientOK
    <3>4. CASE ~Owns(u, p)  BY <1>6, <3>1, <3>3, <3>4 DEF ClientOK
    <3>5. CASE Owns(u, p)
      <4>1. /\ \A v \in Clients : Owns(v, p) => v = u
            /\ req[p].noWait = client[u].noWait
            /\ Len(client[u].todo) <= Len(T)
            /\ \A i \in 1 .. Len(client[u].todo) : client[u].todo[i] = T[D + i]
            /\ Len(ran[p]) = IF req[p].enmState \in {"ALLOCATED", "QUEUED"} THEN D ELSE D + 1
            /\ req[p].enmState \in {"QUEUED", "PROCESSING", "COMPLETED"}
        BY <1>0, <3>2, <3>5 DEF ClientOK
      <4>2. D' = D /\ T' = T  BY <1>0, <3>1 DEF Done
      <4> HIDE DEF D, T
      <4>3. /\ \A v \in Clients : Owns(v, p)' => v = u
            /\ req'[p].noWait = client'[u].noWait
            /\ Len(client'[u].todo) <= Len(T')
            /\ \A i \in 1 .. Len(client'[u].todo) : client'[u].todo[i] = T'[D' + i]
            /\ Len(ran'[p]) = IF req'[p].enmState \in {"ALLOCATED", "QUEUED"} THEN D' ELSE D' + 1
            /\ req'[p].enmState \in {"QUEUED", "PROCESSING", "COMPLETED"}
            /\ client'[u].pc \notin {"queue", "check", "free"}
        BY <1>0, <1>6, <3>1, <4>1, <4>2
      <4> QED BY <3>1, <3>3, <4>3 DEF ClientOK, D, T
    <3> QED BY <3>4, <3>5
  <2> QED BY <2>1, <2>2
<1>10. \A c \in Cpus : ServiceOK(c)'  BY <1>0, ServiceFrame
<1>11. ListsOK'  BY <1>0, ListsFrame
<1> QED BY <1>7, <1>8, <1>9, <1>10, <1>11 DEF Core

\* A client looks at its packet and goes on: to wait, to look at the state, to return.
LEMMA LookCore ==
  ASSUME IInv, NEW u \in Clients, NEW p \in Packets, p = client[u].req,
         client[u].pc \in {"poll", "wait", "check"}, emt' = emt, SameHands, SameService,
         UNCHANGED <<reqs, ran>>, \A v \in Clients \ {u} : client'[v] = client[v],
         client'[u].pc \in {"wait", "check", "free"}, client'[u].req = p,
         client'[u].noWait = client[u].noWait, client'[u].todo = client[u].todo,
         \A o \in Packets \ {p} : SamePacket(o),
         req'[p].enmState = req[p].enmState, req'[p].dst = req[p].dst,
         req'[p].kind = req[p].kind, req'[p].noWait = req[p].noWait, ~event'[p],
         (\E c \in Cpus : Serves(c, p)) => req'[p].fEventSemClear = req[p].fEventSemClear,
         client'[u].pc \in {"check", "free"} =>
           req[p].enmState = "COMPLETED" /\ \A c \in Cpus : ~Serves(c, p),
         client'[u].pc = "free" => Len(client[u].todo) = 1
  PROVE  Core'
<1> DEFINE D == Done(p, client[u].todo)
           T == Targets(req[p].dst)
<1>1. /\ Owns(u, p) /\ \A v \in Clients : Owns(v, p) => v = u
      /\ \A o : Owns(u, o) => o = p
      /\ ~client[u].noWait
      /\ req[p].noWait = client[u].noWait
      /\ Len(client[u].todo) <= Len(T)
      /\ \A i \in 1 .. Len(client[u].todo) : client[u].todo[i] = T[D + i]
      /\ Len(ran[p]) = IF req[p].enmState \in {"ALLOCATED", "QUEUED"} THEN D ELSE D + 1
      /\ req[p].enmState \in {"QUEUED", "PROCESSING", "COMPLETED"}
  BY InCall
<1>2. D' = D /\ T' = T  BY DEF Done
<1> HIDE DEF D, T
<1>3. /\ Owns(u, p)' /\ \A o : Owns(u, o)' => o = p  BY <1>1 DEF Owns
<1>4. \A v \in Clients \ {u} : ~Owns(v, p) /\ ~Owns(v, p)'  BY <1>1 DEF Owns
<1>5. \A o \in Packets \ {p} : SamePacket(o) /\ ~Owns(u, o) /\ ~Owns(u, o)'  BY <1>1, <1>3
<1>6. /\ \A v \in Clients \ {u} : ClientOK(v)'
      /\ \A o \in Packets \ {p} : PacketOK(o)'
  BY <1>4, <1>5, ClientWork
<1>7. \A c \in Cpus : Serves(c, p)' <=> Serves(c, p)  BY DEF Serves
<1>8. ClientOK(u)'
  <2>1. /\ \A v \in Clients : Owns(v, p)' => v = u
        /\ req'[p].noWait = client'[u].noWait
        /\ Len(client'[u].todo) <= Len(T')
        /\ \A i \in 1 .. Len(client'[u].todo) : client'[u].todo[i] = T'[D' + i]
        /\ Len(ran'[p]) = IF req'[p].enmState \in {"ALLOCATED", "QUEUED"} THEN D' ELSE D' + 1
        /\ client'[u].pc \notin {"queue", "idle"}
        /\ req'[p].enmState \in {"QUEUED", "PROCESSING", "COMPLETED"}
        /\ client'[u].pc \in {"check", "free"} =>
             /\ req'[p].enmState = "COMPLETED" /\ ~event'[p]
             /\ \A c \in Cpus : ~Serves(c, p)'
        /\ client'[u].pc = "free" => Len(client'[u].todo) = 1
    BY <1>1, <1>2, <1>4, <1>7
  <2>2. ~client'[u].noWait /\ client'[u].req = p  BY <1>1
  <2> QED BY <2>1, <2>2 DEF ClientOK, D, T
<1>9. PacketOK(p)'
  <2>1. PacketOK(p)  BY DEF IInv
  <2>2. req'[p].enmState \notin {"INVALID", "FREE"}  BY <1>1
  <2> QED BY <2>1, <2>2 DEF PacketOK
<1>10. \A c \in Cpus : ServiceOK(c)'
  <2>1. \A o \in Packets : (\E c \in Cpus : Serves(c, o)) =>
          /\ req'[o].enmState = req[o].enmState /\ req'[o].noWait = req[o].noWait
          /\ req'[o].fEventSemClear = req[o].fEventSemClear
    BY DEF SamePacket
  <2> QED BY <2>1, ServiceFrame
<1>11. ListsOK'
  <2>1. \A o \in Packets :
          /\ req'[o].enmState = req[o].enmState /\ req'[o].dst = req[o].dst
          /\ req'[o].kind = req[o].kind /\ ran'[o] = ran[o]
    BY DEF SamePacket
  <2> QED BY <2>1, ListsFrame
<1> QED BY <1>6, <1>8, <1>9, <1>10, <1>11 DEF Core

LEMMA WaitSteps ==
  ASSUME IInv, NEW u \in Clients, Poll(u) \/ WaitEvent(u)
  PROVE  Core'
<1>0. /\ emt' = emt /\ SameHands /\ SameService /\ UNCHANGED <<reqs, ran>>
      /\ client[u].pc \in {"poll", "wait"}
      /\ TypeOK /\ event \in [Packets -> BOOLEAN]
      /\ \A v \in Clients \ {u} : client'[v] = client[v]
  BY ClientEmt, ClientMoves DEF ClientNext, IInv, TypeOK, Poll, WaitEvent, ClientAt
<1>1. PICK p \in Packets : p = client[u].req  BY <1>0, Held
<1>2. PacketOK(p)  BY DEF IInv
<1>3. CASE Poll(u)
  <2>1. /\ event' = [event EXCEPT ![p] = FALSE] /\ ClientGo(u, "wait")
        /\ req' = [req EXCEPT ![p].fEventSemClear = @ \/ event[p]]
    BY <1>1, <1>3 DEF Poll
  <2>2. PICK b \in BOOLEAN : b = (req[p].fEventSemClear \/ event[p])  OBVIOUS
  <2>3. req' = [req EXCEPT ![p].fEventSemClear = b]
    BY <1>0, <2>1, <2>2, Types
  <2>4. /\ \A o \in Packets \ {p} : req'[o] = req[o]
        /\ req'[p].fEventSemClear = b
        /\ req'[p].enmState = req[p].enmState /\ req'[p].dst = req[p].dst
        /\ req'[p].kind = req[p].kind /\ req'[p].noWait = req[p].noWait
    BY <1>0, <2>3, Clears
  <2>5. ~event'[p] /\ \A o \in Packets \ {p} : SamePacket(o)
    BY <1>0, <2>1, <2>4 DEF SamePacket
  <2>6. /\ client'[u].pc = "wait" /\ client'[u].req = p
        /\ client'[u].noWait = client[u].noWait /\ client'[u].todo = client[u].todo
    BY <1>1, <2>1, ClientGoes DEF ClientPcs
  <2>7. (\E c \in Cpus : Serves(c, p)) => req'[p].fEventSemClear = req[p].fEventSemClear
    <3>1. SUFFICES ASSUME \E c \in Cpus : Serves(c, p)
                   PROVE  req'[p].fEventSemClear = req[p].fEventSemClear
      OBVIOUS
    <3>2. ~event[p]  BY <1>2, <3>1 DEF PacketOK
    <3>3. req[p].fEventSemClear \in BOOLEAN
      <4>1. req[p] \in ReqType  BY <1>0, Types
      <4> QED BY <4>1 DEF ReqType
    <3> QED BY <2>2, <2>4, <3>2, <3>3
  <2> QED BY <1>0, <1>1, <2>4, <2>5, <2>6, <2>7, LookCore
<1>4. CASE WaitEvent(u)
  <2>1. /\ event' = [event EXCEPT ![p] = FALSE] /\ ClientGo(u, "check")
        /\ req' = req /\ event[p]
    BY <1>1, <1>4 DEF WaitEvent, WaitOver
  <2>2. ~event'[p] /\ \A o \in Packets \ {p} : SamePacket(o)
    BY <1>0, <2>1 DEF SamePacket
  <2>3. /\ client'[u].pc = "check" /\ client'[u].req = p
        /\ client'[u].noWait = client[u].noWait /\ client'[u].todo = client[u].todo
    BY <1>1, <2>1, ClientGoes DEF ClientPcs
  <2>4. req[p].enmState = "COMPLETED" /\ \A c \in Cpus : ~Serves(c, p)
    BY <1>2, <2>1 DEF PacketOK
  <2> QED BY <1>0, <1>1, <2>1, <2>2, <2>3, <2>4, LookCore
<1> QED BY <1>3, <1>4

\* A request for all CPUs goes to the next of them, or the call is about to return.
LEMMA CheckCore ==
  ASSUME IInv, NEW u \in Clients, CheckState(u)
  PROVE  Core'
<1>0. /\ emt' = emt /\ SameHands /\ SameService /\ UNCHANGED <<event, reqs, ran>>
      /\ client[u].pc = "check" /\ TypeOK
      /\ \A v \in Clients \ {u} : client'[v] = client[v]
  BY ClientEmt, ClientMoves DEF ClientNext, IInv, CheckState, ClientAt
<1>1. PICK p \in Packets : p = client[u].req  BY <1>0, Held
<1> DEFINE todo == client[u].todo
           D == Done(p, todo)
           T == Targets(req[p].dst)
<1>2. /\ Owns(u, p) /\ \A v \in Clients : Owns(v, p) => v = u
      /\ \A o : Owns(u, o) => o = p
      /\ ~client[u].noWait /\ req[p].noWait = client[u].noWait
      /\ Len(todo) <= Len(T) /\ \A i \in 1 .. Len(todo) : todo[i] = T[D + i]
      /\ Len(ran[p]) = IF req[p].enmState \in {"ALLOCATED", "QUEUED"} THEN D ELSE D + 1
      /\ req[p].enmState = "COMPLETED" /\ ~event[p] /\ \A c \in Cpus : ~Serves(c, p)
  BY <1>0, <1>1, InCall
<1>3. todo # <<>> /\ todo \in Seq(Dests)  BY <1>0, Types DEF TypeOK
<1>4. CASE ~More(todo)
  <2>1. req' = [req EXCEPT ![p].fEventSemClear = TRUE] /\ ClientGo(u, "free")
    BY <1>1, <1>2, <1>4 DEF CheckState
  <2>2. /\ \A o \in Packets \ {p} : req'[o] = req[o]
        /\ req'[p].enmState = req[p].enmState /\ req'[p].dst = req[p].dst
        /\ req'[p].kind = req[p].kind /\ req'[p].noWait = req[p].noWait
    BY <1>0, <2>1, Clears
  <2>3. /\ client'[u].pc = "free" /\ client'[u].req = p
        /\ client'[u].noWait = client[u].noWait /\ client'[u].todo = client[u].todo
    BY <1>1, <2>1, ClientGoes DEF ClientPcs
  <2>4. Len(client[u].todo) = 1
    <3> DEFINE m == Len(client[u].todo)
    <3>1. m \in Nat \ {0} /\ ~(m > 1)  BY <1>3, <1>4, TailFacts DEF More
    <3> HIDE DEF m
    <3>2. m = 1  BY <3>1
    <3> QED BY <3>2 DEF m
  <2>5. \A o \in Packets \ {p} : SamePacket(o)  BY <1>0, <2>2 DEF SamePacket
  <2> HIDE DEF todo, D, T
  <2> QED BY <1>0, <1>1, <1>2, <2>2, <2>3, <2>4, <2>5, LookCore
<1>5. CASE More(todo)
  <2>1. /\ req' = [req EXCEPT ![p].fEventSemClear = TRUE, ![p].enmState = "ALLOCATED"]
        /\ client' = [client EXCEPT ![u].pc = "queue", ![u].todo = Tail(@)]
    BY <1>1, <1>2, <1>5 DEF CheckState
  <2>2. /\ \A o \in Packets \ {p} : req'[o] = req[o]
        /\ req'[p].enmState = "ALLOCATED" /\ req'[p].dst = req[p].dst
        /\ req'[p].noWait = req[p].noWait
    <3>1. req \in [Packets -> ReqType] /\ req[p] \in ReqType  BY <1>0, Types
    <3>2. req'[p] = [req[p] EXCEPT !.fEventSemClear = TRUE, !.enmState = "ALLOCATED"]
      BY <2>1, <3>1
    <3>3. \A o \in Packets \ {p} : req'[o] = req[o]  BY <2>1, <3>1
    <3> QED BY <3>1, <3>2, <3>3 DEF ReqType
  <2>3. /\ client'[u].pc = "queue" /\ client'[u].req = p
        /\ client'[u].noWait = client[u].noWait /\ client'[u].todo = Tail(todo)
    BY <1>1, <2>1, NextCpu
  <2>4. /\ Owns(u, p)' /\ \A o : Owns(u, o)' => o = p  BY <1>2, <2>3 DEF Owns
  <2>5. \A v \in Clients \ {u} : ~Owns(v, p) /\ ~Owns(v, p)'  BY <1>0, <1>2 DEF Owns
  <2>6. \A o \in Packets \ {p} : SamePacket(o) /\ ~Owns(u, o) /\ ~Owns(u, o)'
    BY <1>0, <1>2, <2>2, <2>4 DEF SamePacket
  <2>7. /\ \A v \in Clients \ {u} : ClientOK(v)'
        /\ \A o \in Packets \ {p} : PacketOK(o)'
    BY <1>0, <2>5, <2>6, ClientWork
  <2>8. ClientOK(u)'
    <3> DEFINE m == Len(todo)
               n == Len(T)
               E == D'
    <3>1. /\ m \in Nat \ {0} /\ n \in Nat /\ m <= n /\ D = n - m
          /\ Len(Tail(todo)) = m - 1 /\ \A i \in 1 .. m - 1 : Tail(todo)[i] = todo[i + 1]
      BY <1>1, <1>2, <1>3, Counts, TailFacts DEF Done
    <3>2. T' = T /\ E = n - Len(Tail(todo))  BY <2>2, <2>3 DEF Done
    <3>3. E = D + 1
      <4> HIDE DEF m, n, D, E
      <4>1. E = n - (m - 1)  BY <3>1, <3>2
      <4> QED BY <3>1, <4>1
    <3>4. Len(Tail(todo)) <= n
      <4> HIDE DEF m, n
      <4> QED BY <3>1
    <3>5. \A i \in 1 .. m - 1 : Tail(todo)[i] = T[E + i]
      <4>1. \A i \in 1 .. m : todo[i] = T[D + i]  BY <1>2
      <4> HIDE DEF m, n, D, E, T, todo
      <4>2. ASSUME NEW i \in 1 .. m - 1 PROVE Tail(todo)[i] = T[E + i]
        <5>1. i + 1 \in 1 .. m /\ D + (i + 1) = E + i  BY <3>1, <3>3
        <5>2. Tail(todo)[i] = todo[i + 1]  BY <3>1
        <5> QED BY <4>1, <5>1, <5>2
      <4> QED BY <4>2
    <3>6. \A i \in 1 .. Len(Tail(todo)) : Tail(todo)[i] = T[E + i]
      <4>1. Len(Tail(todo)) = m - 1  BY <3>1
      <4> HIDE DEF m
      <4> QED BY <3>5, <4>1
    <3>7. Len(ran'[p]) = E  BY <1>0, <1>2, <3>3
    <3> HIDE DEF m, D, T, todo
    <3>8. /\ \A v \in Clients : Owns(v, p)' => v = u
          /\ req'[p].noWait = client'[u].noWait
          /\ Len(client'[u].todo) <= Len(T')
          /\ \A i \in 1 .. Len(client'[u].todo) : client'[u].todo[i] = T'[E + i]
          /\ Len(ran'[p]) = IF req'[p].enmState \in {"ALLOCATED", "QUEUED"} THEN E ELSE E + 1
          /\ req'[p].enmState = "ALLOCATED"
      BY <1>2, <2>2, <2>3, <2>5, <3>2, <3>4, <3>6, <3>7
    <3>9. client'[u].pc = "queue" /\ client'[u].req = p  BY <2>3
    <3> QED BY <3>8, <3>9 DEF ClientOK, D, T, todo
  <2>9. PacketOK(p)'
    <3>1. PacketOK(p)  BY DEF IInv
    <3>2. ~event'[p]  BY <1>0, <1>2
    <3> HIDE DEF todo, D, T
    <3> QED BY <1>0, <2>2, <3>1, <3>2 DEF PacketOK
  <2>10. \A c \in Cpus : ServiceOK(c)'
    <3>1. \A o \in Packets : (\E c \in Cpus : Serves(c, o)) =>
            /\ req'[o].enmState = req[o].enmState /\ req'[o].noWait = req[o].noWait
            /\ req'[o].fEventSemClear = req[o].fEventSemClear
      BY <1>2, <2>2
    <3> QED BY <1>0, <3>1, ServiceFrame
  <2>11. ListsOK'
    <3>1. \A o \in Packets :
            \/ /\ req'[o].enmState = req[o].enmState /\ req'[o].dst = req[o].dst
               /\ req'[o].kind = req[o].kind /\ ran'[o] = ran[o]
            \/ req[o].enmState # "QUEUED" /\ req'[o].enmState # "QUEUED"
      BY <1>0, <1>2, <2>2
    <3> QED BY <1>0, <3>1, ListsFrame
  <2> QED BY <2>7, <2>8, <2>9, <2>10, <2>11 DEF Core
<1> QED BY <1>4, <1>5

\* The call returns and its packet is free.
LEMMA FreeCore ==
  ASSUME IInv, NEW u \in Clients, Free(u)
  PROVE  Core'
<1>0. /\ emt' = emt /\ SameHands /\ SameService /\ UNCHANGED <<event, reqs, ran>>
      /\ client[u].pc = "free" /\ TypeOK /\ client' = [client EXCEPT ![u] = Idle]
      /\ \A v \in Clients \ {u} : client'[v] = client[v]
  BY ClientEmt, ClientMoves DEF ClientNext, IInv, Free, ClientAt
<1>1. PICK p \in Packets : p = client[u].req  BY <1>0, Held
<1>2. /\ Owns(u, p) /\ \A v \in Clients : Owns(v, p) => v = u
      /\ \A o : Owns(u, o) => o = p
      /\ req[p].enmState = "COMPLETED" /\ ~event[p] /\ \A c \in Cpus : ~Serves(c, p)
  BY <1>0, <1>1, InCall
<1>3. VMR3ReqFree(p)  BY <1>1 DEF Free
<1>4. /\ \A o \in Packets \ {p} : req'[o] = req[o]
      /\ req'[p].enmState \in {"FREE", "INVALID"} /\ req'[p].dst = req[p].dst
      /\ req'[p].noWait = req[p].noWait
  BY <1>0, <1>3, Freed, States1
<1>5. client'[u].pc = "idle"  BY <1>0, Idles, Types
<1>6. \A o : ~Owns(u, o)'  BY <1>5 DEF Owns
<1>7. \A v \in Clients \ {u} : ~Owns(v, p) /\ ~Owns(v, p)'  BY <1>0, <1>2 DEF Owns
<1>8. \A o \in Packets \ {p} : SamePacket(o) /\ ~Owns(u, o) /\ ~Owns(u, o)'
  BY <1>0, <1>2, <1>4, <1>6 DEF SamePacket
<1>9. /\ \A v \in Clients \ {u} : ClientOK(v)'
      /\ \A o \in Packets \ {p} : PacketOK(o)'
  BY <1>0, <1>7, <1>8, ClientWork
<1>10. ClientOK(u)'  BY <1>5 DEF ClientOK
<1>11. PacketOK(p)'
  <2>1. PacketOK(p)  BY DEF IInv
  <2>2. ~event'[p] /\ \A v \in Clients : ~Owns(v, p)'  BY <1>0, <1>2, <1>6, <1>7
  <2> QED BY <1>0, <1>4, <2>1, <2>2 DEF PacketOK
<1>12. \A c \in Cpus : ServiceOK(c)'
  <2>1. \A o \in Packets : (\E c \in Cpus : Serves(c, o)) =>
          /\ req'[o].enmState = req[o].enmState /\ req'[o].noWait = req[o].noWait
          /\ req'[o].fEventSemClear = req[o].fEventSemClear
    BY <1>2, <1>4
  <2> QED BY <1>0, <2>1, ServiceFrame
<1>13. ListsOK'
  <2>1. \A o \in Packets :
          \/ /\ req'[o].enmState = req[o].enmState /\ req'[o].dst = req[o].dst
             /\ req'[o].kind = req[o].kind /\ ran'[o] = ran[o]
          \/ req[o].enmState # "QUEUED" /\ req'[o].enmState # "QUEUED"
    BY <1>0, <1>2, <1>4
  <2> QED BY <1>0, <2>1, ListsFrame
<1> QED BY <1>9, <1>10, <1>11, <1>12, <1>13 DEF Core

\* The packet is pushed on the list of the CPU whose turn it is.
LEMMA QueueCore ==
  ASSUME IInv, NEW u \in Clients, Queue(u)
  PROVE  Core'
<1>0. /\ emt' = emt /\ SameHands /\ SameService /\ UNCHANGED <<event, ran>>
      /\ client[u].pc = "queue" /\ TypeOK /\ ListsOK
      /\ \A v \in Clients \ {u} : client'[v] = client[v]
      /\ client'[u].pc = "setff" /\ client'[u].req = client[u].req
      /\ client'[u].noWait = client[u].noWait /\ client'[u].todo = client[u].todo
  BY Zenon, ClientEmt, ClientMoves DEF ClientNext, IInv, Queue, ClientAt
<1>1. PICK p \in Packets : p = client[u].req  BY <1>0, Held
<1> DEFINE todo == client[u].todo
           D == Done(p, todo)
           T == Targets(req[p].dst)
<1>2. /\ Owns(u, p) /\ \A v \in Clients : Owns(v, p) => v = u
      /\ \A o : Owns(u, o) => o = p
      /\ req[p].noWait = client[u].noWait
      /\ Len(todo) <= Len(T) /\ \A i \in 1 .. Len(todo) : todo[i] = T[D + i]
      /\ req[p].enmState = "ALLOCATED" /\ Len(ran[p]) = D
  BY <1>0, <1>1, InCall
<1>3. todo # <<>> /\ todo \in Seq(Dests) /\ req[p].kind \in Kinds
  BY <1>0, Types DEF TypeOK, ReqType
<1>4. PICK d \in Dests, k \in Kinds : d = Head(todo) /\ k = req[p].kind
  BY <1>3, TailFacts
<1>5. Len(ran[p]) < Len(T) /\ T[Len(ran[p]) + 1] = d
  <2> DEFINE m == Len(todo)
             n == Len(T)
  <2>1. m \in Nat \ {0} /\ n \in Nat /\ m <= n /\ D = n - m /\ d = todo[1]
    BY <1>1, <1>2, <1>3, <1>4, Counts, TailFacts DEF Done
  <2>2. todo[1] = T[D + 1]
    <3>1. \A i \in 1 .. m : todo[i] = T[D + i]  BY <1>2
    <3> HIDE DEF m, n, D, T, todo
    <3>2. 1 \in 1 .. m  BY <2>1
    <3> QED BY <3>1, <3>2
  <2>3. D < n
    <3> HIDE DEF m, n, D, T, todo
    <3> QED BY <2>1
  <2> HIDE DEF T, D, todo
  <2> QED BY <1>2, <2>1, <2>2, <2>3
<1>6. /\ \A o \in Packets \ {p} : req'[o] = req[o]
      /\ req'[p].enmState = "QUEUED" /\ req'[p].dst = req[p].dst
      /\ req'[p].kind = k /\ req'[p].noWait = req[p].noWait
  <2>1. SetState(p, "QUEUED") /\ "QUEUED" \in States  BY Zenon, <1>1 DEF Queue, States
  <2> QED BY SMTT(40), <1>0, <1>4, <2>1, States1
<1>7. /\ \A c \in Cpus : ~Serves(c, p) /\ p \notin Hand(c)
      /\ \A e \in Dests, l \in Kinds : p \notin Range(reqs[e][l])
  BY <1>2, Where
<1>8. /\ IsInjective(reqs'[d][k]) /\ Range(reqs'[d][k]) = {p} \union Range(reqs[d][k])
      /\ \A e \in Dests, l \in Kinds : (e # d \/ l # k) => reqs'[e][l] = reqs[e][l]
  <2>1. reqs' = [reqs EXCEPT ![d][k] = <<p>> \o reqs[d][k]]  BY <1>0, <1>1, <1>4 DEF Queue, TypeOK
  <2>2. /\ reqs'[d][k] = <<p>> \o reqs[d][k]
        /\ \A e \in Dests, l \in Kinds : (e # d \/ l # k) => reqs'[e][l] = reqs[e][l]
    BY <1>0, <2>1 DEF TypeOK
  <2>3. reqs[d][k] \in Seq(Packets) /\ IsInjective(reqs[d][k]) /\ p \notin Range(reqs[d][k])
    BY <1>0, <1>7, Types DEF ListsOK
  <2> QED BY SMTT(40), <2>2, <2>3, PushedFacts
<1> HIDE DEF todo
<1>9. T' = T /\ D' = D  BY <1>0, <1>6 DEF Done, todo
<1> HIDE DEF D, T
<1>10. TurnOf(p, d)'  BY <1>0, <1>5, <1>6, <1>9 DEF TurnOf, T
<1>11. \A o \in Packets \ {p} : /\ SamePacket(o) /\ ~Owns(u, o)
                                /\ \A e : TurnOf(o, e)' <=> TurnOf(o, e)
  BY <1>0, <1>2, <1>6 DEF SamePacket, TurnOf
<1>12. /\ \A v \in Clients \ {u} : ~Owns(v, p) /\ ~Owns(v, p)'
       /\ \A o \in Packets \ {p} : ~Owns(u, o)'
       /\ Owns(u, p)' => ~client[u].noWait
  BY <1>0, <1>1, <1>2 DEF Owns
<1>13. /\ \A v \in Clients \ {u} : ClientOK(v)'
       /\ \A o \in Packets \ {p} : PacketOK(o)'
  BY <1>0, <1>11, <1>12, ClientWork
<1>14. ClientOK(u)'
  <2>1. /\ \A v \in Clients : Owns(v, p)' => v = u
        /\ req'[p].noWait = client'[u].noWait
        /\ Len(client'[u].todo) <= Len(T')
        /\ \A i \in 1 .. Len(client'[u].todo) : client'[u].todo[i] = T'[D' + i]
        /\ Len(ran'[p]) = IF req'[p].enmState \in {"ALLOCATED", "QUEUED"} THEN D' ELSE D' + 1
    BY <1>0, <1>2, <1>6, <1>9, <1>12 DEF todo
  <2>2. client'[u].req = p  BY <1>0, <1>1
  <2> QED BY <1>0, <1>6, <2>1, <2>2 DEF ClientOK, D, T, todo
<1>15. PacketOK(p)'
  <2>1. PacketOK(p)  BY DEF IInv
  <2>2. ~event'[p]  BY <1>0, <1>2, <2>1 DEF PacketOK
  <2> QED BY <1>0, <1>6, <2>1, <2>2 DEF PacketOK
<1>16. \A c \in Cpus : ServiceOK(c)'
  <2>1. \A o \in Packets : (\E c \in Cpus : Serves(c, o)) =>
          /\ req'[o].enmState = req[o].enmState /\ req'[o].noWait = req[o].noWait
          /\ req'[o].fEventSemClear = req[o].fEventSemClear
    BY <1>6, <1>7
  <2> QED BY <1>0, <2>1, ServiceFrame
<1>17. ListsOK'
  <2>1. ASSUME NEW e \in Dests, NEW l \in Kinds
        PROVE  /\ IsInjective(reqs'[e][l])
               /\ \A o \in Range(reqs'[e][l]) : TurnOf(o, e)' /\ req'[o].kind = l
    <3>1. /\ IsInjective(reqs[e][l])
          /\ \A o \in Range(reqs[e][l]) : /\ o \in Packets \ {p}
                                          /\ TurnOf(o, e)' /\ req'[o].kind = l
      BY <1>0, <1>6, <1>7, <1>11, Where DEF ListsOK
    <3>2. CASE e = d /\ l = k  BY <1>6, <1>8, <1>10, <3>1, <3>2
    <3>3. CASE e # d \/ l # k  BY <1>8, <3>1, <3>3
    <3> QED BY <3>2, <3>3
  <2>2. ASSUME NEW c \in Cpus, NEW o \in Hand(c)
        PROVE  /\ TurnOf(o, emt[c].q)' /\ req'[o].kind = emt'[c].kind
               /\ \A e \in Dests, l \in Kinds : o \notin Range(reqs'[e][l])
               /\ \A b \in Cpus : o \in Hand(b)' => b = c
    <3>1. o \in Packets \ {p}  BY <1>7, Where
    <3>2. /\ TurnOf(o, emt[c].q) /\ req[o].kind = emt[c].kind
          /\ \A e \in Dests, l \in Kinds : o \notin Range(reqs[e][l])
          /\ \A b \in Cpus : o \in Hand(b) => b = c
      BY <1>0 DEF ListsOK
    <3>3. \A e \in Dests, l \in Kinds : o \notin Range(reqs'[e][l])  BY <1>8, <3>1, <3>2
    <3>4. TurnOf(o, emt[c].q)'  BY <1>0, <1>6, <3>1, <3>2, <1>11 DEF TurnOf, SamePacket
    <3>5. \A b \in Cpus : o \in Hand(b)' => b = c  BY <1>0, <3>2 DEF SameHands
    <3> QED BY <1>0, <1>6, <3>1, <3>2, <3>3, <3>4, <3>5
  <2>3. ASSUME NEW o \in Packets, req'[o].enmState = "QUEUED"
        PROVE  \/ \E e \in Dests, l \in Kinds : o \in Range(reqs'[e][l])
               \/ \E c \in Cpus : o \in Hand(c)'
    <3>1. CASE o = p  BY <1>8, <3>1
    <3>2. CASE o # p
      <4>1. \/ \E e \in Dests, l \in Kinds : o \in Range(reqs[e][l])
            \/ \E c \in Cpus : o \in Hand(c)
        BY <1>0, <1>6, <2>3, <3>2 DEF ListsOK
      <4>2. \A e \in Dests, l \in Kinds : o \in Range(reqs[e][l]) => o \in Range(reqs'[e][l])
        BY <1>8
      <4> QED BY <1>0, <4>1, <4>2 DEF SameHands
    <3> QED BY <3>1, <3>2
  <2>4. \A c \in Cpus : \A o \in Hand(c)' :
          /\ TurnOf(o, emt[c].q)' /\ req'[o].kind = emt'[c].kind
          /\ \A e \in Dests, l \in Kinds : o \notin Range(reqs'[e][l])
          /\ \A b \in Cpus : o \in Hand(b)' => b = c
    BY <1>0, <2>2 DEF SameHands
  <2> QED BY <2>1, <2>3, <2>4 DEF ListsOK
<1> QED BY SMTT(40), <1>13, <1>14, <1>15, <1>16, <1>17 DEF Core

\* A packet that nobody has becomes the client's.
LEMMA AllocCore ==
  ASSUME IInv, NEW u \in Clients, VMR3ReqAllocU(u)
  PROVE  Core'
<1>0. /\ emt' = emt /\ SameHands /\ SameService /\ reqs' = reqs /\ TypeOK
      /\ \A v \in Clients \ {u} : client'[v] = client[v]
      /\ client[u].pc = "idle" /\ calls[u] # <<>> /\ calls[u] \in Seq(Call) /\ CallsOK
  BY ClientEmt, ClientMoves DEF IInv, VMR3ReqAllocU, ClientAt, TypeOK
<1>1. PICK p \in In("FREE") \union New :
        LET call == Head(calls[u]) IN
        /\ req' = [req EXCEPT ![p] =
             [enmState |-> "ALLOCATED", dst |-> call.dst, kind |-> call.kind,
              noWait |-> call.noWait, em |-> call.em, fEventSemClear |-> TRUE]]
        /\ event' = [event EXCEPT ![p] = @ /\ req[p].enmState = "FREE" /\ req[p].fEventSemClear]
        /\ ran' = [ran EXCEPT ![p] = <<>>]
        /\ client' = [client EXCEPT ![u] =
             [pc |-> "queue", req |-> p, noWait |-> call.noWait,
              todo |-> Targets(call.dst), notify |-> <<>>]]
  BY DEF VMR3ReqAllocU
<1>2. PICK call \in Call : call = Head(calls[u]) /\ (call.noWait => call.dst \in Dests)
  <2>1. /\ Head(calls[u]) \in Call /\ Head(calls[u]) = calls[u][1]
        /\ Len(calls[u]) \in Nat \ {0}
    BY <1>0, TailFacts
  <2>2. 1 \in DOMAIN calls[u]  BY <1>0, <2>1, LenProperties
  <2> QED BY <1>0, <2>1, <2>2 DEF CallsOK
<1>3. p \in Packets /\ req[p].enmState \in {"INVALID", "FREE"} /\ PacketOK(p)
  BY Fresh DEF IInv
<1>4. /\ \A v \in Clients : ~Owns(v, p)
      /\ \A c \in Cpus : ~Serves(c, p) /\ p \notin Hand(c)
      /\ \A e \in Dests, l \in Kinds : p \notin Range(reqs[e][l])
      /\ ~event[p]
  BY <1>3, Where DEF PacketOK
<1>5. /\ \A o \in Packets \ {p} : SamePacket(o)
      /\ req'[p].enmState = "ALLOCATED" /\ req'[p].dst = call.dst
      /\ req'[p].noWait = call.noWait /\ ran'[p] = <<>> /\ ~event'[p]
  BY <1>0, <1>1, <1>2, <1>3, <1>4, Types DEF TypeOK, SamePacket
<1>6. /\ client'[u].pc = "queue" /\ client'[u].req = p /\ client'[u].noWait = call.noWait
      /\ client'[u].todo = Targets(call.dst)
  BY <1>0, <1>1, <1>2, Types
<1>7. /\ \A v \in Clients \ {u} : ~Owns(v, p)'
      /\ \A o \in Packets \ {p} : ~Owns(u, o) /\ ~Owns(u, o)'
  BY <1>0, <1>4, <1>6 DEF Owns
<1>8. /\ \A v \in Clients \ {u} : ClientOK(v)'
      /\ \A o \in Packets \ {p} : PacketOK(o)'
  BY <1>0, <1>3, <1>4, <1>5, <1>7, ClientWork
<1> DEFINE T == Targets(call.dst)
           n == Len(T)
<1>9. T \in Seq(Dests) /\ n \in Nat \ {0}  BY <1>2, TargetsFacts DEF Call
<1>10. Targets(req[p].dst)' = T  BY <1>5
<1>11. Done(p, client[u].todo)' = 0
  <2>1. Done(p, client[u].todo)' = n - n  BY <1>6, <1>10 DEF Done
  <2> HIDE DEF n
  <2> QED BY <1>9, <2>1
<1>12. Len(ran'[p]) = 0  BY <1>5, EmptySeq
<1> HIDE DEF T
<1>13. ClientOK(u)'
  <2>1. Len(client'[u].todo) <= Len(T)
    <3>1. Len(client'[u].todo) = n  BY <1>6 DEF T
    <3>2. n <= n
      <4> HIDE DEF n
      <4> QED BY <1>9
    <3> QED BY <3>1, <3>2
  <2>2. \A i \in 1 .. Len(client'[u].todo) :
          client'[u].todo[i] = T[Done(p, client[u].todo)' + i]
    BY <1>6, <1>11 DEF T
  <2>3. \A v \in Clients : Owns(v, p)' => v = u  BY <1>7
  <2>4. client'[u].noWait = req'[p].noWait  BY <1>5, <1>6
  <2> QED BY <1>3, <1>5, <1>6, <1>10, <1>11, <1>12, <2>1, <2>2, <2>3, <2>4 DEF ClientOK
<1>14. PacketOK(p)'
  <2>1. \A i \in 1 .. Len(ran'[p]) : FALSE  BY <1>12
  <2>2. Len(ran'[p]) <= n
    <3> HIDE DEF n
    <3> QED BY <1>9, <1>12
  <2> QED BY <1>2, <1>5, <1>10, <2>1, <2>2 DEF PacketOK
<1>15. \A c \in Cpus : ServiceOK(c)'
  <2>1. \A o \in Packets : (\E c \in Cpus : Serves(c, o)) =>
          /\ req'[o].enmState = req[o].enmState /\ req'[o].noWait = req[o].noWait
          /\ req'[o].fEventSemClear = req[o].fEventSemClear
    BY <1>4, <1>5 DEF SamePacket
  <2> QED BY <1>0, <2>1, ServiceFrame
<1>16. ListsOK'
  <2>1. \A o \in Packets :
          \/ /\ req'[o].enmState = req[o].enmState /\ req'[o].dst = req[o].dst
             /\ req'[o].kind = req[o].kind /\ ran'[o] = ran[o]
          \/ req[o].enmState # "QUEUED" /\ req'[o].enmState # "QUEUED"
    BY <1>3, <1>5 DEF SamePacket
  <2> QED BY <1>0, <2>1, ListsFrame
<1> QED BY <1>8, <1>13, <1>14, <1>15, <1>16 DEF Core

-----------------------------------------------------------------------------
(* The invariant. *)

LEMMA IndInit == Init => IInv
<1> SUFFICES ASSUME Init PROVE IInv  OBVIOUS
<1>1. /\ vmState \in {"RUNNING", "SUSPENDED"}
      /\ \A p \in Packets : req[p] = NewReq /\ ~event[p] /\ ran[p] = <<>>
      /\ \A d \in Dests, k \in Kinds : reqs[d][k] = <<>>
      /\ \A c \in Cpus : emt[c] = EmtTop
      /\ \A u \in Clients : client[u] = Idle
      /\ calls \in Plans
  BY StatesAssumption DEF Init
<1>2. /\ NewReq \in ReqType /\ NewReq.enmState = "INVALID" /\ NewReq.dst = VMCPUID_ANY
      /\ ~NewReq.noWait
  BY DEF NewReq, ReqType, States, Kinds, Dests
<1>3. TypeOK
  <2>1. /\ req \in [Packets -> ReqType] /\ event \in [Packets -> BOOLEAN]
        /\ reqs \in [Dests -> [Kinds -> Seq(Packets)]] /\ ff \in [Dests -> BOOLEAN]
        /\ fWait \in [Cpus -> BOOLEAN] /\ semWait \in [Cpus -> BOOLEAN]
        /\ emt \in [Cpus -> EmtType] /\ client \in [Clients -> ClientType]
        /\ ran \in [Packets -> Seq(Cpus)]
    BY <1>2, Idles DEF Init
  <2>2. calls \in [Clients -> Seq(Call)]  BY <1>1, PlansAssumption
  <2>3. \A u \in Clients : /\ client[u].pc # "idle" => client[u].todo # <<>>
                           /\ client[u].pc = "notify" => client[u].notify # <<>>
    BY <1>1, Idles
  <2> QED BY <1>1, <2>1, <2>2, <2>3
          DEF TypeOK, ReqType, States, EmtType, EmtPcs, ClientType, ClientPcs
<1>4. CallsOK  BY <1>1, PlansAssumption DEF CallsOK
<1>5. NotifyOK  BY <1>1, Idles DEF NotifyOK
<1>6. \A c \in Cpus : EmtOK(c) /\ ServiceOK(c) /\ Hand(c) = {} /\ \A p : ~Serves(c, p)
  BY <1>1, Idles DEF EmtOK, ServiceOK, Hand, Serves, HandPcs, ServicePcs
<1>7. \A u \in Clients : ClientOK(u) /\ \A p : ~Owns(u, p)
  BY <1>1, Idles DEF ClientOK, Owns
<1>8. ASSUME NEW p \in Packets PROVE PacketOK(p)
  <2> DEFINE n == Len(Targets(req[p].dst))
  <2>1. Len(ran[p]) = 0 /\ n \in Nat \ {0}
    BY <1>1, <1>2, TargetsFacts, EmptySeq DEF Dests
  <2>2. \A i \in 1 .. Len(ran[p]) : FALSE  BY <2>1
  <2>3. Len(ran[p]) <= n
    <3> HIDE DEF n
    <3> QED BY <2>1
  <2> QED BY <1>1, <1>2, <1>7, <2>2, <2>3 DEF PacketOK
<1>9. ListsOK  BY <1>1, <1>2, <1>6, NoneIn DEF ListsOK
<1>10. PendingFlagged  BY <1>1 DEF PendingFlagged
<1>11. NoLostWakeup
  <2>1. \A d \in Dests : ~ff[d]  BY DEF Init
  <2> QED BY <2>1 DEF NoLostWakeup
<1> QED BY <1>3, <1>4, <1>5, <1>6, <1>7, <1>8, <1>9, <1>10, <1>11 DEF IInv

LEMMA ClientStep ==
  ASSUME IInv, NEW u \in Clients, VMR3ReqAllocU(u) \/ ClientNext(u)
  PROVE  IInv'
<1>1. TypeOK' /\ CallsOK' /\ NotifyOK'  BY ClientTypeInv, CallsInv, NotifyInv
<1>2. PendingFlagged' /\ NoLostWakeup'  BY FlagByClient, WakeByClient
<1>3. Core'
  BY SMTT(40), AllocCore, QueueCore, NotifyCore, WaitSteps, CheckCore, FreeCore DEF ClientNext
<1>4. UNCHANGED <<emt, fWait>>
  BY Zenon DEF VMR3ReqAllocU, ClientNext, Queue, SetFF, NotifyFF, Poll, WaitEvent, CheckState, Free
<1>5. \A c \in Cpus : EmtOK(c)'  BY <1>4 DEF IInv, EmtOK
<1> QED BY <1>1, <1>2, <1>3, <1>5 DEF IInv, Core

LEMMA EmtStep ==
  ASSUME IInv, NEW c \in Cpus, EmtNext(c) \/ StartWait(c) \/ Timeout(c)
  PROVE  IInv'
<1>1. TypeOK' /\ \A b \in Cpus : EmtOK(b)'  BY EmtTypeInv, EmtInv
<1>2. PendingFlagged' /\ NoLostWakeup'  BY FlagByEmt, WakeByEmt
<1>3. Core'
  BY SMTT(40), ControlSteps, TakeCore, PushBackCore, RetakeCore, ExecCore, ReportSteps
     DEF EmtNext, Process
<1>4. UNCHANGED <<client, calls>>
  BY Zenon DEF EmtNext, Process, StartWait, Timeout, Serve, SetWait, CheckFF, Wake, ClearFF, Take,
         Peek, PushBack, Retake, ReqSetFF, Exec, Complete, Flags, Signal
<1>5. CallsOK' /\ NotifyOK'  BY <1>4 DEF IInv, CallsOK, NotifyOK
<1> QED BY <1>1, <1>2, <1>3, <1>5 DEF IInv, Core

LEMMA IndNext == IInv /\ [Next]_vars => IInv'
<1> SUFFICES ASSUME IInv, [Next]_vars PROVE IInv'  OBVIOUS
<1>1. CASE Next  BY <1>1, ClientStep, EmtStep DEF Next
<1>2. CASE UNCHANGED vars
  <2>1. /\ TypeOK' /\ CallsOK' /\ NotifyOK' /\ PendingFlagged' /\ NoLostWakeup'
        /\ \A c \in Cpus : EmtOK(c)'
    BY <1>2 DEF vars, IInv, TypeOK, CallsOK, NotifyOK, PendingFlagged, NoLostWakeup, EmtOK
  <2>2. SameHands /\ SameService  BY <1>2 DEF vars, SameHands, SameService, Hand
  <2>3. Core'  BY <1>2, <2>2, CoreByControl DEF vars
  <2> QED BY <2>1, <2>3 DEF IInv, Core
<1> QED BY <1>1, <1>2

\* The inductive invariant: where each packet is, who may look at it again, and what
\* its state tells of both.
THEOREM Inductive == Spec => []IInv
<1> QED BY IndInit, IndNext, PTL DEF Spec

\* Types; and a client in a call always has a CPU to ask.
THEOREM TypeCorrect == Spec => []TypeOK
<1>1. IInv => TypeOK  BY DEF IInv
<1> QED BY <1>1, Inductive, PTL

\* No wait of a later call ends because of an earlier one: an event is signalled only
\* while its request is completed and its packet known to be in need of a wait.
THEOREM EventsNotStale == Spec => []EventNotStale
<1>1. IInv => EventNotStale  BY DEF IInv, PacketOK, EventNotStale
<1> QED BY <1>1, Inductive, PTL

\* The EMTs that may serve a request do not all sleep through its force flag.
THEOREM WakeupsNotLost == Spec => []NoLostWakeup
<1>1. IInv => NoLostWakeup  BY DEF IInv
<1> QED BY <1>1, Inductive, PTL

\* A list agrees with the beginning of another.
LEMMA PrefixFacts ==
  ASSUME NEW s \in Seq(Dests), NEW t \in Seq(Dests), Len(s) <= Len(t),
         \A i \in 1 .. Len(s) : s[i] = t[i]
  PROVE  IsPrefix(s, t)
<1> DEFINE m == Len(s)
           n == Len(t)
<1>1. m \in Nat /\ n \in Nat /\ m <= n  BY LenProperties
<1>2. \A i \in 1 .. n : t[i] \in Dests  BY ElementOfSeq
<1>3. SubSeq(t, 1, m) \in Seq(Dests) /\ Len(SubSeq(t, 1, m)) = m
      /\ \A i \in 1 .. m : SubSeq(t, 1, m)[i] = t[i]
  <2> HIDE DEF m, n
  <2>1. 1 \in Int /\ m \in Int /\ \A i \in 1 .. m : t[i] \in Dests  BY <1>1, <1>2
  <2>2. /\ SubSeq(t, 1, m) \in Seq(Dests)
        /\ Len(SubSeq(t, 1, m)) = IF 1 <= m THEN m - 1 + 1 ELSE 0
        /\ \A i \in 1 .. m - 1 + 1 : SubSeq(t, 1, m)[i] = t[1 + i - 1]
    BY <2>1, SubSeqProperties
  <2> QED BY <1>1, <2>2
<1>4. s = SubSeq(t, 1, m)  BY <1>3, SeqEqual
<1> QED BY <1>4 DEF IsPrefix

\* What has run of a request: as many as asked when its call returns, never more.
LEMMA RanFacts ==
  ASSUME IInv
  PROVE  RanAsAsked
<1>1. ASSUME NEW p \in Packets
      PROVE  /\ Targets(req[p].dst) \in Seq(Dests) /\ ran[p] \in Seq(Dests)
             /\ Len(ran[p]) <= Len(Targets(req[p].dst))
             /\ req[p].dst # VMCPUID_ANY =>
                  \A i \in 1 .. Len(ran[p]) : ran[p][i] = Targets(req[p].dst)[i]
             /\ req[p].dst = VMCPUID_ANY => Len(Targets(req[p].dst)) = 1
             /\ Len(ran[p]) \in Nat
  <2>1. /\ ran[p] \in Seq(Cpus)
        /\ req[p].dst \in Dests \union {VMCPUID_ALL, VMCPUID_ALL_REVERSE}
    BY Types DEF IInv
  <2>2. ran[p] \in Seq(Dests)  BY <2>1, SeqMonotonic DEF Dests
  <2>3. Len(ran[p]) \in Nat  BY <2>1, LenProperties
  <2> QED BY <2>1, <2>2, <2>3, TargetsFacts DEF IInv, PacketOK, Dests
<1>2. ASSUME NEW u \in Clients, client[u].pc = "free"
      PROVE  LET p == client[u].req IN
               IF req[p].dst = VMCPUID_ANY THEN Len(ran[p]) = 1 ELSE ran[p] = Targets(req[p].dst)
  <2>1. PICK p \in Packets : p = client[u].req  BY <1>2, Held
  <2> DEFINE T == Targets(req[p].dst)
  <2>2. Len(ran[p]) = Done(p, client[u].todo) + 1 /\ Len(client[u].todo) = 1
    BY <1>2, <2>1, InCall
  <2>3. Len(ran[p]) = Len(T)
    <3> DEFINE n == Len(T)
               r == Len(ran[p])
    <3>1. n \in Nat \ {0} /\ r = (n - 1) + 1  BY <2>2, Counts DEF Done
    <3> HIDE DEF n, r
    <3>2. r = n  BY <3>1
    <3> QED BY <3>2 DEF n, r
  <2>4. CASE req[p].dst = VMCPUID_ANY  BY <1>1, <2>1, <2>3, <2>4
  <2>5. CASE req[p].dst # VMCPUID_ANY
    <3>1. ran[p] = T  BY <1>1, <2>3, <2>5, SeqEqual
    <3> QED BY <2>1, <2>5, <3>1
  <2> QED BY <2>4, <2>5
<1>3. ASSUME NEW p \in Packets
      PROVE  \/ IsPrefix(ran[p], Targets(req[p].dst))
             \/ req[p].dst = VMCPUID_ANY /\ Len(ran[p]) = 1
  <2> DEFINE r == Len(ran[p])
  <2>1. CASE req[p].dst # VMCPUID_ANY  BY <1>1, <2>1, PrefixFacts
  <2>2. CASE req[p].dst = VMCPUID_ANY /\ r = 0
    <3>1. \A i \in 1 .. r : ran[p][i] = Targets(req[p].dst)[i]  BY <2>2
    <3> QED BY <1>1, <3>1, PrefixFacts
  <2>3. r = 0 \/ r = 1 \/ req[p].dst # VMCPUID_ANY
    <3>1. r \in Nat /\ (req[p].dst = VMCPUID_ANY => r <= 1)  BY <1>1
    <3> HIDE DEF r
    <3> QED BY <3>1
  <2> QED BY <2>1, <2>2, <2>3
<1> QED BY <1>2, <1>3 DEF RanAsAsked

\* When a call returns its request has run, once on each CPU asked and in the order
\* promised for VMCPUID_ALL and VMCPUID_ALL_REVERSE; it never runs more often.
THEOREM RunAsAsked == Spec => []RanAsAsked
<1> QED BY Inductive, RanFacts, PTL

LEMMA InHandFacts ==
  ASSUME IInv, NEW c \in Cpus
  PROVE  Range(InHand(c)) = Hand(c)
<1>1. CASE emt[c].pc \in HandPcs
  <2>1. emt[c].list \in Seq(Packets) /\ emt[c].req \in Packets  BY <1>1, Types, Held DEF IInv
  <2>2. InHand(c) = Append(emt[c].list, emt[c].req)  BY <1>1 DEF InHand, HandPcs
  <2> QED BY <1>1, <2>1, <2>2, AppendFacts DEF Hand
<1>2. CASE emt[c].pc \notin HandPcs
  <2>1. InHand(c) = <<>>  BY <1>2 DEF InHand, HandPcs
  <2> QED BY <1>2, <2>1, NoneIn DEF Hand
<1> QED BY <1>1, <1>2

LEMMA PlacesFacts ==
  ASSUME IInv
  PROVE  OnePlace
<1>0. ListsOK  BY DEF IInv
<1> SUFFICES ASSUME NEW p \in Packets
             PROVE  Cardinality(Places(p)) = IF req[p].enmState = "QUEUED" THEN 1 ELSE 0
  BY DEF OnePlace
<1>1. \A x : x \in Places(p) <=>
        \/ \E d \in Dests, k \in Kinds : x = <<d, k>> /\ p \in Range(reqs[d][k])
        \/ \E c \in Cpus : x = <<c, "hand">> /\ p \in Hand(c)
  BY InHandFacts DEF Places
<1>2. CASE req[p].enmState # "QUEUED"
  <2>1. Places(p) = {}  BY <1>1, <1>2, Where
  <2> QED BY <1>2, <2>1, FS_EmptySet
<1>3. CASE req[p].enmState = "QUEUED"
  <2>1. CASE \E d \in Dests, k \in Kinds : p \in Range(reqs[d][k])
    <3>1. PICK d \in Dests, k \in Kinds : p \in Range(reqs[d][k])  BY <2>1
    <3>2. \A c \in Cpus : p \notin Hand(c)  BY <1>0, <3>1 DEF ListsOK
    <3>3. ASSUME NEW e \in Dests, NEW l \in Kinds, p \in Range(reqs[e][l])
          PROVE  e = d /\ l = k
      <4>1. TurnOf(p, d) /\ req[p].kind = k  BY <1>0, <3>1 DEF ListsOK
      <4>2. TurnOf(p, e) /\ req[p].kind = l  BY <1>0, <3>3 DEF ListsOK
      <4> QED BY <4>1, <4>2 DEF TurnOf
    <3>4. Places(p) = {<<d, k>>}  BY <1>1, <3>1, <3>2, <3>3
    <3> QED BY <1>3, <3>4, FS_Singleton
  <2>2. CASE \E c \in Cpus : p \in Hand(c)
    <3>1. PICK c \in Cpus : p \in Hand(c)  BY <2>2
    <3>2. \A b \in Cpus : p \in Hand(b) => b = c  BY <1>0, <3>1 DEF ListsOK
    <3>3. \A e \in Dests, l \in Kinds : p \notin Range(reqs[e][l])  BY <1>0, <3>1 DEF ListsOK
    <3>4. Places(p) = {<<c, "hand">>}  BY <1>1, <3>1, <3>2, <3>3
    <3> QED BY <1>3, <3>4, FS_Singleton
  <2> QED BY <1>0, <1>3, <2>1, <2>2 DEF ListsOK
<1> QED BY <1>2, <1>3

\* No request is lost, duplicated or forgotten between the clients that push, the EMTs
\* that push back and the flag that both raise and lower.
THEOREM QueuedAreSeen == Spec => []QueuedIsSeen
<1>1. IInv => QueuedIsSeen  BY PlacesFacts DEF IInv, QueuedIsSeen
<1> QED BY <1>1, Inductive, PTL

-----------------------------------------------------------------------------
(* The promise: lines, pools, what is served and phases. *)

LEMMA ReverseIs ==
  ASSUME NEW s \in Seq(Packets)
  PROVE  /\ Reverse(s) = [i \in 1 .. Len(s) |-> s[(Len(s) - i) + 1]]
         /\ Reverse(s) \in Seq(Packets) /\ Len(Reverse(s)) = Len(s)
<1> DEFINE n == Len(s)
<1>1. n \in Nat /\ \A i \in 1 .. n : s[i] \in Packets  BY LenProperties, ElementOfSeq
<1>2. Reverse(s) = [i \in 1 .. n |-> s[(n - i) + 1]]  BY DEF Reverse
<1>3. \A i \in 1 .. n : (n - i) + 1 \in 1 .. n
  <2> HIDE DEF n
  <2> QED BY <1>1
<1>4. Reverse(s) \in [1 .. n -> Packets]  BY <1>1, <1>2, <1>3
<1>5. Reverse(s) \in Seq(Packets) /\ Len(Reverse(s)) = n  BY <1>1, <1>4, SeqDef, LenProperties
<1> QED BY <1>2, <1>5

\* The newest comes first in a list and last in a line.
LEMMA ReverseNewest ==
  ASSUME NEW s \in Seq(Packets), NEW p \in Packets
  PROVE  Reverse(<<p>> \o s) = Append(Reverse(s), p)
<1> DEFINE n == Len(s)
           t == <<p>> \o s
           r == Reverse(s)
<1>1. /\ n \in Nat /\ t \in Seq(Packets) /\ Len(t) = n + 1
      /\ t[1] = p /\ \A i \in 1 .. n : t[i + 1] = s[i]
  BY LenProperties
<1>2. Reverse(t) = [i \in 1 .. n + 1 |-> t[((n + 1) - i) + 1]]  BY <1>1, ReverseIs
<1>3. r = [i \in 1 .. n |-> s[(n - i) + 1]] /\ r \in Seq(Packets) /\ Len(r) = n  BY ReverseIs
<1>4. /\ Append(r, p) \in Seq(Packets) /\ Len(Append(r, p)) = n + 1
      /\ Append(r, p)[n + 1] = p /\ \A i \in 1 .. n : Append(r, p)[i] = r[i]
  BY <1>3, AppendProperties
<1> HIDE DEF n, t, r
<1>5. \A i \in 1 .. n : (n - i) + 1 \in 1 .. n /\ ((n + 1) - i) + 1 = ((n - i) + 1) + 1  BY <1>1
<1>6. \A i \in 1 .. n : t[((n + 1) - i) + 1] = s[(n - i) + 1]  BY <1>1, <1>5
<1>7. ((n + 1) - (n + 1)) + 1 = 1 /\ \A i \in 1 .. n + 1 : i \in 1 .. n \/ i = n + 1  BY <1>1
<1>8. \A i \in 1 .. n + 1 : t[((n + 1) - i) + 1] = Append(r, p)[i]  BY <1>1, <1>3, <1>4, <1>6, <1>7
<1>9. Append(r, p) = [i \in 1 .. n + 1 |-> Append(r, p)[i]]  BY <1>1, <1>4, LenProperties
<1>10. Reverse(t) = Append(r, p)  BY <1>2, <1>8, <1>9
<1> QED BY <1>10 DEF t, r

\* The oldest comes last in a list and first in a line.
LEMMA ReverseOldest ==
  ASSUME NEW s \in Seq(Packets), NEW p \in Packets
  PROVE  LET r == Reverse(s \o <<p>>) IN
         r # <<>> /\ Head(r) = p /\ Tail(r) = Reverse(s)
<1> DEFINE n == Len(s)
           t == s \o <<p>>
           r == Reverse(t)
           z == Reverse(s)
<1>1. /\ n \in Nat /\ t \in Seq(Packets) /\ Len(t) = n + 1
      /\ t[n + 1] = p /\ \A i \in 1 .. n : t[i] = s[i]
  BY LenProperties
<1>2. /\ r = [i \in 1 .. n + 1 |-> t[((n + 1) - i) + 1]] /\ r \in Seq(Packets)
      /\ Len(r) = n + 1
  BY <1>1, ReverseIs
<1>3. z = [i \in 1 .. n |-> s[(n - i) + 1]] /\ z \in Seq(Packets) /\ Len(z) = n  BY ReverseIs
<1>4. r # <<>>
  <2>1. Len(<<>>) = 0  BY EmptySeq
  <2>2. Len(r) # 0
    <3> HIDE DEF n, r
    <3> QED BY <1>1, <1>2
  <2> QED BY <2>1, <2>2
<1>5. /\ Head(r) = r[1] /\ Tail(r) \in Seq(Packets) /\ Len(Tail(r)) = (n + 1) - 1
      /\ \A i \in 1 .. (n + 1) - 1 : Tail(r)[i] = r[i + 1]
  <2>1. /\ Head(r) = r[1] /\ Tail(r) \in Seq(Packets) /\ Len(Tail(r)) = Len(r) - 1
        /\ \A i \in 1 .. Len(r) - 1 : Tail(r)[i] = r[i + 1]
    BY <1>2, <1>4, TailFacts
  <2> QED BY <1>2, <2>1
<1> HIDE DEF n, t, r, z
<1>6. r[1] = p
  <2>1. 1 \in 1 .. n + 1 /\ ((n + 1) - 1) + 1 = n + 1  BY <1>1
  <2> QED BY <1>1, <1>2, <2>1
<1>7. ASSUME NEW i \in 1 .. n PROVE Tail(r)[i] = z[i]
  <2>1. /\ i + 1 \in 1 .. n + 1 /\ ((n + 1) - (i + 1)) + 1 = (n - i) + 1
        /\ (n - i) + 1 \in 1 .. n /\ i \in 1 .. (n + 1) - 1
    BY <1>1
  <2>2. r[i + 1] = t[(n - i) + 1]  BY <1>2, <2>1
  <2> QED BY <1>1, <1>3, <1>5, <2>1, <2>2
<1>8. Len(Tail(r)) = n
  <2>1. (n + 1) - 1 = n  BY <1>1
  <2> QED BY <1>5, <2>1
<1>9. Tail(r) = z  BY <1>3, <1>5, <1>7, <1>8, SeqEqual
<1>10. r # <<>> /\ Head(r) = p /\ Tail(r) = z  BY <1>4, <1>5, <1>6, <1>9
<1> QED BY <1>10 DEF r, t, z

LEMMA NothingJoined ==
  ASSUME NEW s \in Seq(Packets)
  PROVE  s \o <<>> = s /\ <<>> \o s = s
BY ConcatEmptySeq

LEMMA InHandType ==
  ASSUME IInv, NEW c \in Cpus
  PROVE  InHand(c) \in Seq(Packets) /\ \A d, k : Taken(c, d, k) \in Seq(Packets)
<1>1. <<>> \in Seq(Packets)  BY NoneIn
<1>2. InHand(c) \in Seq(Packets)
  <2>1. CASE emt[c].pc \in HandPcs
    <3>1. emt[c].list \in Seq(Packets) /\ emt[c].req \in Packets  BY <2>1, Types, Held DEF IInv
    <3>2. Append(emt[c].list, emt[c].req) \in Seq(Packets)  BY <3>1, AppendProperties
    <3> QED BY <1>1, <3>2 DEF InHand
  <2>2. CASE emt[c].pc \notin HandPcs  BY <1>1, <2>2 DEF InHand, HandPcs
  <2> QED BY <2>1, <2>2
<1> QED BY <1>1, <1>2 DEF Taken

\* The line of CPU c, newest first, and the pool.
Whole(c, k) == reqs[c][k] \o Taken(c, c, k)
InPool(x, k) == \/ x \in Range(reqs[VMCPUID_ANY][k])
                \/ \E c \in Cpus : emt[c].q = VMCPUID_ANY /\ emt[c].kind = k /\ x \in Hand(c)

LEMMA LinesSame ==
  ASSUME \A b \in Cpus, l \in Kinds : Whole(b, l)' = Whole(b, l)
  PROVE  Lines' = Lines
<1>1. Lines = [b \in Cpus |-> [l \in Kinds |-> Reverse(Whole(b, l))]]  BY DEF Lines, Whole
<1>2. Lines' = [b \in Cpus |-> [l \in Kinds |-> Reverse(Whole(b, l)')]]  BY DEF Lines, Whole
<1> QED BY <1>1, <1>2

LEMMA LinesTo ==
  ASSUME NEW c \in Cpus, NEW k \in Kinds, NEW s, Reverse(Whole(c, k)') = s,
         \A b \in Cpus, l \in Kinds : (b # c \/ l # k) => Whole(b, l)' = Whole(b, l)
  PROVE  Lines' = [Lines EXCEPT ![c][k] = s] /\ Lines[c][k] = Reverse(Whole(c, k))
<1>1. Lines = [b \in Cpus |-> [l \in Kinds |-> Reverse(Whole(b, l))]]  BY DEF Lines, Whole
<1>2. Lines' = [b \in Cpus |-> [l \in Kinds |-> Reverse(Whole(b, l)')]]  BY DEF Lines, Whole
<1>3. [Lines EXCEPT ![c][k] = s] =
        [b \in Cpus |-> [l \in Kinds |-> IF b = c /\ l = k THEN s ELSE Reverse(Whole(b, l))]]
  BY <1>1
<1>4. Lines' =
        [b \in Cpus |-> [l \in Kinds |-> IF b = c /\ l = k THEN s ELSE Reverse(Whole(b, l))]]
  BY <1>2
<1> QED BY <1>1, <1>3, <1>4

PoolIs == /\ Pool = [k \in Kinds |-> Pool[k]]
          /\ \A k \in Kinds : \A x : x \in Pool[k] <=> InPool(x, k)

LEMMA PoolNow == IInv => PoolIs
<1> SUFFICES ASSUME IInv PROVE PoolIs  OBVIOUS
<1>1. \A c \in Cpus : Range(InHand(c)) = Hand(c)  BY InHandFacts
<1>2. Range(<<>>) = {}  BY NoneIn
<1>3. \A c \in Cpus, k \in Kinds : \A x :
        x \in Range(Taken(c, VMCPUID_ANY, k))
          <=> emt[c].q = VMCPUID_ANY /\ emt[c].kind = k /\ x \in Hand(c)
  BY <1>1, <1>2 DEF Taken
<1>4. \A k \in Kinds : Pool[k] = Range(reqs[VMCPUID_ANY][k]) \union
                                 UNION {Range(Taken(c, VMCPUID_ANY, k)) : c \in Cpus}
  BY DEF Pool
<1>5. \A k \in Kinds : \A x : x \in Pool[k] <=> InPool(x, k)  BY <1>3, <1>4 DEF InPool
<1> QED BY <1>5 DEF Pool, PoolIs

LEMMA PoolNext == IInv' => PoolIs'
BY PoolNow, PTL

LEMMA PoolSame ==
  ASSUME IInv, IInv', \A x : \A l \in Kinds : InPool(x, l)' <=> InPool(x, l)
  PROVE  Pool' = Pool
<1>1. PoolIs /\ PoolIs'  BY PoolNow, PoolNext
<1>2. \A l \in Kinds : Pool'[l] = Pool[l]  BY <1>1 DEF PoolIs
<1> QED BY <1>1, <1>2 DEF PoolIs

LEMMA PoolTo ==
  ASSUME IInv, IInv', NEW k \in Kinds, NEW S,
         \A x : \A l \in Kinds \ {k} : InPool(x, l)' <=> InPool(x, l),
         \A x : InPool(x, k)' <=> x \in S
  PROVE  Pool' = [Pool EXCEPT ![k] = S] /\ \A x : x \in Pool[k] <=> InPool(x, k)
<1>1. PoolIs /\ PoolIs'  BY PoolNow, PoolNext
<1>2. \A l \in Kinds : Pool'[l] = IF l = k THEN S ELSE Pool[l]  BY <1>1 DEF PoolIs
<1>3. Pool' = [l \in Kinds |-> IF l = k THEN S ELSE Pool[l]]  BY <1>1, <1>2 DEF PoolIs
<1>4. [Pool EXCEPT ![k] = S] = [l \in Kinds |-> IF l = k THEN S ELSE Pool[l]]
  BY <1>1 DEF PoolIs
<1> QED BY <1>1, <1>3, <1>4 DEF PoolIs

\* What an EMT serves, and the phases.
LEMMA ServingSame ==
  ASSUME NEW c \in Cpus, \A b \in Cpus \ {c} : emt'[b] = emt[b],
         emt[c].pc # "complete", emt'[c].pc # "complete"
  PROVE  Serving' = Serving
BY DEF Serving

LEMMA ServingTo ==
  ASSUME NEW c \in Cpus, \A b \in Cpus \ {c} : emt'[b] = emt[b]
  PROVE  /\ Serving' = [Serving EXCEPT ![c] =
               IF emt'[c].pc = "complete" THEN emt'[c].req ELSE NoReq]
         /\ Serving[c] = IF emt[c].pc = "complete" THEN emt[c].req ELSE NoReq
BY DEF Serving

LEMMA PhasesSame ==
  ASSUME \A p \in Packets : phaseOf[req'[p].enmState] = phaseOf[req[p].enmState]
  PROVE  Phases' = Phases
BY DEF Phases

LEMMA PhasesTo ==
  ASSUME NEW p \in Packets, \A o \in Packets \ {p} : req'[o] = req[o]
  PROVE  /\ Phases' = [Phases EXCEPT ![p] = phaseOf[req'[p].enmState]]
         /\ Phases[p] = phaseOf[req[p].enmState]
BY DEF Phases

LEMMA PhaseFacts ==
  /\ phaseOf["QUEUED"] = "waiting" /\ phaseOf["PROCESSING"] = "running"
  /\ phaseOf["COMPLETED"] = "done" /\ phaseOf["INVALID"] = "idle"
  /\ phaseOf["ALLOCATED"] = "idle" /\ phaseOf["FREE"] = "idle"
BY DEF phaseOf

HandsAre == \A c \in Cpus : InHand(c) \in Seq(Packets) /\ Range(InHand(c)) = Hand(c)

LEMMA HandsNow == IInv => HandsAre
BY SMTT(40), InHandType, InHandFacts DEF HandsAre

LEMMA HandsNext == IInv' => HandsAre'
BY HandsNow, PTL

\* EMT c moves packets between list k of destination q and its hands, and keeps their order.
HandMoves(c, q, k) ==
  /\ q = emt[c].q /\ \A b \in Cpus \ {c} : emt'[b] = emt[b]
  /\ \A d \in Dests, l \in Kinds : (d # q \/ l # k) => reqs'[d][l] = reqs[d][l]
  /\ InHand(c) # <<>> => emt[c].kind = k
  /\ InHand(c)' # <<>> => emt'[c].kind = k /\ emt'[c].q = q
  /\ reqs'[q][k] \o InHand(c)' = reqs[q][k] \o InHand(c)

\* What an EMT takes from a list and pushes back to it stays where it is in the line.
LEMMA HandsView ==
  ASSUME IInv, IInv', NEW c \in Cpus, NEW q \in Dests, NEW k \in Kinds, HandMoves(c, q, k)
  PROVE  Lines' = Lines /\ Pool' = Pool
<1>a. q = emt[c].q /\ \A b \in Cpus \ {c} : emt'[b] = emt[b]  BY DEF HandMoves
<1>b. \A d \in Dests, l \in Kinds : (d # q \/ l # k) => reqs'[d][l] = reqs[d][l]
  BY DEF HandMoves
<1>c. /\ InHand(c) # <<>> => emt[c].kind = k
      /\ InHand(c)' # <<>> => emt'[c].kind = k /\ emt'[c].q = q
  BY DEF HandMoves
<1>d. reqs'[q][k] \o InHand(c)' = reqs[q][k] \o InHand(c)  BY DEF HandMoves
<1>0. /\ q \in {VMCPUID_ANY, c} /\ VMCPUID_ANY \notin Cpus /\ VMCPUID_ANY \in Dests
      /\ Cpus \subseteq Dests
      /\ reqs[q][k] \in Seq(Packets) /\ reqs'[q][k] \in Seq(Packets)
  <2>1. reqs \in [Dests -> [Kinds -> Seq(Packets)]]  BY DEF IInv, TypeOK
  <2>2. reqs' \in [Dests -> [Kinds -> Seq(Packets)]]  BY DEF IInv, TypeOK
  <2>3. EmtOK(c)  BY DEF IInv
  <2>4. q \in {VMCPUID_ANY, c}  BY <1>a, <2>3 DEF EmtOK
  <2>5. VMCPUID_ANY \notin Cpus  BY DestsAssumption
  <2>6. VMCPUID_ANY \in Dests /\ Cpus \subseteq Dests  BY DEF Dests
  <2>7. reqs[q] \in [Kinds -> Seq(Packets)] /\ reqs'[q] \in [Kinds -> Seq(Packets)]
    BY <2>1, <2>2
  <2>8. reqs[q][k] \in Seq(Packets) /\ reqs'[q][k] \in Seq(Packets)  BY <2>7
  <2> QED BY <2>4, <2>5, <2>6, <2>8
<1>1. HandsAre /\ HandsAre'  BY HandsNow, HandsNext
<1>2. \A b \in Cpus \ {c} : /\ InHand(b)' = InHand(b) /\ Hand(b)' = Hand(b)
                            /\ \A d, l : Taken(b, d, l)' = Taken(b, d, l)
  BY <1>a, ZenonT(60) DEF InHand, Hand, Taken
<1>3. Taken(c, q, k) = InHand(c) /\ Taken(c, q, k)' = InHand(c)'  BY <1>a, <1>c DEF Taken
<1>4. \A d, l : (d # q \/ l # k) => Taken(c, d, l) = <<>> /\ Taken(c, d, l)' = <<>>
  BY <1>a, <1>c DEF Taken
<1>5. \A b \in Cpus, l \in Kinds : Whole(b, l)' = Whole(b, l)
  <2> SUFFICES ASSUME NEW b \in Cpus, NEW l \in Kinds PROVE Whole(b, l)' = Whole(b, l)
    OBVIOUS
  <2>1. CASE b = q /\ l = k
    <3>1. b = c  BY <1>0, <2>1
    <3>2. Whole(c, k)' = reqs'[q][k] \o InHand(c)' /\ Whole(c, k) = reqs[q][k] \o InHand(c)
      BY <1>3, <2>1, <3>1 DEF Whole
    <3> QED BY <1>d, <2>1, <3>1, <3>2
  <2>2. CASE b # q \/ l # k
    <3>1. reqs'[b][l] = reqs[b][l]  BY <1>0, <1>b, <2>2
    <3>2. Taken(b, b, l)' = Taken(b, b, l)
      <4>1. CASE b = c  BY <1>4, <2>2, <4>1
      <4>2. CASE b # c  BY <1>2, <4>2
      <4> QED BY <4>1, <4>2
    <3> QED BY <3>1, <3>2 DEF Whole
  <2> QED BY <2>1, <2>2
<1>6. \A x : \A l \in Kinds : InPool(x, l)' <=> InPool(x, l)
  <2> SUFFICES ASSUME NEW x, NEW l \in Kinds PROVE InPool(x, l)' <=> InPool(x, l)
    OBVIOUS
  <2> DEFINE Other == \E b \in Cpus \ {c} : emt[b].q = VMCPUID_ANY /\ emt[b].kind = l /\ x \in Hand(b)
             Mine == emt[c].q = VMCPUID_ANY /\ emt[c].kind = l /\ x \in Hand(c)
             MineNext == emt'[c].q = VMCPUID_ANY /\ emt'[c].kind = l /\ x \in Hand(c)'
  <2>1. InPool(x, l) <=> x \in Range(reqs[VMCPUID_ANY][l]) \/ Other \/ Mine  BY DEF InPool
  <2>2. InPool(x, l)' <=> x \in Range(reqs'[VMCPUID_ANY][l]) \/ Other \/ MineNext
    BY <1>a, <1>2 DEF InPool
  <2>3. /\ Range(reqs[q][k] \o InHand(c)) = Range(reqs[q][k]) \union Hand(c)
        /\ Range(reqs'[q][k] \o InHand(c)') = Range(reqs'[q][k]) \union Hand(c)'
    <3>1. PICK s \in Seq(Packets), t \in Seq(Packets) :
            s = InHand(c) /\ Range(s) = Hand(c) /\ t = InHand(c)' /\ Range(t) = Hand(c)'
      BY <1>1 DEF HandsAre
    <3>2. PICK m \in Seq(Packets), n \in Seq(Packets) : m = reqs[q][k] /\ n = reqs'[q][k]
      BY <1>0
    <3>3. Range(m \o s) = Range(m) \union Range(s) /\ Range(n \o t) = Range(n) \union Range(t)
      BY RangeConcatenation
    <3> QED BY <3>1, <3>2, <3>3
  <2>4. /\ Hand(c) # {} => emt[c].kind = k
        /\ Hand(c)' # {} => emt'[c].kind = k /\ emt'[c].q = q
    <3>1. InHand(c) = <<>> => Hand(c) = {}
      BY <1>1, NoneIn DEF HandsAre
    <3>2. InHand(c)' = <<>> => Hand(c)' = {}
      <4>1. Range(InHand(c)') = Hand(c)'  BY <1>1 DEF HandsAre
      <4> QED BY <4>1, NoneIn
    <3> QED BY <1>c, <3>1, <3>2
  <2>5. CASE q = VMCPUID_ANY /\ l = k
    <3>1. Mine <=> x \in Hand(c)  BY <1>a, <2>4, <2>5
    <3>2. MineNext <=> x \in Hand(c)'  BY <2>4, <2>5
    <3> HIDE DEF Mine, MineNext, Other
    <3> QED BY <1>d, <2>1, <2>2, <2>3, <2>5, <3>1, <3>2
  <2>6. CASE q # VMCPUID_ANY \/ l # k
    <3>1. ~Mine /\ ~MineNext  BY <1>a, <2>4, <2>6
    <3>2. reqs'[VMCPUID_ANY][l] = reqs[VMCPUID_ANY][l]  BY <1>0, <1>b, <2>6
    <3> HIDE DEF Mine, MineNext, Other
    <3> QED BY <2>1, <2>2, <3>1, <3>2
  <2> QED BY <2>5, <2>6
<1> QED BY <1>5, <1>6, LinesSame, PoolSame

\* The steps of an EMT that leave what it has taken where it is.
LEMMA ControlView ==
  ASSUME IInv, IInv', NEW c \in Cpus, reqs' = reqs, \A b \in Cpus \ {c} : emt'[b] = emt[b],
         InHand(c)' = InHand(c),
         InHand(c) # <<>> => emt'[c].q = emt[c].q /\ emt'[c].kind = emt[c].kind
  PROVE  Lines' = Lines /\ Pool' = Pool
<1>1. PICK q \in Dests, k \in Kinds : q = emt[c].q /\ k = emt[c].kind  BY Types DEF IInv
<1>2. HandMoves(c, q, k)  BY <1>1 DEF HandMoves
<1> QED BY <1>2, HandsView

Stutters == UNCHANGED <<Lines, Pool, Serving, Phases>>

LEMMA ControlStutters ==
  ASSUME IInv, IInv', NEW c \in Cpus,
         \/ Serve(c) \/ StartWait(c) \/ SetWait(c) \/ CheckFF(c) \/ Wake(c) \/ Timeout(c)
         \/ ClearFF(c) \/ Peek(c) \/ ReqSetFF(c)
  PROVE  Stutters
<1>0. /\ TypeOK /\ req' = req /\ reqs' = reqs /\ \A b \in Cpus \ {c} : emt'[b] = emt[b]
  <2>1. EmtNext(c) \/ StartWait(c) \/ Timeout(c)  BY DEF EmtNext, Process
  <2> QED BY <2>1, EmtTypeInv
          DEF IInv, Serve, StartWait, SetWait, CheckFF, Wake, Timeout, ClearFF, Peek, ReqSetFF
<1>1. Phases' = Phases  BY <1>0, PhasesSame
<1>2. CASE Peek(c) \/ ReqSetFF(c)
  <2>1. PICK pc \in {"setff", "exec"} : EmtGo(c, pc)  BY <1>2 DEF Peek, ReqSetFF
  <2>2. emt[c].pc \in {"peek", "setff"}  BY <1>2 DEF Peek, ReqSetFF, EmtAt
  <2>3. /\ emt'[c].pc = pc /\ emt'[c].q = emt[c].q /\ emt'[c].kind = emt[c].kind
        /\ emt'[c].list = emt[c].list /\ emt'[c].req = emt[c].req
    BY <1>0, <2>1, Goes DEF EmtPcs
  <2>4. InHand(c)' = InHand(c)  BY <2>2, <2>3 DEF InHand
  <2>5. Lines' = Lines /\ Pool' = Pool  BY <1>0, <2>3, <2>4, ControlView
  <2>6. Serving' = Serving  BY <1>0, <2>2, <2>3, ServingSame
  <2> QED BY <1>1, <2>5, <2>6 DEF Stutters
<1>3. CASE Serve(c) \/ StartWait(c) \/ SetWait(c) \/ CheckFF(c) \/ Wake(c) \/ Timeout(c)
           \/ ClearFF(c)
  <2>1. emt'[c].pc \in {"fwait", "check", "sleep", "top", "priority", "clear"}
    <3>1. CASE Serve(c)
      <4>1. PICK d \in {VMCPUID_ANY, c} :
              emt' = [emt EXCEPT ![c] = [EmtTop EXCEPT !.pc = "clear", !.q = d]]
        BY <3>1 DEF Serve
      <4>2. d \in Dests  BY DEF Dests
      <4>3. /\ [EmtTop EXCEPT !.pc = "clear", !.q = d] \in EmtType
            /\ [EmtTop EXCEPT !.pc = "clear", !.q = d].pc = "clear"
        BY Zenon, <4>2, Begins
      <4> QED BY <1>0, <4>1, <4>3, Becomes
    <3>2. CASE ~Serve(c)
      <4>1. PICK pc \in {"fwait", "check", "sleep", "top", "priority"} : EmtGo(c, pc)
        BY <1>3, <3>2 DEF StartWait, SetWait, CheckFF, Wake, Timeout, ClearFF
      <4>2. pc \in EmtPcs  BY DEF EmtPcs, Kinds
      <4> QED BY <1>0, <4>1, <4>2, Goes
    <3> QED BY <3>1, <3>2
  <2>2. emt[c].pc \in {"fwait", "check", "sleep", "top", "clear"}
    BY <1>3 DEF Serve, StartWait, SetWait, CheckFF, Wake, Timeout, ClearFF, EmtAt
  <2>3. InHand(c)' = <<>> /\ InHand(c) = <<>>  BY <2>1, <2>2 DEF InHand
  <2>4. Lines' = Lines /\ Pool' = Pool  BY <1>0, <2>3, ControlView
  <2>5. Serving' = Serving  BY <1>0, <2>1, <2>2, ServingSame
  <2> QED BY <1>1, <2>4, <2>5 DEF Stutters
<1> QED BY <1>2, <1>3

LEMMA ListsStutter ==
  ASSUME IInv, IInv', NEW c \in Cpus, (\E k \in Kinds : Take(c, k)) \/ PushBack(c) \/ Retake(c)
  PROVE  Stutters
<1>0. /\ TypeOK /\ req' = req /\ reqs \in [Dests -> [Kinds -> Seq(Packets)]]
  BY Zenon DEF IInv, TypeOK, Take, PushBack, Retake
<1>1. Phases' = Phases  BY <1>0, PhasesSame
<1>2. ASSUME NEW k \in Kinds, Take(c, k) PROVE Stutters
  <2>0. PICK q \in Dests, l \in Seq(Packets) : q = emt[c].q /\ l = reqs[q][k]
    BY ZenonT(60), <1>2, TakeFacts
  <2>1. /\ emt[c].pc = k /\ reqs' = [reqs EXCEPT ![q] = [@ EXCEPT ![k] = <<>>]]
        /\ \A b \in Cpus \ {c} : emt'[b] = emt[b]
        /\ l = <<>> => emt'[c].pc \in {"normal", "top"}
        /\ l # <<>> => /\ emt'[c].kind = k /\ emt'[c].q = q
                       /\ emt'[c].req = Last(l) /\ emt'[c].list = Front(l)
                       /\ emt'[c].pc \in {"pushback", "peek", "exec"}
    BY <1>2, <2>0, TakeFacts
  <2>2. /\ reqs'[q][k] = <<>>
        /\ \A d \in Dests, m \in Kinds : (d # q \/ m # k) => reqs'[d][m] = reqs[d][m]
    BY <1>0, <2>1
  <2>3. InHand(c) = <<>>  BY <2>1 DEF InHand, Kinds
  <2>4. InHand(c)' = l
    <3>1. CASE l = <<>>
      <4>1. emt'[c].pc \in {"normal", "top"}  BY <2>1, <3>1
      <4> QED BY <3>1, <4>1 DEF InHand
    <3>2. CASE l # <<>>
      <4>1. InHand(c)' = Append(Front(l), Last(l))  BY <2>1, <3>2 DEF InHand
      <4>2. Append(Front(l), Last(l)) = l  BY ZenonT(60), <3>2, FrontLast, AppendFacts
      <4> QED BY <4>1, <4>2
    <3> QED BY <3>1, <3>2
  <2>5. reqs'[q][k] \o InHand(c)' = reqs[q][k] \o InHand(c)
    BY <2>0, <2>2, <2>3, <2>4, NothingJoined
  <2>6. Lines' = Lines /\ Pool' = Pool
    <3>1. InHand(c)' # <<>> => emt'[c].kind = k /\ emt'[c].q = q  BY <2>1, <2>4
    <3>2. \A b \in Cpus \ {c} : emt'[b] = emt[b]  BY <2>1
    <3>3. HandMoves(c, q, k)  BY Zenon, <2>0, <2>2, <2>3, <2>5, <3>1, <3>2 DEF HandMoves
    <3> QED BY <3>3, HandsView
  <2>7. emt[c].pc # "complete" /\ emt'[c].pc # "complete"
    <3>1. emt'[c].pc \in {"normal", "top", "pushback", "peek", "exec"}  BY <2>1
    <3> QED BY <2>1, <3>1 DEF Kinds
  <2>8. Serving' = Serving  BY <2>1, <2>7, ServingSame
  <2> QED BY <1>1, <2>6, <2>8 DEF Stutters
<1>3. CASE PushBack(c)
  <2>0. PICK q \in Dests, k \in Kinds : q = emt[c].q /\ k = emt[c].kind
    BY <1>3, PushBackFacts
  <2>1. /\ emt[c].pc = "pushback" /\ emt'[c].q = q /\ emt'[c].kind = k
        /\ emt'[c].req = emt[c].req /\ \A b \in Cpus \ {c} : emt'[b] = emt[b]
        /\ reqs[q][k] = <<>> =>
             /\ reqs' = [reqs EXCEPT ![q] = [@ EXCEPT ![k] = emt[c].list]]
             /\ emt'[c].pc = "setff" /\ emt'[c].list = <<>>
        /\ reqs[q][k] # <<>> =>
             reqs' = reqs /\ emt'[c].pc = "retake" /\ emt'[c].list = emt[c].list
    BY <1>3, <2>0, PushBackFacts
  <2>2. emt[c].list \in Seq(Packets) /\ emt[c].req \in Packets
    BY <2>1, Types, Held DEF IInv, HandPcs
  <2>3. InHand(c) = emt[c].list \o <<emt[c].req>>
    BY <2>1, <2>2, AppendFacts DEF InHand
  <2>4. \A d \in Dests, m \in Kinds : (d # q \/ m # k) => reqs'[d][m] = reqs[d][m]
    BY <1>0, <2>1
  <2>5. reqs'[q][k] \o InHand(c)' = reqs[q][k] \o InHand(c)
    <3>1. CASE reqs[q][k] # <<>>
      <4>1. InHand(c)' = InHand(c)  BY <2>1, <3>1 DEF InHand
      <4> QED BY <2>1, <3>1, <4>1
    <3>2. CASE reqs[q][k] = <<>>
      <4>1. reqs'[q][k] = emt[c].list  BY <1>0, <2>1, <3>2
      <4>2. InHand(c)' = Append(<<>>, emt[c].req)  BY Zenon, <2>1, <3>2 DEF InHand
      <4>3. InHand(c)' = <<emt[c].req>>  BY <2>2, <4>2
      <4>4. InHand(c) \in Seq(Packets)  BY InHandType
      <4>5. <<>> \o InHand(c) = InHand(c)  BY <4>4, NothingJoined
      <4> QED BY <2>3, <3>2, <4>1, <4>3, <4>5
    <3> QED BY <3>1, <3>2
  <2>6. Lines' = Lines /\ Pool' = Pool
    <3>1. InHand(c) # <<>> => emt[c].kind = k  BY <2>0
    <3>2. HandMoves(c, q, k)  BY Zenon, <2>0, <2>1, <2>4, <2>5, <3>1 DEF HandMoves
    <3> QED BY <3>2, HandsView
  <2>7. Serving' = Serving  BY <2>1, ServingSame
  <2> QED BY <1>1, <2>6, <2>7 DEF Stutters
<1>4. CASE Retake(c)
  <2>0. PICK q \in Dests, k \in Kinds : q = emt[c].q /\ k = emt[c].kind
    BY <1>4, RetakeFacts
  <2>1. /\ emt[c].pc = "retake" /\ emt'[c].pc = "pushback"
        /\ emt'[c].q = q /\ emt'[c].kind = k
        /\ emt'[c].req = emt[c].req /\ emt'[c].list = reqs[q][k] \o emt[c].list
        /\ \A b \in Cpus \ {c} : emt'[b] = emt[b]
        /\ reqs' = [reqs EXCEPT ![q] = [@ EXCEPT ![k] = <<>>]]
        /\ reqs[q][k] \o emt[c].list \in Seq(Packets)
    BY <1>4, <2>0, RetakeFacts
  <2>2. /\ emt[c].list \in Seq(Packets) /\ emt[c].req \in Packets
        /\ reqs[q][k] \in Seq(Packets) /\ <<emt[c].req>> \in Seq(Packets)
    BY <2>1, Types, Held, OneIn DEF IInv, HandPcs
  <2>3. InHand(c) = emt[c].list \o <<emt[c].req>>
    BY <2>1, <2>2, AppendFacts DEF InHand
  <2>4. InHand(c)' = (reqs[q][k] \o emt[c].list) \o <<emt[c].req>>
    <3>1. InHand(c)' = Append(reqs[q][k] \o emt[c].list, emt[c].req)  BY <2>1 DEF InHand
    <3> QED BY <2>1, <2>2, <3>1, AppendFacts
  <2>5. reqs'[q][k] = <<>> /\
        \A d \in Dests, m \in Kinds : (d # q \/ m # k) => reqs'[d][m] = reqs[d][m]
    BY <1>0, <2>1
  <2>6. reqs'[q][k] \o InHand(c)' = reqs[q][k] \o InHand(c)
    <3>1. (reqs[q][k] \o emt[c].list) \o <<emt[c].req>>
            = reqs[q][k] \o (emt[c].list \o <<emt[c].req>>)
      <4>1. \A s, t, u \in Seq(Packets) : (s \o t) \o u = s \o (t \o u)
        BY ConcatAssociative
      <4> QED BY <2>2, <4>1
    <3>2. (reqs[q][k] \o emt[c].list) \o <<emt[c].req>> \in Seq(Packets)
      BY <2>1, <2>2, ConcatProperties
    <3>3. <<>> \o InHand(c)' = InHand(c)'  BY SMTT(40), <2>4, <3>2, NothingJoined
    <3> QED BY <2>3, <2>4, <2>5, <3>1, <3>3
  <2>7. Lines' = Lines /\ Pool' = Pool
    <3>1. HandMoves(c, q, k)  BY Zenon, <2>0, <2>1, <2>5, <2>6 DEF HandMoves
    <3> QED BY <3>1, HandsView
  <2>8. Serving' = Serving  BY <2>1, ServingSame
  <2> QED BY <1>1, <2>7, <2>8 DEF Stutters
<1> QED BY SMTT(40), <1>2, <1>3, <1>4

\* A push puts the packet at the end of the line of a CPU, or in the pool.
LEMMA QueueSends ==
  ASSUME IInv, IInv', NEW u \in Clients, Queue(u)
  PROVE  \E p \in Packets : Service!Send(p)
<1>0. /\ emt' = emt /\ client[u].pc = "queue" /\ TypeOK
      /\ reqs \in [Dests -> [Kinds -> Seq(Packets)]]
  BY DEF IInv, TypeOK, Queue, ClientAt
<1>1. PICK p \in Packets : p = client[u].req  BY <1>0, Held
<1>2. req[p].enmState = "ALLOCATED"  BY <1>0, <1>1, InCall
<1>3. client[u].todo # <<>> /\ client[u].todo \in Seq(Dests) /\ req[p].kind \in Kinds
  BY SMTT(40), <1>0, Types DEF TypeOK, ReqType
<1>4. PICK d \in Dests, k \in Kinds : d = Head(client[u].todo) /\ k = req[p].kind
  BY <1>3, TailFacts
<1>5. /\ \A o \in Packets \ {p} : req'[o] = req[o]
      /\ req'[p].enmState = "QUEUED"
  <2>1. SetState(p, "QUEUED") /\ "QUEUED" \in States  BY Zenon, <1>1 DEF Queue, States
  <2> QED BY <1>0, <2>1, States1
<1>6. /\ reqs'[d][k] = <<p>> \o reqs[d][k] /\ reqs[d][k] \in Seq(Packets)
      /\ \A e \in Dests, l \in Kinds : (e # d \/ l # k) => reqs'[e][l] = reqs[e][l]
  <2>1. reqs' = [reqs EXCEPT ![d][k] = <<p>> \o reqs[d][k]]  BY Zenon, <1>0, <1>1, <1>4 DEF Queue
  <2> QED BY SMTT(40), <1>0, <2>1
<1>7. Service!Becomes(p, "idle", "waiting")
  BY <1>2, <1>5, PhasesTo, PhaseFacts DEF Service!Becomes
<1>8. Serving' = Serving  BY <1>0 DEF Serving
<1>9. /\ \A b \in Cpus : /\ \A e, l : Taken(b, e, l)' = Taken(b, e, l)
                         /\ Hand(b)' = Hand(b)
      /\ VMCPUID_ANY \in Dests /\ Cpus \subseteq Dests /\ VMCPUID_ANY \notin Cpus
  BY <1>0, DestsAssumption DEF Taken, InHand, Hand, Dests
<1>10. CASE d \in Cpus
  <2>1. \A b \in Cpus, l \in Kinds : (b # d \/ l # k) => Whole(b, l)' = Whole(b, l)
    BY ZenonT(60), <1>6, <1>9 DEF Whole
  <2>2. Reverse(Whole(d, k)') = Append(Reverse(Whole(d, k)), p)
    <3>1. PICK s \in Seq(Packets), t \in Seq(Packets) : s = reqs[d][k] /\ t = Taken(d, d, k)
      BY <1>6, <1>10, InHandType
    <3>2. Whole(d, k)' = (<<p>> \o s) \o t /\ Whole(d, k) = s \o t
      BY <1>6, <1>9, <1>10, <3>1 DEF Whole
    <3>3. <<p>> \in Seq(Packets) /\ s \o t \in Seq(Packets)  BY OneIn, ConcatProperties
    <3>4. (<<p>> \o s) \o t = <<p>> \o (s \o t)
      <4>1. \A x, y, z \in Seq(Packets) : (x \o y) \o z = x \o (y \o z)  BY ConcatAssociative
      <4> QED BY <3>3, <4>1
    <3>5. Reverse(<<p>> \o (s \o t)) = Append(Reverse(s \o t), p)  BY <3>3, ReverseNewest
    <3> QED BY <3>2, <3>4, <3>5
  <2>3. /\ Lines' = [Lines EXCEPT ![d][k] = Append(Reverse(Whole(d, k)), p)]
        /\ Lines[d][k] = Reverse(Whole(d, k))
    BY <1>10, <2>1, <2>2, LinesTo
  <2>4. Lines' = [Lines EXCEPT ![d][k] = Append(@, p)]  BY <2>3
  <2>5. Pool' = Pool
    <3>1. \A l \in Kinds : reqs'[VMCPUID_ANY][l] = reqs[VMCPUID_ANY][l]  BY <1>6, <1>9, <1>10
    <3>2. \A x : \A l \in Kinds : InPool(x, l)' <=> InPool(x, l)
      BY <1>0, <1>9, <3>1 DEF InPool
    <3> QED BY <3>2, PoolSame
  <2> QED BY <1>7, <1>8, <1>10, <2>4, <2>5 DEF Service!Send
<1>11. CASE d = VMCPUID_ANY
  <2>1. ASSUME NEW b \in Cpus, NEW l \in Kinds PROVE Whole(b, l)' = Whole(b, l)
    <3>1. b # d /\ b \in Dests  BY <1>9, <1>11
    <3>2. reqs'[b][l] = reqs[b][l] /\ Taken(b, b, l)' = Taken(b, b, l)  BY <1>6, <1>9, <3>1
    <3> QED BY <3>2 DEF Whole
  <2>2. Lines' = Lines  BY <2>1, LinesSame
  <2>3. \A x : \A l \in Kinds \ {k} : InPool(x, l)' <=> InPool(x, l)
    BY <1>0, <1>6, <1>9, <1>11 DEF InPool
  <2>4. \A x : InPool(x, k)' <=> x \in Pool[k] \union {p}
    <3>1. <<p>> \in Seq(Packets) /\ Range(<<p>>) = {p}  BY OneIn
    <3>2. Range(<<p>> \o reqs[d][k]) = {p} \union Range(reqs[d][k])
      <4>1. \A s, t \in Seq(Packets) : Range(s \o t) = Range(s) \union Range(t)
        BY RangeConcatenation
      <4> QED BY Zenon, <1>6, <3>1, <4>1
    <3>3. \A x : InPool(x, k)' <=> InPool(x, k) \/ x = p
      BY <1>0, <1>6, <1>9, <1>11, <3>2 DEF InPool
    <3>4. \A x : x \in Pool[k] <=> InPool(x, k)  BY PoolNow DEF PoolIs
    <3> QED BY <3>3, <3>4
  <2>5. Pool' = [Pool EXCEPT ![k] = Pool[k] \union {p}]  BY <2>3, <2>4, PoolTo
  <2>6. Pool' = [Pool EXCEPT ![k] = @ \union {p}]  BY <2>5
  <2> QED BY <1>7, <1>8, <2>2, <2>6 DEF Service!Send
<1> QED BY <1>10, <1>11 DEF Dests

\* The request that begins to run is the first in the line, or one of the pool.
LEMMA ExecStarts ==
  ASSUME IInv, IInv', NEW c \in Cpus, Exec(c)
  PROVE  \E p \in Packets : Service!Start(c, p)
<1>0. PICK p \in Packets : p = emt[c].req  BY ExecFacts
<1>1. /\ emt[c].pc = "exec" /\ emt[c].list = <<>> /\ Hand(c) = {p}
      /\ emt'[c].pc = "complete" /\ emt'[c].req = p
      /\ \A b \in Cpus \ {c} : emt'[b] = emt[b]
      /\ SetState(p, "PROCESSING") /\ reqs' = reqs
  BY <1>0, ExecFacts
<1>2. TypeOK /\ ListsOK /\ EmtOK(c)  BY DEF IInv
<1>3. PICK q \in Dests, k \in Kinds : q = emt[c].q /\ k = emt[c].kind  BY <1>2, Types
<1>4. /\ q \in {VMCPUID_ANY, c} /\ VMCPUID_ANY \in Dests /\ VMCPUID_ANY \notin Cpus
      /\ c \in Dests
  BY <1>2, <1>3, DestsAssumption DEF EmtOK, Dests
<1>5. /\ \A d \in Dests, l \in Kinds : p \notin Range(reqs[d][l])
      /\ \A b \in Cpus : p \in Hand(b) => b = c
      /\ req[p].enmState = "QUEUED"
  BY <1>1, <1>2 DEF ListsOK, TurnOf
<1>6. /\ \A o \in Packets \ {p} : req'[o] = req[o]
      /\ req'[p].enmState = "PROCESSING"
  BY <1>1, <1>2, States1 DEF States
<1>7. Service!Becomes(p, "waiting", "running")
  BY <1>5, <1>6, PhasesTo, PhaseFacts DEF Service!Becomes
<1>8. Serving[c] = NoReq /\ Serving' = [Serving EXCEPT ![c] = p]
  BY <1>1, ServingTo
<1>9. /\ \A b \in Cpus \ {c} : /\ Hand(b)' = Hand(b)
                               /\ \A d, l : Taken(b, d, l)' = Taken(b, d, l)
      /\ InHand(c) = <<p>> /\ InHand(c)' = <<>> /\ Hand(c)' = {}
  <2>1. Append(<<>>, p) = <<p>>  OBVIOUS
  <2>2. InHand(c) = Append(<<>>, p)  BY <1>0, <1>1 DEF InHand
  <2>3. InHand(c)' = <<>> /\ Hand(c)' = {}  BY <1>1 DEF InHand, Hand, HandPcs
  <2>4. \A b \in Cpus \ {c} : /\ Hand(b)' = Hand(b)
                              /\ \A d, l : Taken(b, d, l)' = Taken(b, d, l)
    BY <1>1 DEF Hand, Taken, InHand
  <2> QED BY <2>1, <2>2, <2>3, <2>4
<1>10. /\ Taken(c, q, k) = <<p>> /\ \A d, l : Taken(c, d, l)' = <<>>
       /\ \A d, l : (d # q \/ l # k) => Taken(c, d, l) = <<>>
  BY <1>3, <1>9 DEF Taken
<1>11. CASE q = c
  <2>1. \A b \in Cpus, l \in Kinds : (b # c \/ l # k) => Whole(b, l)' = Whole(b, l)
    <3> SUFFICES ASSUME NEW b \in Cpus, NEW l \in Kinds, b # c \/ l # k
                 PROVE  Taken(b, b, l)' = Taken(b, b, l)
      BY <1>1 DEF Whole
    <3>1. CASE b = c  BY <1>10, <1>11, <3>1
    <3>2. CASE b # c  BY <1>9, <3>2
    <3> QED BY <3>1, <3>2
  <2>2. PICK s \in Seq(Packets) : s = reqs[c][k]  BY <1>2, <1>4, Types
  <2>3. Whole(c, k) = s \o <<p>> /\ Whole(c, k)' = s
    <3>1. s \o <<>> = s  BY NothingJoined
    <3>2. Whole(c, k) = reqs[c][k] \o Taken(c, c, k)  BY DEF Whole
    <3>3. Whole(c, k)' = reqs'[c][k] \o Taken(c, c, k)'  BY DEF Whole
    <3> QED BY <1>1, <1>10, <1>11, <2>2, <3>1, <3>2, <3>3
  <2>4. /\ Lines' = [Lines EXCEPT ![c][k] = Reverse(s)]
        /\ Lines[c][k] = Reverse(s \o <<p>>)
    <3>1. Reverse(Whole(c, k)') = Reverse(s) /\ Reverse(Whole(c, k)) = Reverse(s \o <<p>>)
      BY <2>3
    <3> QED BY <2>1, <3>1, LinesTo
  <2>5. Lines[c][k] # <<>> /\ Head(Lines[c][k]) = p /\ Tail(Lines[c][k]) = Reverse(s)
    BY <2>4, ReverseOldest
  <2>6. Lines' = [Lines EXCEPT ![c][k] = Tail(@)]  BY <2>4, <2>5
  <2>7. Pool' = Pool
    <3>1. \A x : \A l \in Kinds : InPool(x, l)' <=> InPool(x, l)
      BY <1>1, <1>3, <1>4, <1>9, <1>11 DEF InPool
    <3> QED BY <3>1, PoolSame
  <2> QED BY <1>7, <1>8, <2>5, <2>6, <2>7 DEF Service!Start
<1>12. CASE q = VMCPUID_ANY
  <2>1. \A b \in Cpus, l \in Kinds : Whole(b, l)' = Whole(b, l)
    <3> SUFFICES ASSUME NEW b \in Cpus, NEW l \in Kinds
                 PROVE  Taken(b, b, l)' = Taken(b, b, l)
      BY <1>1 DEF Whole
    <3>1. CASE b = c  BY <1>4, <1>10, <1>12, <3>1
    <3>2. CASE b # c  BY <1>9, <3>2
    <3> QED BY <3>1, <3>2
  <2>2. Lines' = Lines  BY <2>1, LinesSame
  <2>3. \A x : \A l \in Kinds \ {k} : InPool(x, l)' <=> InPool(x, l)
    BY <1>1, <1>3, <1>9 DEF InPool
  <2>4. \A x : InPool(x, k)' <=> InPool(x, k) /\ x # p
    <3>1. \A x : InPool(x, k) <=>
            \/ x \in Range(reqs[VMCPUID_ANY][k]) \/ x = p
            \/ \E b \in Cpus \ {c} : emt[b].q = VMCPUID_ANY /\ emt[b].kind = k /\ x \in Hand(b)
      BY <1>1, <1>3, <1>12 DEF InPool
    <3>2. \A x : InPool(x, k)' <=>
            \/ x \in Range(reqs[VMCPUID_ANY][k])
            \/ \E b \in Cpus \ {c} : emt[b].q = VMCPUID_ANY /\ emt[b].kind = k /\ x \in Hand(b)
      BY <1>1, <1>9 DEF InPool
    <3>3. /\ p \notin Range(reqs[VMCPUID_ANY][k])
          /\ \A b \in Cpus \ {c} : p \notin Hand(b)
      BY <1>4, <1>5
    <3> QED BY <3>1, <3>2, <3>3
  <2>5. \A x : x \in Pool[k] <=> InPool(x, k)  BY PoolNow DEF PoolIs
  <2>6. \A x : InPool(x, k)' <=> x \in Pool[k] \ {p}  BY <2>4, <2>5
  <2>7. Pool' = [Pool EXCEPT ![k] = Pool[k] \ {p}]  BY <2>3, <2>6, PoolTo
  <2>8. p \in Pool[k]  BY <1>1, <1>3, <1>12, <2>5 DEF InPool
  <2>9. Pool' = [Pool EXCEPT ![k] = @ \ {p}]  BY <2>7
  <2> QED BY <1>7, <1>8, <2>2, <2>8, <2>9 DEF Service!Start
<1> QED BY <1>4, <1>11, <1>12

\* The request has run, and the EMT serves none.
LEMMA CompleteFinishes ==
  ASSUME IInv, IInv', NEW c \in Cpus, Complete(c)
  PROVE  \E p \in Packets : Service!Finish(c, p)
<1>0. /\ emt[c].pc = "complete" /\ TypeOK /\ reqs' = reqs /\ emt[c].pc \in ServicePcs
      /\ SetState(emt[c].req, "COMPLETED") /\ EmtGo(c, "flags")
  BY DEF IInv, Complete, EmtAt, ServicePcs
<1>1. PICK p \in Packets : p = emt[c].req /\ req[p].enmState = "PROCESSING"
  BY <1>0, Alone
<1>2. /\ \A o \in Packets \ {p} : req'[o] = req[o]
      /\ req'[p].enmState = "COMPLETED"
  BY <1>0, <1>1, States1 DEF States
<1>3. /\ emt'[c].pc = "flags" /\ \A b \in Cpus \ {c} : emt'[b] = emt[b]
  BY <1>0, Goes DEF EmtPcs
<1>4. Service!Becomes(p, "running", "done")
  BY <1>1, <1>2, PhasesTo, PhaseFacts DEF Service!Becomes
<1>5. Serving[c] = p /\ Serving' = [Serving EXCEPT ![c] = NoReq]
  BY <1>0, <1>1, <1>3, ServingTo
<1>6. InHand(c) = <<>> /\ InHand(c)' = <<>>  BY <1>0, <1>3 DEF InHand
<1>7. Lines' = Lines /\ Pool' = Pool  BY <1>0, <1>3, <1>6, ControlView
<1> QED BY <1>4, <1>5, <1>7 DEF Service!Finish

LEMMA Returns ==
  ASSUME NEW p \in Packets, req[p].enmState = "COMPLETED",
         req'[p].enmState \in {"ALLOCATED", "FREE", "INVALID"},
         \A o \in Packets \ {p} : req'[o] = req[o],
         Lines' = Lines, Pool' = Pool, Serving' = Serving
  PROVE  Service!Return(p)
<1>1. Phases[p] = "done" /\ Phases' = [Phases EXCEPT ![p] = "idle"]
  BY PhasesTo, PhaseFacts
<1> QED BY <1>1 DEF Service!Return, Service!Becomes

\* The EMT frees a packet that nobody waits for, or signals its event.
LEMMA ReportReturns ==
  ASSUME IInv, IInv', NEW c \in Cpus, Flags(c) \/ Signal(c)
  PROVE  Stutters \/ \E p \in Packets : Service!Return(p)
<1>0. /\ emt[c].pc \in {"flags", "signal"} /\ TypeOK /\ reqs' = reqs /\ emt[c].pc \in ServicePcs
  BY DEF IInv, Flags, Signal, EmtAt, ServicePcs
<1>1. PICK p \in Packets : p = emt[c].req /\ req[p].enmState = "COMPLETED"
  BY <1>0, Alone
<1>2. ASSUME emt'[c].pc \in {"top", "clear", "signal"}, \A b \in Cpus \ {c} : emt'[b] = emt[b]
      PROVE  Lines' = Lines /\ Pool' = Pool /\ Serving' = Serving
  <2>1. InHand(c) = <<>> /\ InHand(c)' = <<>>  BY <1>0, <1>2 DEF InHand
  <2>2. Lines' = Lines /\ Pool' = Pool  BY <1>0, <1>2, <2>1, ControlView
  <2>3. Serving' = Serving  BY <1>0, <1>2, ServingSame
  <2> QED BY <2>2, <2>3
<1>3. CASE Flags(c) /\ req[p].noWait
  <2>1. VMR3ReqFree(p) /\ Resume(c)  BY <1>1, <1>3 DEF Flags
  <2>2. /\ \A o \in Packets \ {p} : req'[o] = req[o]
        /\ req'[p].enmState \in {"FREE", "INVALID"}
    BY <1>0, <2>1, Freed, States1
  <2>3. emt'[c].pc \in {"top", "clear"} /\ \A b \in Cpus \ {c} : emt'[b] = emt[b]
    BY <1>0, <2>1, Resumes
  <2>4. Lines' = Lines /\ Pool' = Pool /\ Serving' = Serving  BY <1>2, <2>3
  <2> QED BY <1>1, <2>2, <2>4, Returns
<1>4. CASE Flags(c) /\ ~req[p].noWait
  <2>1. req' = [req EXCEPT ![p].fEventSemClear = FALSE] /\ EmtGo(c, "signal")
    BY <1>1, <1>4 DEF Flags
  <2>2. \A o \in Packets : req'[o].enmState = req[o].enmState
    BY <1>0, <2>1, Clears
  <2>3. emt'[c].pc = "signal" /\ \A b \in Cpus \ {c} : emt'[b] = emt[b]
    BY <1>0, <2>1, Goes DEF EmtPcs
  <2> QED BY <1>2, <2>2, <2>3, PhasesSame DEF Stutters
<1>5. CASE Signal(c)
  <2>1. req' = req /\ Resume(c)  BY <1>5 DEF Signal
  <2>2. emt'[c].pc \in {"top", "clear"} /\ \A b \in Cpus \ {c} : emt'[b] = emt[b]
    BY <1>0, <2>1, Resumes
  <2> QED BY <1>2, <2>1, <2>2, PhasesSame DEF Stutters
<1> QED BY <1>3, <1>4, <1>5

\* The steps of a client other than the push: a call returns, or nothing happens.
LEMMA ClientReturns ==
  ASSUME IInv, NEW u \in Clients,
         \/ VMR3ReqAllocU(u) \/ SetFF(u) \/ NotifyFF(u) \/ Poll(u) \/ WaitEvent(u)
         \/ CheckState(u) \/ Free(u)
  PROVE  Stutters \/ \E p \in Packets : Service!Return(p)
<1>0. /\ TypeOK /\ emt' = emt /\ reqs' = reqs /\ event \in [Packets -> BOOLEAN]
  BY DEF IInv, TypeOK, VMR3ReqAllocU, SetFF, NotifyFF, Poll, WaitEvent, CheckState, Free
<1>1. Lines' = Lines /\ Pool' = Pool /\ Serving' = Serving
  BY <1>0 DEF Lines, Pool, Serving, Taken, InHand
<1>2. CASE VMR3ReqAllocU(u)
  <2>1. PICK p \in In("FREE") \union New, em \in BOOLEAN, nowait \in BOOLEAN,
             dst \in Dests \union {VMCPUID_ALL, VMCPUID_ALL_REVERSE}, k \in Kinds :
          req' = [req EXCEPT ![p] =
            [enmState |-> "ALLOCATED", dst |-> dst, kind |-> k,
             noWait |-> nowait, em |-> em, fEventSemClear |-> TRUE]]
    <3>1. calls[u] # <<>> /\ calls[u] \in Seq(Call)  BY <1>0, <1>2 DEF VMR3ReqAllocU, TypeOK
    <3>2. PICK call \in Call : call = Head(calls[u])  BY <3>1, TailFacts
    <3>3. PICK p \in In("FREE") \union New :
            req' = [req EXCEPT ![p] =
              [enmState |-> "ALLOCATED", dst |-> call.dst, kind |-> call.kind,
               noWait |-> call.noWait, em |-> call.em, fEventSemClear |-> TRUE]]
      BY <1>2, <3>2 DEF VMR3ReqAllocU
    <3>4. /\ call.em \in BOOLEAN /\ call.noWait \in BOOLEAN /\ call.kind \in Kinds
          /\ call.dst \in Dests \union {VMCPUID_ALL, VMCPUID_ALL_REVERSE}
      BY DEF Call
    <3> QED BY <3>3, <3>4
  <2>2. p \in Packets /\ req[p].enmState \in {"INVALID", "FREE"}  BY Fresh
  <2>3. /\ \A o \in Packets \ {p} : req'[o] = req[o]
        /\ req'[p].enmState = "ALLOCATED"
    BY <1>0, <2>1, <2>2, Types
  <2>4. \A o \in Packets : phaseOf[req'[o].enmState] = phaseOf[req[o].enmState]
    BY <2>2, <2>3, PhaseFacts
  <2> QED BY <1>1, <2>4, PhasesSame DEF Stutters
<1>3. CASE SetFF(u) \/ NotifyFF(u) \/ WaitEvent(u)
  <2>1. req' = req  BY <1>3 DEF SetFF, NotifyFF, WaitEvent
  <2> QED BY <1>1, <2>1, PhasesSame DEF Stutters
<1>4. CASE Poll(u)
  <2>1. client[u].pc = "poll"  BY <1>4 DEF Poll, ClientAt
  <2>2. PICK p \in Packets : p = client[u].req  BY <2>1, Held
  <2>3. PICK b \in BOOLEAN : b = (req[p].fEventSemClear \/ event[p])  OBVIOUS
  <2>4. req' = [req EXCEPT ![p].fEventSemClear = b]
    BY <1>0, <1>4, <2>2, <2>3, Types DEF Poll
  <2>5. \A o \in Packets : req'[o].enmState = req[o].enmState
    BY <1>0, <2>4, Clears
  <2> QED BY <1>1, <2>5, PhasesSame DEF Stutters
<1>5. CASE CheckState(u)
  <2>1. client[u].pc = "check"  BY <1>5 DEF CheckState, ClientAt
  <2>2. PICK p \in Packets : p = client[u].req  BY <2>1, Held
  <2>3. req[p].enmState = "COMPLETED"  BY <2>1, <2>2, InCall
  <2>4. CASE ~More(client[u].todo)
    <3>1. req' = [req EXCEPT ![p].fEventSemClear = TRUE]
      BY <1>5, <2>2, <2>3, <2>4 DEF CheckState
    <3>2. \A o \in Packets : req'[o].enmState = req[o].enmState
      BY <1>0, <3>1, Clears
    <3> QED BY <1>1, <3>2, PhasesSame DEF Stutters
  <2>5. CASE More(client[u].todo)
    <3>1. req' = [req EXCEPT ![p].fEventSemClear = TRUE, ![p].enmState = "ALLOCATED"]
      BY <1>5, <2>2, <2>3, <2>5 DEF CheckState
    <3>2. req \in [Packets -> ReqType] /\ req[p] \in ReqType  BY <1>0, Types
    <3>3. req'[p] = [req[p] EXCEPT !.fEventSemClear = TRUE, !.enmState = "ALLOCATED"]
      BY <3>1, <3>2
    <3>4. req'[p].enmState = "ALLOCATED"  BY <3>2, <3>3 DEF ReqType
    <3>5. \A o \in Packets \ {p} : req'[o] = req[o]  BY <3>1, <3>2
    <3> QED BY <1>1, <2>3, <3>4, <3>5, Returns
  <2> QED BY <2>4, <2>5
<1>6. CASE Free(u)
  <2>1. client[u].pc = "free"  BY <1>6 DEF Free, ClientAt
  <2>2. PICK p \in Packets : p = client[u].req  BY <2>1, Held
  <2>3. req[p].enmState = "COMPLETED"  BY <2>1, <2>2, InCall
  <2>4. VMR3ReqFree(p)  BY <1>6, <2>2 DEF Free
  <2>5. /\ \A o \in Packets \ {p} : req'[o] = req[o]
        /\ req'[p].enmState \in {"FREE", "INVALID"}
    BY <1>0, <2>4, Freed, States1
  <2> QED BY <1>1, <2>3, <2>5, Returns
<1> QED BY <1>2, <1>3, <1>4, <1>5, <1>6

LEMMA StepOfService ==
  ASSUME IInv, IInv', Next
  PROVE  Stutters \/ Service!Next
<1>1. ASSUME NEW u \in Clients, VMR3ReqAllocU(u) \/ ClientNext(u)
      PROVE  Stutters \/ Service!Next
  <2>1. CASE Queue(u)
    BY <2>1, QueueSends DEF Service!Next
  <2>2. CASE ~Queue(u)
    BY <1>1, <2>2, ClientReturns DEF ClientNext, Service!Next
  <2> QED BY <2>1, <2>2
<1>2. ASSUME NEW c \in Cpus, EmtNext(c) \/ StartWait(c) \/ Timeout(c)
      PROVE  Stutters \/ Service!Next
  <2>1. CASE Exec(c)  BY <2>1, ExecStarts DEF Service!Next
  <2>2. CASE Complete(c)  BY <2>2, CompleteFinishes DEF Service!Next
  <2>3. CASE Flags(c) \/ Signal(c)  BY <2>3, ReportReturns DEF Service!Next
  <2>4. CASE (\E k \in Kinds : Take(c, k)) \/ PushBack(c) \/ Retake(c)  BY <2>4, ListsStutter
  <2>5. CASE \/ Serve(c) \/ StartWait(c) \/ SetWait(c) \/ CheckFF(c) \/ Wake(c) \/ Timeout(c)
             \/ ClearFF(c) \/ Peek(c) \/ ReqSetFF(c)
    BY <2>5, ControlStutters
  <2> QED BY <1>2, <2>1, <2>2, <2>3, <2>4, <2>5 DEF EmtNext, Process
<1> QED BY <1>1, <1>2 DEF Next

\* The request queues implement their promise: first come, first served on each CPU,
\* one request at a time, and no return before the request has run.
THEOREM ImplementsPromise == Spec => ImplementsService
<1>1. Init => Service!Init
  <2> SUFFICES ASSUME Init PROVE Service!Init  OBVIOUS
  <2>1. /\ \A c \in Cpus : InHand(c) = <<>> /\ emt[c].pc = "top"
        /\ \A d \in Dests, k \in Kinds : reqs[d][k] = <<>>
        /\ \A p \in Packets : req[p].enmState = "INVALID"
        /\ VMCPUID_ANY \in Dests /\ Cpus \subseteq Dests
    BY Idles DEF Init, InHand, NewReq, Dests
  <2>2. \A c, d, k : c \in Cpus => Taken(c, d, k) = <<>>  BY <2>1 DEF Taken
  <2>3. <<>> \o <<>> = <<>> /\ Reverse(<<>>) = <<>> /\ Range(<<>>) = {}
    <3>1. <<>> \in Seq(Packets)  BY EmptySeq
    <3>2. <<>> \o <<>> = <<>>  BY <3>1, NothingJoined
    <3>3. Reverse(<<>>) = <<>>  BY <3>1, ReverseIs, EmptySeq
    <3> QED BY <3>2, <3>3, NoneIn
  <2>4. Lines = [c \in Cpus |-> [k \in Kinds |-> <<>>]]
    <3>1. \A c \in Cpus, k \in Kinds : Reverse(reqs[c][k] \o Taken(c, c, k)) = <<>>
      <4> SUFFICES ASSUME NEW c \in Cpus, NEW k \in Kinds
                   PROVE  Reverse(reqs[c][k] \o Taken(c, c, k)) = <<>>
        OBVIOUS
      <4>1. reqs[c][k] = <<>> /\ Taken(c, c, k) = <<>>  BY <2>1, <2>2
      <4> QED BY <2>3, <4>1
    <3>2. Lines = [c \in Cpus |-> [k \in Kinds |-> Reverse(reqs[c][k] \o Taken(c, c, k))]]
      BY DEF Lines
    <3> QED BY <3>1, <3>2
  <2>5. Pool = [k \in Kinds |-> {}]  BY <2>1, <2>2, <2>3 DEF Pool
  <2>6. Serving = [c \in Cpus |-> NoReq]  BY <2>1 DEF Serving
  <2>7. Phases = [p \in Packets |-> "idle"]  BY <2>1, PhaseFacts DEF Phases
  <2> QED BY <2>4, <2>5, <2>6, <2>7 DEF Service!Init
<1>2. IInv /\ IInv' /\ [Next]_vars => [Service!Next]_(Service!vars)
  <2> SUFFICES ASSUME IInv, IInv', [Next]_vars PROVE [Service!Next]_(Service!vars)
    OBVIOUS
  <2>1. CASE Next  BY <2>1, StepOfService DEF Stutters, Service!vars
  <2>2. CASE UNCHANGED vars
    <3>1. Lines' = Lines /\ Pool' = Pool /\ Serving' = Serving /\ Phases' = Phases
      BY <2>2 DEF vars, Lines, Pool, Serving, Phases, Taken, InHand
    <3> QED BY <3>1 DEF Service!vars
  <2> QED BY <2>1, <2>2
<1> QED BY <1>1, <1>2, Inductive, PTL DEF Spec, ImplementsService, Service!Spec

=============================================================================
