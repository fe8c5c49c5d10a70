------------------------ MODULE PDMCritSectListProofs ------------------------
(***************************************************************************)
(* Theorems about PDMCritSectList, for every set of threads, sections and  *)
(* keys.                                                                   *)
(*                                                                         *)
(* The argument: the sections that are initialised, but for those that are *)
(* being inserted, can be put in a row without repetition that begins with *)
(* the head and in which everyone's next pointer leads to its successor.   *)
(* An insertion adds to the front of the row, a deletion closes the gap,   *)
(* and a walk keeps its pointer on the row and the other on what precedes  *)
(* it.  All this holds until the head is written from a value of it that   *)
(* has changed since; with one thread that never comes about.              *)
(***************************************************************************)
EXTENDS PDMCritSectList, FiniteSetTheorems, TLAPS

-----------------------------------------------------------------------------
(* The inductive invariant. *)

SectOrNull == Sects \cup {Null}

ListType == /\ head \in SectOrNull /\ pNext \in [Sects -> SectOrNull]
            /\ pvKey \in [Sects -> Keys \cup {NoKey}] /\ live \in SUBSET Sects

WalkType == [op : {"none", "one", "key", "all"}, target : SectOrNull \cup Keys,
             prev : SectOrNull, cur : SectOrNull]

TypeOK == /\ ListType /\ ins \in [Threads -> SectOrNull]
          /\ lock \in Threads \cup {NoThread} /\ walk \in WalkType /\ raced \in BOOLEAN

\* The row l of n sections is the list.
Row(n, l) ==
  /\ \A i, j \in 1..n : l[i] = l[j] => i = j
  /\ Listed = {l[i] : i \in 1..n}
  /\ head = IF n = 0 THEN Null ELSE l[1]
  /\ \A i \in 1..n : pNext[l[i]] = IF i = n THEN Null ELSE l[i + 1]

InRow == \E n \in Nat : \E l \in [1..n -> Sects] : Row(n, l)

\* What is being inserted is initialised, and by one thread.
InsOK == /\ \A t \in Threads : ins[t] # Null => ins[t] \in live
         /\ \A t, u \in Threads : ins[t] = ins[u] /\ ins[t] # Null => t = u

\* s is on the list and prev is what precedes it.
Precedes(prev, s) ==
  /\ s \in Listed
  /\ IF prev = Null THEN head = s ELSE prev \in Listed /\ pNext[prev] = s

\* The walk is on the list and knows what precedes; it may take a section for the
\* head that is the head no more.
WalkOK == /\ lock = NoThread => walk.cur = Null
          /\ walk.op = "all" => walk.prev = Null
          /\ walk.cur # Null => /\ walk.cur \in Listed
                                /\ walk.prev # Null => Precedes(walk.prev, walk.cur)

IInv == TypeOK /\ (raced \/ (InRow /\ InsOK /\ WalkOK))

-----------------------------------------------------------------------------
(* The operations on the row. *)

(* A new section goes to the front. *)
LEMMA Prepends ==
  ASSUME ListType, InRow, NEW s \in Sects, s \notin Listed, Listed' = Listed \cup {s},
         pNext[s] = head, pNext' = pNext, head' = s
  PROVE  InRow'
<1>1. PICK n \in Nat : \E l \in [1..n -> Sects] : Row(n, l)  BY DEF InRow
<1>2. PICK l \in [1..n -> Sects] : Row(n, l)  BY <1>1
<1> DEFINE m == n + 1
           k == [i \in 1..m |-> IF i = 1 THEN s ELSE l[i - 1]]
<1>3. m \in Nat /\ \A i \in 2..m : i - 1 \in 1..n  OBVIOUS
<1>4. /\ k \in [1..m -> Sects] /\ k[1] = s /\ \A i \in 2..m : k[i] = l[i - 1]
      /\ \A i \in 1..m : i = 1 \/ i \in 2..m
  BY <1>3
<1> HIDE DEF k
<1>5. \A i \in 1..n : l[i] \in Listed /\ l[i] # s  BY <1>2 DEF Row
<1>6. \A i, j \in 1..m : k[i] = k[j] => i = j
  <2> SUFFICES ASSUME NEW i \in 1..m, NEW j \in 1..m, k[i] = k[j] PROVE i = j  OBVIOUS
  <2>1. CASE i = 1 /\ j = 1  BY <2>1
  <2>2. CASE i \in 2..m /\ j \in 2..m
    <3>1. l[i - 1] = l[j - 1] /\ i - 1 \in 1..n /\ j - 1 \in 1..n  BY <1>3, <1>4, <2>2
    <3>2. i - 1 = j - 1  BY <1>2, <3>1 DEF Row
    <3> QED BY <3>2
  <2>3. CASE i = 1 /\ j \in 2..m  BY <1>3, <1>4, <1>5, <2>3
  <2>4. CASE i \in 2..m /\ j = 1  BY <1>3, <1>4, <1>5, <2>4
  <2> QED BY <1>4, <2>1, <2>2, <2>3, <2>4
<1>7. Listed' = {k[i] : i \in 1..m}
  <2>1. \A i \in 1..n : i + 1 \in 1..m /\ k[i + 1] = l[i]
    <3> SUFFICES ASSUME NEW i \in 1..n PROVE i + 1 \in 1..m /\ k[i + 1] = l[i]  OBVIOUS
    <3>1. i + 1 \in 2..m /\ (i + 1) - 1 = i  OBVIOUS
    <3> QED BY <1>4, <3>1
  <2>2. Listed' \subseteq {k[i] : i \in 1..m}
    <3>1. s \in {k[i] : i \in 1..m}  BY <1>4
    <3>2. \A i \in 1..n : l[i] \in {k[j] : j \in 1..m}  BY <2>1
    <3> QED BY <1>2, <3>1, <3>2 DEF Row
  <2>3. {k[i] : i \in 1..m} \subseteq Listed'  BY <1>3, <1>4, <1>5
  <2> QED BY <2>2, <2>3
<1>8. \A i \in 1..m : pNext'[k[i]] = IF i = m THEN Null ELSE k[i + 1]
  <2>1. pNext'[s] = head /\ \A i \in 1..n : pNext'[l[i]] = pNext[l[i]]  BY <1>5 DEF ListType
  <2>2. CASE n = 0
    <3>1. m = 1 /\ head = Null  BY <1>2, <2>2 DEF Row
    <3> QED BY <1>4, <2>1, <3>1
  <2>3. CASE n # 0
    <3>1. head = l[1] /\ 2 \in 2..m /\ k[2] = l[1]  BY <1>2, <1>4, <2>3 DEF Row
    <3>2. ASSUME NEW i \in 2..m
          PROVE  pNext'[k[i]] = IF i = m THEN Null ELSE k[i + 1]
      <4>1. k[i] = l[i - 1] /\ i - 1 \in 1..n  BY <1>3, <1>4
      <4>2. pNext'[k[i]] = IF i - 1 = n THEN Null ELSE l[(i - 1) + 1]
        BY <1>2, <2>1, <4>1 DEF Row
      <4>3. i # m => i + 1 \in 2..m /\ (i + 1) - 1 = (i - 1) + 1  OBVIOUS
      <4>4. i # m => k[i + 1] = l[(i - 1) + 1]  BY <1>4, <4>3
      <4>5. i - 1 = n <=> i = m  OBVIOUS
      <4> QED BY <4>2, <4>4, <4>5
    <3>3. pNext'[k[1]] = k[1 + 1] /\ 1 # m  BY <1>4, <2>1, <2>3, <3>1
    <3> QED BY <1>4, <3>2, <3>3
  <2> QED BY <2>2, <2>3
<1>9. head' = IF m = 0 THEN Null ELSE k[1]  BY <1>4
<1>10. \A i, j \in 1..m : (k[i] = k[j] => i = j)  BY <1>6
<1>11. Row(m, k)'  BY <1>7, <1>8, <1>9, <1>10 DEF Row
<1> QED BY <1>3, <1>4, <1>11 DEF InRow

(* A deletion closes the gap. *)
LEMMA Removes ==
  ASSUME ListType, InRow, NEW prev \in SectOrNull, NEW s \in Sects, Precedes(prev, s),
         DeleteOne(prev, s), UNCHANGED ins
  PROVE  ListType' /\ InRow' /\ pNext'[s] = Null
<1>1. PICK n \in Nat : \E l \in [1..n -> Sects] : Row(n, l)  BY DEF InRow
<1>2. PICK l \in [1..n -> Sects] : Row(n, l)  BY <1>1
<1>3. PICK p \in 1..n : l[p] = s  BY <1>2 DEF Row, Precedes
<1>4. \A i \in 1..n : l[i] \in Sects /\ l[i] # Null  BY NullAssumption
<1>5. IF prev = Null THEN p = 1 ELSE p > 1 /\ prev = l[p - 1]
  <2>1. CASE prev = Null
    <3>1. head = s /\ head = l[1] /\ 1 \in 1..n  BY <1>2, <1>3, <2>1 DEF Precedes, Row
    <3> QED BY <1>2, <1>3, <2>1, <3>1 DEF Row
  <2>2. CASE prev # Null
    <3>1. prev \in Listed /\ pNext[prev] = s  BY <2>2 DEF Precedes
    <3>2. PICK q \in 1..n : l[q] = prev  BY <1>2, <3>1 DEF Row
    <3>3. q # n /\ l[q + 1] = s /\ q + 1 \in 1..n  BY <1>2, <1>3, <1>4, <3>1, <3>2 DEF Row
    <3>4. q + 1 = p  BY <1>2, <1>3, <3>3 DEF Row
    <3>5. p > 1 /\ p - 1 = q  BY <3>4
    <3> QED BY <2>2, <3>2, <3>5
  <2> QED BY <2>1, <2>2
<1> DEFINE m == n - 1
           at(i) == IF i < p THEN i ELSE i + 1
           k == [i \in 1..m |-> l[at(i)]]
<1>6. m \in Nat /\ \A i \in 1..m : at(i) \in 1..n /\ at(i) # p  OBVIOUS
<1>7. \A i, j \in 1..m : at(i) = at(j) => i = j  OBVIOUS
<1>8. \A j \in 1..n : j # p => \E i \in 1..m : at(i) = j
  <2> SUFFICES ASSUME NEW j \in 1..n, j # p PROVE \E i \in 1..m : at(i) = j  OBVIOUS
  <2>1. CASE j < p
    <3>1. j \in 1..m /\ at(j) = j  BY <2>1
    <3> QED BY <3>1
  <2>2. CASE j > p
    <3>1. j - 1 \in 1..m /\ at(j - 1) = j  BY <2>2
    <3> QED BY <3>1
  <2> QED BY <2>1, <2>2
<1>9. \A i \in 1..m : i # m => i + 1 \in 1..m
                            /\ at(i + 1) = IF i + 1 = p THEN p + 1 ELSE at(i) + 1
  OBVIOUS
<1>10. \A i \in 1..m : at(i) = n <=> i = m /\ p # n  OBVIOUS
<1>10a. p = n => \A i \in 1..m : at(i) = i  OBVIOUS
<1>11. k \in [1..m -> Sects] /\ \A i \in 1..m : k[i] = l[at(i)]  BY <1>6
<1>12. \/ /\ prev = Null /\ pNext' = [pNext EXCEPT ![s] = Null] /\ head' = pNext[s]
       \/ /\ prev # Null /\ pNext' = [pNext EXCEPT ![prev] = pNext[s], ![s] = Null]
          /\ head' = head
  BY DEF DeleteOne, Unlink
<1>13. /\ pNext'[s] = Null
       /\ prev # Null => pNext'[prev] = pNext[s]
       /\ \A z \in Sects : z # s /\ z # prev => pNext'[z] = pNext[z]
       /\ pNext' \in [Sects -> SectOrNull] /\ head' \in SectOrNull
  <2>1. CASE prev = Null  BY <1>12, <2>1, NullAssumption DEF ListType, SectOrNull
  <2>2. CASE prev # Null
    <3>1. prev \in Sects /\ prev # s
      <4>1. p - 1 \in 1..n /\ l[p - 1] = prev /\ p - 1 # p  BY <1>5, <2>2
      <4> QED BY <1>2, <1>3, <4>1 DEF Row
    <3> QED BY <1>12, <2>2, <3>1 DEF ListType, SectOrNull
  <2> QED BY <2>1, <2>2
<1>14. ListType'
  <2>1. live' \in SUBSET Sects /\ pvKey' \in [Sects -> Keys \cup {NoKey}]
    BY DEF ListType, DeleteOne
  <2> QED BY <1>13, <2>1 DEF ListType
<1>15. \A i, j \in 1..m : k[i] = k[j] => i = j
  <2> SUFFICES ASSUME NEW i \in 1..m, NEW j \in 1..m, k[i] = k[j] PROVE i = j  OBVIOUS
  <2>1. l[at(i)] = l[at(j)] /\ at(i) \in 1..n /\ at(j) \in 1..n  BY <1>6, <1>11
  <2>2. at(i) = at(j)  BY <1>2, <2>1 DEF Row
  <2> QED BY <1>7, <2>2
<1>16. Listed' = {k[i] : i \in 1..m}
  <2>1. Listed' = Listed \ {s}  BY DEF DeleteOne, Listed, Inserting
  <2>2. ASSUME NEW z \in Listed \ {s} PROVE z \in {k[i] : i \in 1..m}
    <3>1. PICK j \in 1..n : l[j] = z  BY <1>2 DEF Row
    <3>2. PICK i \in 1..m : at(i) = j  BY <1>3, <1>8, <3>1
    <3> QED BY <1>11, <3>1, <3>2
  <2>3. ASSUME NEW i \in 1..m PROVE k[i] \in Listed \ {s}
    <3>1. at(i) \in 1..n /\ at(i) # p /\ k[i] = l[at(i)]  BY <1>6, <1>11
    <3> QED BY <1>2, <1>3, <3>1 DEF Row
  <2> QED BY <2>1, <2>2, <2>3
<1>17. pNext[s] = IF p = n THEN Null ELSE l[p + 1]  BY <1>2, <1>3 DEF Row
<1>18. ASSUME NEW i \in 1..m
       PROVE  pNext'[k[i]] = IF i = m THEN Null ELSE k[i + 1]
  <2>1. at(i) \in 1..n /\ at(i) # p /\ k[i] = l[at(i)]  BY <1>6, <1>11
  <2>2. CASE at(i) = p - 1
    <3>1. p > 1 /\ i = p - 1 /\ i + 1 = p  BY <2>1, <2>2 DEF at
    <3>2. k[i] = prev /\ prev # Null  BY <1>4, <1>5, <2>1, <2>2, <3>1
    <3>3. pNext'[k[i]] = IF p = n THEN Null ELSE l[p + 1]  BY <1>13, <1>17, <3>2
    <3>4. i = m <=> p = n  BY <3>1 DEF m
    <3>5. i # m => k[i + 1] = l[p + 1]  BY <1>9, <1>11, <3>1
    <3> QED BY <3>3, <3>4, <3>5
  <2>3. CASE at(i) # p - 1
    <3>1. l[at(i)] # s /\ l[at(i)] # prev
      <4>1. l[at(i)] # s  BY <1>2, <1>3, <2>1 DEF Row
      <4>2. CASE prev = Null  BY <1>4, <2>1, <4>1, <4>2
      <4>3. CASE prev # Null
        <5>1. prev = l[p - 1] /\ p - 1 \in 1..n  BY <1>5, <4>3
        <5>2. l[at(i)] # l[p - 1]  BY <1>2, <2>1, <2>3, <5>1 DEF Row
        <5> QED BY <4>1, <5>1, <5>2
      <4> QED BY <4>2, <4>3
    <3>2. pNext'[k[i]] = IF at(i) = n THEN Null ELSE l[at(i) + 1]
      <4>1. pNext'[l[at(i)]] = pNext[l[at(i)]]  BY <1>4, <1>13, <2>1, <3>1
      <4> QED BY <1>2, <2>1, <4>1 DEF Row
    <3>3. at(i) = n <=> i = m  BY <2>1, <2>3 DEF at, m
    <3>4. i # m => i + 1 \in 1..m /\ at(i + 1) = at(i) + 1  BY <2>1, <2>3 DEF at, m
    <3> QED BY <1>11, <3>2, <3>3, <3>4
  <2> QED BY <2>2, <2>3
<1>19. head' = IF m = 0 THEN Null ELSE k[1]
  <2>1. CASE prev = Null
    <3>1. p = 1 /\ head' = IF 1 = n THEN Null ELSE l[1 + 1]  BY <1>5, <1>12, <1>17, <2>1
    <3>2. m = 0 <=> 1 = n  BY DEF m
    <3>3. m # 0 => 1 \in 1..m /\ at(1) = 1 + 1  BY <3>1 DEF m, at
    <3> QED BY <1>11, <3>1, <3>2, <3>3
  <2>2. CASE prev # Null
    <3>1. p > 1 /\ head' = head /\ head = l[1]  BY <1>2, <1>5, <1>12, <2>2 DEF Row
    <3>2. m # 0 /\ 1 \in 1..m /\ at(1) = 1  BY <3>1 DEF m, at
    <3> QED BY <1>11, <3>1, <3>2
  <2> QED BY <2>1, <2>2
<1>20. Row(m, k)'  BY <1>15, <1>16, <1>18, <1>19 DEF Row
<1> QED BY <1>6, <1>11, <1>13, <1>14, <1>20 DEF InRow

-----------------------------------------------------------------------------
(* What is on the list. *)

LEMMA InitIInv == Init => IInv
<1> SUFFICES ASSUME Init PROVE IInv  OBVIOUS
<1>1. ListType  BY DEF Init, ListType, SectOrNull
<1>2. TypeOK  BY <1>1 DEF Init, NoWalk, TypeOK, WalkType, SectOrNull
<1>3. WalkOK /\ InsOK  BY DEF Init, NoWalk, WalkOK, InsOK
<1>4. Listed = {}  BY DEF Init, Listed
<1> DEFINE l == [i \in 1..0 |-> Null]
<1>5. l \in [1..0 -> Sects]  OBVIOUS
<1>6. Row(0, l)  BY <1>4 DEF Init, Row
<1>7. InRow  BY <1>5, <1>6 DEF InRow
<1> QED BY <1>2, <1>3, <1>7 DEF IInv

(* What is on the list leads to what is on the list. *)
LEMMA SuccessorIsListed ==
  ASSUME InRow, NEW s \in Listed, pNext[s] # Null
  PROVE  pNext[s] \in Listed
<1>1. PICK n \in Nat : \E l \in [1..n -> Sects] : Row(n, l)  BY DEF InRow
<1>2. PICK l \in [1..n -> Sects] : Row(n, l)  BY <1>1
<1>3. PICK i \in 1..n : l[i] = s  BY <1>2 DEF Row
<1>4. i # n /\ pNext[s] = l[i + 1] /\ i + 1 \in 1..n  BY <1>2, <1>3 DEF Row
<1> QED BY <1>2, <1>4 DEF Row

LEMMA HeadIsListed ==
  ASSUME InRow, head # Null
  PROVE  head \in Listed
<1>1. PICK n \in Nat : \E l \in [1..n -> Sects] : Row(n, l)  BY DEF InRow
<1>2. PICK l \in [1..n -> Sects] : Row(n, l)  BY <1>1
<1>3. 1 \in 1..n /\ head = l[1]  BY <1>2 DEF Row
<1> QED BY <1>2, <1>3 DEF Row

(* A step that leaves the pointers of what is on the list alone keeps the row. *)
LEMMA RowKept ==
  ASSUME InRow, head' = head, Listed' = Listed, \A s \in Listed : pNext'[s] = pNext[s]
  PROVE  InRow'
<1>1. \A n \in Nat : \A l \in [1..n -> Sects] : Row(n, l) => Row(n, l)'  BY DEF Row
<1> QED BY <1>1 DEF InRow

LEMMA LinksKept ==
  ASSUME UNCHANGED <<links, ins>>
  PROVE  /\ Listed' = Listed /\ (ListType => ListType') /\ (InRow => InRow') /\ (InsOK => InsOK')
         /\ \A p, s : Precedes(p, s) => Precedes(p, s)'
<1>1. Listed' = Listed  BY DEF Listed, Inserting, links
<1>2. InRow => InRow'  BY <1>1, RowKept DEF links
<1> QED BY <1>1, <1>2 DEF ListType, InsOK, Precedes, links

-----------------------------------------------------------------------------
(* The types. *)

LEMMA DeleteType ==
  ASSUME TypeOK, NEW prev \in SectOrNull, NEW s \in Sects, DeleteOne(prev, s)
  PROVE  ListType' /\ pNext'[s] \in SectOrNull /\ raced' \in BOOLEAN
BY DEF TypeOK, ListType, DeleteOne, Unlink, SectOrNull

LEMMA TypeNext == TypeOK /\ [Next]_vars => TypeOK'
<1> SUFFICES ASSUME TypeOK, [Next]_vars PROVE TypeOK'  OBVIOUS
<1>1. ListType /\ ins \in [Threads -> SectOrNull] /\ walk \in WalkType /\ Null \in SectOrNull
  BY DEF TypeOK, SectOrNull
<1>2. ASSUME NEW e \in Emts, NEW s \in Sects, NEW k \in Keys, InitRead(e, s, k) PROVE TypeOK'
  <2>1. ListType'  BY <1>1, <1>2 DEF InitRead, ListType, SectOrNull
  <2>2. ins' \in [Threads -> SectOrNull]  BY <1>1, <1>2 DEF InitRead, SectOrNull
  <2> QED BY <1>2, <2>1, <2>2 DEF InitRead, TypeOK
<1>3. ASSUME NEW e \in Emts, InitWrite(e) PROVE TypeOK'
  <2>1. ins[e] \in SectOrNull  BY <1>1, ThreadAssumption
  <2>2. ListType' /\ ins' \in [Threads -> SectOrNull]
    BY <1>1, <1>3, <2>1 DEF InitWrite, ListType, SectOrNull
  <2> QED BY <1>3, <2>2 DEF InitWrite, TypeOK
<1>4. ASSUME NEW t \in Threads, NEW op \in {"one", "key", "all"},
             NEW target \in SectOrNull \cup Keys, NEW cur \in SectOrNull, Enter(t, op, target, cur)
      PROVE  TypeOK'
  <2>1. walk' \in WalkType  BY <1>1, <1>4 DEF Enter, WalkType
  <2> QED BY <1>4, <2>1 DEF Enter, TypeOK, ListType, links
<1>5. ASSUME NEW t \in Threads, Found(t) PROVE TypeOK'
  <2> DEFINE s == walk.cur
  <2>1. s \in Sects /\ walk.prev \in SectOrNull /\ DeleteOne(walk.prev, s)
    BY <1>1, <1>5 DEF Found, WalkType, SectOrNull
  <2>2. ListType' /\ pNext'[s] \in SectOrNull /\ raced' \in BOOLEAN  BY <2>1, DeleteType
  <2>3. walk' \in WalkType
    BY <1>1, <1>5, <2>1, <2>2 DEF Found, WalkType, SectOrNull
  <2> QED BY <1>5, <2>2, <2>3 DEF Found, TypeOK
<1>6. ASSUME NEW t \in Threads, PassBy(t) \/ TermRead(t) PROVE TypeOK'
  <2>1. walk.cur # Null => walk.cur \in Sects /\ pNext[walk.cur] \in SectOrNull
    BY <1>1 DEF WalkType, ListType, SectOrNull
  <2>2. walk' \in WalkType
    BY <1>1, <1>6, <2>1 DEF PassBy, TermRead, WalkType, SectOrNull, ListType
  <2> QED BY <1>6, <2>2 DEF PassBy, TermRead, TypeOK, ListType, links
<1>7. ASSUME NEW t \in Threads, Leave(t) PROVE TypeOK'
  <2>1. NoWalk \in WalkType  BY <1>1 DEF NoWalk, WalkType
  <2> QED BY <1>7, <2>1 DEF Leave, TypeOK, ListType, links
<1>8. CASE UNCHANGED vars  BY <1>8 DEF vars, links, TypeOK, ListType
<1>9. head \in SectOrNull /\ \A s \in Sects : s \in SectOrNull  BY <1>1 DEF ListType, SectOrNull
<1>10. ASSUME NEW t \in Threads, Delete(t) PROVE TypeOK'
  <2>1. CASE \E s \in Sects : PDMR3CritSectDelete(t, s)
    BY <1>1, <1>4, <1>9, <2>1 DEF PDMR3CritSectDelete
  <2>2. CASE \E k \in Keys : DeleteByKey(t, k)  BY <1>4, <1>9, <2>2 DEF DeleteByKey
  <2>3. CASE PDMR3CritSectTerm(t)  BY <1>1, <1>4, <2>3 DEF PDMR3CritSectTerm
  <2> QED BY <1>5, <1>6, <1>7, <1>10, <2>1, <2>2, <2>3 DEF Delete
<1> QED BY <1>2, <1>3, <1>8, <1>10 DEF Next

-----------------------------------------------------------------------------
(* The invariant is inductive. *)

\* A section is filled in, which touches nothing that is on the list.
LEMMA KeepInitRead ==
  ASSUME TypeOK, InRow, InsOK, WalkOK, NEW e \in Emts, NEW s \in Sects, NEW k \in Keys,
         InitRead(e, s, k)
  PROVE  InRow' /\ InsOK' /\ WalkOK'
<1>1. e \in Threads /\ ins \in [Threads -> SectOrNull] /\ pNext \in [Sects -> SectOrNull]
  BY ThreadAssumption DEF TypeOK, ListType
<1>2. /\ s \notin live /\ live' = live \cup {s} /\ ins[e] = Null /\ ins' = [ins EXCEPT ![e] = s]
      /\ pNext' = [pNext EXCEPT ![s] = head] /\ UNCHANGED <<head, lock, walk, raced>> /\ s # Null
  BY NullAssumption DEF InitRead
<1>3. ins'[e] = s /\ \A t \in Threads \ {e} : ins'[t] = ins[t]  BY <1>1, <1>2
<1>4. \A t \in Threads : ins[t] # s  BY <1>2 DEF InsOK
<1>5. Inserting' = Inserting \cup {s}  BY <1>1, <1>2, <1>3 DEF Inserting
<1>6. Listed' = Listed  BY <1>2, <1>5 DEF Listed
<1>7. s \notin Listed /\ Listed \subseteq Sects  BY <1>2 DEF Listed, TypeOK, ListType
<1>8. \A z \in Listed : pNext'[z] = pNext[z]  BY <1>1, <1>2, <1>7
<1>9. InRow'  BY <1>2, <1>6, <1>8, RowKept
<1>10. InsOK'  BY <1>2, <1>3, <1>4 DEF InsOK
<1>11. WalkOK'  BY <1>2, <1>6, <1>8 DEF WalkOK, Precedes
<1> QED BY <1>9, <1>10, <1>11

\* It becomes the head of the row, unless the head has changed.
LEMMA KeepInitWrite ==
  ASSUME TypeOK, InRow, InsOK, WalkOK, NEW e \in Emts, InitWrite(e), ~ raced'
  PROVE  InRow' /\ InsOK' /\ WalkOK'
<1> DEFINE s == ins[e]
<1>1. e \in Threads /\ ins \in [Threads -> SectOrNull]  BY ThreadAssumption DEF TypeOK
<1>2. /\ s # Null /\ s \in Sects /\ s \in live /\ head = pNext[s] /\ head' = s
      /\ ins' = [ins EXCEPT ![e] = Null] /\ UNCHANGED <<pNext, pvKey, live, lock, walk>>
  BY <1>1 DEF InitWrite, InsOK, SectOrNull
<1>3. ins'[e] = Null /\ \A t \in Threads \ {e} : ins'[t] = ins[t] /\ (ins[t] = s => ins[t] = Null)
  BY <1>1, <1>2 DEF InsOK
<1>4. s \in Inserting /\ Inserting' = Inserting \ {s}  BY <1>1, <1>2, <1>3 DEF Inserting
<1>5. s \notin Listed /\ Listed' = Listed \cup {s}  BY <1>2, <1>4 DEF Listed
<1>6. InRow'
  <2>1. ListType  BY DEF TypeOK
  <2> QED BY <1>2, <1>5, <2>1, Prepends
<1>7. InsOK'  BY <1>2, <1>3 DEF InsOK
<1>8. WalkOK'  BY <1>2, <1>5 DEF WalkOK, Precedes
<1> QED BY <1>6, <1>7, <1>8

\* A walk begins at the head, or is about to read it.
LEMMA KeepEnter ==
  ASSUME TypeOK, InRow, InsOK, WalkOK, NEW t \in Threads, NEW op, NEW target,
         NEW cur \in {head, Null}, Enter(t, op, target, cur)
  PROVE  InRow' /\ InsOK' /\ WalkOK'
<1>1. UNCHANGED <<links, ins>> /\ lock' # NoThread  BY ThreadAssumption DEF Enter
<1>2. walk'.cur = cur /\ walk'.prev = Null  BY DEF Enter
<1>3. Listed' = Listed /\ InRow' /\ InsOK'  BY <1>1, LinksKept
<1>4. cur # Null => cur \in Listed  BY HeadIsListed
<1>5. WalkOK'  BY <1>1, <1>2, <1>3, <1>4 DEF WalkOK
<1> QED BY <1>3, <1>5

\* What is deleted leaves the row, unless the head has changed; the walk is at its
\* end, for the pointer it goes on to has been reset.
LEMMA KeepFound ==
  ASSUME TypeOK, InRow, InsOK, WalkOK, NEW t \in Threads, Found(t), ~ raced'
  PROVE  InRow' /\ InsOK' /\ WalkOK'
<1> DEFINE s == walk.cur
           prev == walk.prev
<1>1. /\ s \in Sects /\ s \in Listed /\ prev \in SectOrNull /\ DeleteOne(prev, s) /\ UNCHANGED <<ins, lock>>
      /\ walk \in WalkType /\ ListType /\ s # Null
  BY DEF Found, WalkOK, TypeOK, WalkType, SectOrNull
<1>2. Precedes(prev, s)
  <2>1. CASE prev = Null
    <3>1. raced' = (raced \/ (prev = Null /\ head # s))  BY <1>1 DEF DeleteOne
    <3>2. head = s  BY <2>1, <3>1, Zenon
    <3> QED BY <1>1, <2>1, <3>2 DEF Precedes
  <2>2. CASE prev # Null  BY <1>1, <2>2 DEF WalkOK
  <2> QED BY <2>1, <2>2
<1>3. InRow' /\ pNext'[s] = Null  BY <1>1, <1>2, Removes
<1>4. live' = live \ {s} /\ \A u \in Threads : ins[u] # Null => ins[u] # s
  BY <1>1 DEF DeleteOne, Listed, Inserting
<1>5. InsOK'  BY <1>1, <1>4 DEF InsOK
<1>6. walk'.cur = Null /\ walk'.op = walk.op /\ (walk.op # "key" => walk'.prev = Null)
  <2>1. walk' = [walk EXCEPT !.prev = IF walk.op = "key" THEN s ELSE Null,
                             !.cur = IF walk.op = "key" THEN pNext'[s] ELSE Null]
    BY DEF Found
  <2> QED BY <1>1, <1>3, <2>1 DEF WalkType
<1>7. WalkOK'  BY <1>6 DEF WalkOK
<1> QED BY <1>3, <1>5, <1>7

LEMMA KeepPassBy ==
  ASSUME TypeOK, InRow, InsOK, WalkOK, NEW t \in Threads, PassBy(t)
  PROVE  InRow' /\ InsOK' /\ WalkOK'
<1> DEFINE s == walk.cur
<1>1. /\ s \in Listed /\ s # Null /\ walk \in WalkType /\ UNCHANGED <<links, ins, lock>>
      /\ lock # NoThread
  BY ThreadAssumption DEF PassBy, WalkOK, TypeOK
<1>2. walk'.prev = s /\ walk'.cur = pNext[s] /\ walk'.op = walk.op /\ walk.op # "all"
  BY <1>1 DEF PassBy, Wanted, WalkType
<1>3. /\ Listed' = Listed /\ InRow' /\ InsOK'
      /\ \A p, z : Precedes(p, z) => Precedes(p, z)'
  BY <1>1, LinksKept
<1>4. pNext[s] # Null => pNext[s] \in Listed  BY <1>1, SuccessorIsListed
<1>5. pNext[s] # Null => Precedes(s, pNext[s])  BY <1>1, <1>4 DEF Precedes
<1>6. WalkOK'  BY <1>1, <1>2, <1>3, <1>4, <1>5 DEF WalkOK
<1> QED BY <1>3, <1>6

LEMMA KeepTermRead ==
  ASSUME TypeOK, InRow, InsOK, WalkOK, NEW t \in Threads, TermRead(t)
  PROVE  InRow' /\ InsOK' /\ WalkOK'
<1>1. /\ head # Null /\ head \in Listed /\ walk \in WalkType /\ UNCHANGED <<links, ins, lock>>
      /\ lock # NoThread
  BY HeadIsListed, ThreadAssumption DEF TermRead, TypeOK
<1>2. walk'.cur = head /\ walk'.prev = walk.prev /\ walk'.op = walk.op /\ walk.prev = Null
  BY <1>1 DEF TermRead, WalkType, WalkOK
<1>3. Listed' = Listed /\ InRow' /\ InsOK'  BY <1>1, LinksKept
<1> QED BY <1>1, <1>2, <1>3 DEF WalkOK

LEMMA NextIInv == IInv /\ [Next]_vars => IInv'
<1> SUFFICES ASSUME IInv, [Next]_vars PROVE IInv'  OBVIOUS
<1>1. TypeOK'  BY TypeNext DEF IInv
<1> SUFFICES ASSUME ~ raced' PROVE InRow' /\ InsOK' /\ WalkOK'  BY <1>1 DEF IInv
<1>2. ~ raced /\ TypeOK /\ InRow /\ InsOK /\ WalkOK
  <2>1. raced => raced'
    BY DEF Next, Delete, InitRead, InitWrite, PDMR3CritSectDelete, DeleteByKey, PDMR3CritSectTerm,
       Enter, Found, DeleteOne, PassBy, TermRead, Leave, vars
  <2> QED BY <2>1 DEF IInv
<1>3. ASSUME NEW t \in Threads, Delete(t) PROVE InRow' /\ InsOK' /\ WalkOK'
  <2>1. CASE \E s \in Sects : PDMR3CritSectDelete(t, s)
    BY <1>2, <2>1, KeepEnter DEF PDMR3CritSectDelete
  <2>2. CASE \E k \in Keys : DeleteByKey(t, k)  BY <1>2, <2>2, KeepEnter DEF DeleteByKey
  <2>3. CASE PDMR3CritSectTerm(t)  BY <1>2, <2>3, KeepEnter DEF PDMR3CritSectTerm
  <2>4. CASE Leave(t)
    <3>1. UNCHANGED <<links, ins>> /\ walk' = NoWalk  BY <2>4 DEF Leave
    <3> QED BY <1>2, <3>1, LinksKept DEF WalkOK, NoWalk
  <2> QED BY <1>2, <1>3, <2>1, <2>2, <2>3, <2>4, KeepFound, KeepPassBy, KeepTermRead DEF Delete
<1>4. CASE UNCHANGED vars
  <2>1. UNCHANGED <<links, ins, lock, walk>>  BY <1>4 DEF vars
  <2> QED BY <1>2, <2>1, LinksKept DEF WalkOK
<1> QED BY <1>2, <1>3, <1>4, KeepInitRead, KeepInitWrite DEF Next

(* The list is well formed, however sections are created, deleted one by one and
   deleted by key: the initialised sections, and no others, are linked in a row
   without repetition, and a walk never leaves it.  So it is until a thread writes
   the head from what it read before another thread wrote it. *)
THEOREM WellFormed == Spec => []IInv
BY InitIInv, NextIInv, PTL DEF Spec

-----------------------------------------------------------------------------
(* What is reached from the head.  Reached is a recursive function, so it is
   shown to exist first, and then to be what the row says it is. *)

(* A non-empty set of natural numbers has a least element. *)
LEMMA LeastNat ==
  ASSUME NEW T \in SUBSET Nat, T # {}
  PROVE  \E x \in T : \A y \in T : x <= y
<1> DEFINE R == OpToRel(<, Nat)
<1>1. IsWellFoundedOn(R, Nat)  BY NatLessThanWellFounded
<1>2. \A x, y \in Nat : x < y => <<x, y>> \in R  BY Zenon DEF OpToRel
<1> HIDE DEF R
<1>3. \E x \in T : \A y \in T : ~ (<<y, x>> \in R)  BY <1>1, WFMin
<1>4. PICK x \in T : \A y \in T : ~ (<<y, x>> \in R)  BY <1>3
<1>5. \A y \in T : ~ (y < x)  BY <1>2, <1>4, Zenon
<1>6. \A y \in T : x \in Nat /\ y \in Nat  BY <1>4
<1> QED BY <1>4, <1>5, <1>6

\* The first sections of a row, up to one more than i.
First(n, l, i) == {l[j] : j \in {x \in 1..n : x <= i + 1}}

\* One more step along the next pointers.
Onward(S) == S \cup ({pNext[s] : s \in S} \ {Null})

LEMMA FirstGrows ==
  ASSUME NEW n \in Nat, NEW l \in [1..n -> Sects], Row(n, l)
  PROVE  /\ First(n, l, 0) = {head} \ {Null}
         /\ \A i \in Nat : First(n, l, i + 1) = Onward(First(n, l, i))
<1>0. \A j \in 1..n : l[j] # Null  BY NullAssumption
<1>1. First(n, l, 0) = {head} \ {Null}
  <2>1. CASE n = 0  BY <2>1 DEF First, Row
  <2>2. CASE n # 0
    <3>1. {x \in 1..n : x <= 0 + 1} = {1} /\ 1 \in 1..n  BY <2>2
    <3> QED BY <1>0, <2>2, <3>1 DEF First, Row
  <2> QED BY <2>1, <2>2
<1>2. ASSUME NEW i \in Nat PROVE First(n, l, i + 1) = Onward(First(n, l, i))
  <2>1. ASSUME NEW s \in First(n, l, i + 1) PROVE s \in Onward(First(n, l, i))
    <3>1. PICK j \in 1..n : j <= (i + 1) + 1 /\ s = l[j]  BY <2>1 DEF First
    <3>2. CASE j <= i + 1  BY <3>1, <3>2 DEF First, Onward
    <3>3. CASE j = i + 2
      <4>1. j - 1 \in 1..n /\ j - 1 <= i + 1 /\ j - 1 # n /\ (j - 1) + 1 = j  BY <3>3
      <4>2. l[j - 1] \in First(n, l, i)  BY <4>1 DEF First
      <4>3. pNext[l[j - 1]] = s  BY <3>1, <4>1 DEF Row
      <4> QED BY <1>0, <3>1, <4>2, <4>3 DEF Onward
    <3> QED BY <3>1, <3>2, <3>3
  <2>2. ASSUME NEW s \in Onward(First(n, l, i)) PROVE s \in First(n, l, i + 1)
    <3>1. CASE s \in First(n, l, i)
      <4>1. PICK j \in 1..n : j <= i + 1 /\ s = l[j]  BY <3>1 DEF First
      <4>2. j <= (i + 1) + 1  BY <4>1
      <4> QED BY <4>1, <4>2 DEF First
    <3>2. CASE s \notin First(n, l, i)
      <4>1. PICK u \in First(n, l, i) : s = pNext[u] /\ s # Null  BY <2>2, <3>2 DEF Onward
      <4>2. PICK j \in 1..n : j <= i + 1 /\ u = l[j]  BY DEF First
      <4>3. j # n /\ s = l[j + 1]  BY <4>1, <4>2 DEF Row
      <4>4. j + 1 \in 1..n /\ j + 1 <= (i + 1) + 1  BY <4>2, <4>3
      <4> QED BY <4>3, <4>4 DEF First
    <3> QED BY <3>1, <3>2
  <2> QED BY <2>1, <2>2
<1> QED BY <1>1, <1>2

LEMMA ReachedIs ==
  ASSUME IsFiniteSet(Sects), NEW n \in Nat, NEW l \in [1..n -> Sects], Row(n, l)
  PROVE  \A i \in 0..Cardinality(Sects) : Reached[i] = First(n, l, i)
<1> DEFINE C == Cardinality(Sects)
           Rec(f) == [i \in 0..C |-> IF i = 0 THEN {head} \ {Null}
                                     ELSE f[i - 1] \cup ({pNext[s] : s \in f[i - 1]} \ {Null})]
           w == [i \in 0..C |-> First(n, l, i)]
<1>0. C \in Nat  BY FS_CardinalityType
<1> HIDE DEF C
<1>1. w = Rec(w)
  <2>1. \A i \in 0..C : i # 0 => i - 1 \in 0..C /\ i - 1 \in Nat /\ (i - 1) + 1 = i  BY <1>0
  <2>2. ASSUME NEW i \in 0..C PROVE w[i] = Rec(w)[i]
    <3>1. CASE i = 0  BY <3>1, FirstGrows
    <3>2. CASE i # 0
      <4>0. PICK j \in Nat : j = i - 1 /\ j \in 0..C /\ i = j + 1  BY <2>1, <3>2
      <4>1. First(n, l, j + 1) = Onward(First(n, l, j)) /\ w[j] = First(n, l, j)
        BY <4>0, FirstGrows
      <4>2. w[i] = First(n, l, i)  OBVIOUS
      <4> HIDE DEF w
      <4>3. Rec(w)[i] = Onward(w[i - 1])  BY <3>2 DEF Onward
      <4> QED BY <4>0, <4>1, <4>2, <4>3
    <3> QED BY <3>1, <3>2
  <2>3. w \in [0..C -> {w[i] : i \in 0..C}] /\ DOMAIN w = 0..C /\ DOMAIN Rec(w) = 0..C
    OBVIOUS
  <2> QED BY <2>2
<1> HIDE DEF w
<1>2. Reached = CHOOSE f : f = Rec(f)  BY DEF Reached, C
<1>3. Reached = Rec(Reached)  BY <1>1, <1>2
<1> HIDE DEF Rec
<1> DEFINE Bad == {i \in 0..C : Reached[i] # First(n, l, i)}
<1>4. SUFFICES ASSUME Bad # {} PROVE FALSE  BY DEF C
<1>5. Bad \in SUBSET Nat  BY <1>0
<1>6. PICK i \in Bad : \A j \in Bad : i <= j  BY <1>4, <1>5, LeastNat
<1>7. Reached[i] = Rec(Reached)[i] /\ i \in 0..C  BY <1>3
<1>8. CASE i = 0  BY <1>6, <1>7, <1>8, FirstGrows DEF Rec
<1>9. CASE i # 0
  <2>1. i - 1 \in 0..C /\ i - 1 \in Nat /\ (i - 1) + 1 = i /\ ~ (i <= i - 1)  BY <1>0, <1>7, <1>9
  <2>2. Reached[i - 1] = First(n, l, i - 1)  BY <1>6, <2>1
  <2>3. Reached[i] = Onward(First(n, l, i - 1))  BY <1>7, <1>9, <2>2 DEF Rec, Onward
  <2> QED BY <1>6, <2>1, <2>3, FirstGrows
<1> QED BY <1>8, <1>9

(* A row has no more members than there are sections. *)
LEMMA RowFits ==
  ASSUME IsFiniteSet(Sects), NEW n \in Nat, NEW l \in [1..n -> Sects], Row(n, l)
  PROVE  Cardinality(Sects) \in Nat /\ n <= Cardinality(Sects)
<1>1. l \in Injection(1..n, Sects)  BY DEF Row, Injection, IsInjective
<1>2. Cardinality(1..n) <= Cardinality(Sects)  BY <1>1, FS_Injection
<1>3. Cardinality(1..n) = n  BY FS_Interval
<1>4. Cardinality(Sects) \in Nat  BY FS_CardinalityType
<1> QED BY <1>2, <1>3, <1>4

(* A row holds exactly the initialised sections, once each. *)
LEMMA RowIsLive ==
  ASSUME IsFiniteSet(Sects), InRow
  PROVE  ListedIffLive
<1>1. PICK n \in Nat : \E l \in [1..n -> Sects] : Row(n, l)  BY DEF InRow
<1>2. PICK l \in [1..n -> Sects] : Row(n, l)  BY <1>1
<1>3. Reached[Cardinality(Sects)] = Listed
  <2> DEFINE C == Cardinality(Sects)
  <2>1. C \in Nat /\ n <= C /\ C \in 0..C  BY <1>2, RowFits
  <2>2. Reached[C] = First(n, l, C)  BY <1>2, <2>1, ReachedIs
  <2>3. {x \in 1..n : x <= C + 1} = 1..n  BY <2>1
  <2>4. First(n, l, C) = {l[j] : j \in 1..n}  BY <2>3 DEF First
  <2> QED BY <1>2, <2>2, <2>4 DEF Row
<1>4. \A j \in 1..n : l[j] # Null  BY NullAssumption
<1>5. ASSUME NEW s \in Listed, NEW t \in Listed, pNext[s] = pNext[t], pNext[s] # Null
      PROVE  s = t
  <2>1. PICK i \in 1..n : l[i] = s  BY <1>2 DEF Row
  <2>2. PICK j \in 1..n : l[j] = t  BY <1>2 DEF Row
  <2>3. i # n /\ j # n /\ l[i + 1] = l[j + 1] /\ i + 1 \in 1..n /\ j + 1 \in 1..n
    BY <1>2, <1>5, <2>1, <2>2 DEF Row
  <2>4. i + 1 = j + 1  BY <1>2, <2>3 DEF Row
  <2>5. i = j  BY <2>4
  <2> QED BY <2>1, <2>2, <2>5
<1>6. ASSUME NEW s \in Listed, pNext[s] = head, head # Null PROVE FALSE
  <2>1. PICK i \in 1..n : l[i] = s  BY <1>2 DEF Row
  <2>2. i # n /\ l[i + 1] = l[1] /\ i + 1 \in 1..n /\ 1 \in 1..n
    BY <1>2, <1>6, <2>1 DEF Row
  <2>3. i + 1 = 1  BY <1>2, <2>2 DEF Row
  <2> QED BY <2>3
<1> QED BY <1>3, <1>5, <1>6 DEF ListedIffLive

(* The list holds exactly the initialised sections, once each: none is lost, and
   none that was deleted stays reachable, for any finite number of sections and of
   threads, until the head is written from a value of it that has changed since. *)
THEOREM ListIsLive ==
  ASSUME IsFiniteSet(Sects)
  PROVE  Spec => []ListedUnlessRaced
<1>1. IInv => ListedUnlessRaced
  <2> SUFFICES ASSUME IInv, ~ raced PROVE ListedIffLive  BY Zenon DEF ListedUnlessRaced
  <2>1. InRow  BY Zenon DEF IInv
  <2> QED BY Zenon, <2>1, RowIsLive
<1> QED BY <1>1, WellFormed, PTL

-----------------------------------------------------------------------------
(* One thread. *)

\* It is not both inserting and walking, and what it has read of the head is there.
AloneOK(e) ==
  /\ ~ raced
  /\ ins[e] # Null => lock # e /\ head = pNext[ins[e]]
  /\ lock = e /\ walk.cur # Null /\ walk.prev = Null => head = walk.cur

(* "@thread EMT(0)": when one thread does it all, the list always holds exactly the
   initialised sections, and the head is never written from an old value of it. *)
THEOREM AloneIsSafe ==
  ASSUME NEW e, Threads = {e}, IsFiniteSet(Sects)
  PROVE  Spec => [](~ raced /\ ListedIffLive)
<1>1. Init => AloneOK(e)  BY ThreadAssumption DEF Init, NoWalk, AloneOK
<1>2. IInv /\ AloneOK(e) /\ [Next]_vars => AloneOK(e)'
  <2> SUFFICES ASSUME IInv, AloneOK(e), [Next]_vars PROVE AloneOK(e)'  OBVIOUS
  <2>1. /\ ListType /\ ins \in [Threads -> SectOrNull] /\ walk \in WalkType /\ InsOK
        /\ e \in Threads /\ \A t \in Threads : t = e
    BY DEF IInv, TypeOK, AloneOK
  <2>2. ASSUME NEW s \in Sects, NEW k \in Keys, InitRead(e, s, k) PROVE AloneOK(e)'
    <3>1. ins'[e] = s /\ s \in Sects /\ pNext'[s] = head /\ UNCHANGED <<head, lock, walk, raced>> /\ lock # e
      BY <2>1, <2>2 DEF InitRead, ListType
    <3> QED BY <3>1 DEF AloneOK
  <2>3. ASSUME InitWrite(e) PROVE AloneOK(e)'
    <3>1. ins'[e] = Null /\ lock # e /\ UNCHANGED <<lock, walk>> /\ head = pNext[ins[e]]
      BY <2>1, <2>3 DEF InitWrite, AloneOK
    <3>2. raced' = (raced \/ head # pNext[ins[e]])  BY <2>3 DEF InitWrite
    <3>3. ~ raced'  BY <3>1, <3>2 DEF AloneOK
    <3> QED BY <3>1, <3>3 DEF AloneOK
  <2>4. ASSUME NEW op, NEW target, NEW cur \in {head, Null}, Enter(e, op, target, cur)
        PROVE  AloneOK(e)'
    BY <2>4 DEF Enter, AloneOK, links
  <2>5. ASSUME Found(e) PROVE AloneOK(e)'
    <3> DEFINE s == walk.cur
    <3>1. /\ walk' = [walk EXCEPT !.prev = IF walk.op = "key" THEN s ELSE Null,
                                  !.cur = IF walk.op = "key" THEN pNext'[s] ELSE Null]
          /\ lock = e /\ s # Null /\ UNCHANGED <<ins, lock>>
      BY <2>5 DEF Found
    <3>2. /\ walk'.op = walk.op /\ walk'.prev = (IF walk.op = "key" THEN s ELSE Null)
          /\ (walk.op # "key" => walk'.cur = Null)
      BY <2>1, <3>1 DEF WalkType
    <3>3. ~ raced'  BY <2>5, <3>1 DEF Found, DeleteOne, AloneOK
    <3>4. ins[e] = Null  BY <3>1 DEF AloneOK
    <3> QED BY <3>1, <3>2, <3>3, <3>4 DEF AloneOK
  <2>6. ASSUME PassBy(e) PROVE AloneOK(e)'
    <3>1. /\ walk' = [walk EXCEPT !.prev = walk.cur, !.cur = pNext[walk.cur]]
          /\ lock = e /\ walk.cur # Null /\ walk.op # "all" /\ UNCHANGED <<links, ins, lock, raced>>
      BY <2>6 DEF PassBy, Wanted
    <3>2. walk'.op = walk.op /\ walk'.prev = walk.cur  BY <2>1, <3>1 DEF WalkType
    <3> QED BY <3>1, <3>2 DEF AloneOK, links
  <2>7. ASSUME TermRead(e) PROVE AloneOK(e)'
    <3>1. walk' = [walk EXCEPT !.cur = head] /\ UNCHANGED <<links, ins, lock, raced>>
      BY <2>7 DEF TermRead
    <3>2. walk'.op = walk.op /\ walk'.prev = walk.prev /\ walk'.cur = head
      BY <2>1, <3>1 DEF WalkType
    <3> QED BY <3>1, <3>2 DEF AloneOK, links
  <2>8. ASSUME Leave(e) PROVE AloneOK(e)'
    BY <2>1, <2>8, ThreadAssumption DEF Leave, AloneOK, NoWalk, links
  <2>9. CASE UNCHANGED vars  BY <2>9 DEF vars, links, AloneOK
  <2>10. ASSUME Delete(e) PROVE AloneOK(e)'
    <3>1. CASE \E s \in Sects : PDMR3CritSectDelete(e, s)
      BY <2>4, <3>1 DEF PDMR3CritSectDelete
    <3>2. CASE \E k \in Keys : DeleteByKey(e, k)  BY <2>4, <3>2 DEF DeleteByKey
    <3>3. CASE PDMR3CritSectTerm(e)  BY <2>4, <3>3 DEF PDMR3CritSectTerm
    <3> QED BY <2>5, <2>6, <2>7, <2>8, <2>10, <3>1, <3>2, <3>3 DEF Delete
  <2>11. Emts \subseteq {e}  BY ThreadAssumption
  <2> QED BY <2>1, <2>2, <2>3, <2>9, <2>10, <2>11 DEF Next
<1>3. IInv /\ AloneOK(e) => ~ raced /\ ListedIffLive  BY RowIsLive DEF IInv, AloneOK
<1>4. Spec => []AloneOK(e)  BY <1>1, <1>2, WellFormed, PTL DEF Spec
<1> QED BY <1>3, <1>4, WellFormed, PTL
=============================================================================
