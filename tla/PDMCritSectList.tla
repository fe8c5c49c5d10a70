--------------------------- MODULE PDMCritSectList ---------------------------
(***************************************************************************)
(* The list of all PDM critical sections of a VM                           *)
(* (VBox/VMM/VMMR3/PDMCritSect.cpp), from which the sections of a device   *)
(* or a driver are deleted together when the device or driver goes away.   *)
(*                                                                         *)
(* What deletes owns PDM::ListCritSect from start to end and walks the     *)
(* list.  What inserts, pdmR3CritSectInitOne, takes no lock: it reads the  *)
(* head and writes it later, beside a walk or the insertion of another     *)
(* EMT.                                                                    *)
(***************************************************************************)
EXTENDS Naturals, FiniteSets

CONSTANTS Threads,  \* the threads that come here
          Emts,     \* those that are EMTs: pdmR3CritSectInitOne asserts one
          Sects,    \* the critical sections
          Keys,     \* pvKey: the devices and drivers they belong to
          Null,
          NoKey,    \* pvKey of a section that is not initialised
          NoThread

ASSUME NullAssumption == Null \notin Sects /\ NoKey \notin Keys
ASSUME ThreadAssumption == NoThread \notin Threads /\ Emts \subseteq Threads

VARIABLES
  head,   \* PDMUSERPERVM::pCritSects
  pNext,  \* PDMCRITSECTINT::pNext
  pvKey,  \* PDMCRITSECTINT::pvKey
  live,   \* the sections whose u32Magic is RTCRITSECT_MAGIC
  ins,    \* the section an EMT is inserting: it has read the head and not written it
  lock,   \* the owner of ListCritSect
  walk,   \* the locals of the owner, which deletes
  raced   \* history: the head was written from a value of it that had changed since

links == <<head, pNext, pvKey, live>>
vars == <<links, ins, lock, walk, raced>>

NoWalk == [op |-> "none", target |-> Null, prev |-> Null, cur |-> Null]

Init == /\ head = Null /\ live = {}
        /\ pNext = [s \in Sects |-> Null]
        /\ pvKey = [s \in Sects |-> NoKey]
        /\ ins = [t \in Threads |-> Null]
        /\ lock = NoThread /\ walk = NoWalk
        /\ raced = FALSE

Inserting == {ins[t] : t \in Threads} \ {Null}

-----------------------------------------------------------------------------
(* pdmR3CritSectInitOne *)

\* It fills in the section and lets it point to the head.
InitRead(e, s, k) ==
  /\ ins[e] = Null /\ lock # e /\ s \notin live
  /\ live' = live \cup {s}
  /\ pvKey' = [pvKey EXCEPT ![s] = k]
  /\ pNext' = [pNext EXCEPT ![s] = head]
  /\ ins' = [ins EXCEPT ![e] = s]
  /\ UNCHANGED <<head, lock, walk, raced>>

\* It makes the section the head, whatever the head is by now.
InitWrite(e) ==
  /\ ins[e] # Null
  /\ head' = ins[e]
  /\ raced' = (raced \/ head # pNext[ins[e]])
  /\ ins' = [ins EXCEPT ![e] = Null]
  /\ UNCHANGED <<pNext, pvKey, live, lock, walk>>

-----------------------------------------------------------------------------
(* Deleting.  The caller of PDMR3CritSectDelete has an initialised section. *)

Enter(t, op, target, cur) ==
  /\ lock = NoThread /\ ins[t] = Null
  /\ lock' = t
  /\ walk' = [op |-> op, target |-> target, prev |-> Null, cur |-> cur]
  /\ UNCHANGED <<links, ins, raced>>

PDMR3CritSectDelete(t, s) == s \in live \ Inserting /\ Enter(t, "one", s, head)
DeleteByKey(t, k) == Enter(t, "key", k, head)
PDMR3CritSectTerm(t) == Enter(t, "all", Null, Null)

\* Mutant: the previous section is ignored.
UnlinkHead(prev, s) ==
  /\ head' = pNext[s]
  /\ pNext' = [pNext EXCEPT ![s] = Null]

\* Unlinks a section; deleting it resets its own next pointer.
Unlink(prev, s) ==
  IF prev # Null
  THEN /\ pNext' = [pNext EXCEPT ![prev] = pNext[s], ![s] = Null]
       /\ UNCHANGED head
  ELSE /\ head' = pNext[s]
       /\ pNext' = [pNext EXCEPT ![s] = Null]

\* pdmR3CritSectDeleteOne
DeleteOne(prev, s) ==
  /\ Unlink(prev, s)
  /\ live' = live \ {s}
  /\ pvKey' = [pvKey EXCEPT ![s] = NoKey]
  /\ raced' = (raced \/ (prev = Null /\ head # s))

Wanted(s) ==
  CASE walk.op = "one" -> s = walk.target
    [] walk.op = "key" -> pvKey[s] = walk.target
    [] OTHER -> TRUE

\* A round that finds what it looks for.  PDMR3CritSectDelete leaves and
\* PDMR3CritSectTerm looks at the head again; pdmR3CritSectDeleteByKey goes on to
\* the next pointer, of the section it has deleted.
Found(t) ==
  LET s == walk.cur
  IN  /\ lock = t /\ s # Null /\ Wanted(s)
      /\ DeleteOne(walk.prev, s)
      /\ walk' = [walk EXCEPT !.prev = IF walk.op = "key" THEN s ELSE Null,
                              !.cur = IF walk.op = "key" THEN pNext'[s] ELSE Null]
      /\ UNCHANGED <<ins, lock>>

PassBy(t) ==
  LET s == walk.cur
  IN  /\ lock = t /\ s # Null /\ ~ Wanted(s)
      /\ walk' = [walk EXCEPT !.prev = s, !.cur = pNext[s]]
      /\ UNCHANGED <<links, ins, lock, raced>>

\* PDMR3CritSectTerm reads the head for every section it deletes.
TermRead(t) ==
  /\ lock = t /\ walk.op = "all" /\ walk.cur = Null /\ head # Null
  /\ walk' = [walk EXCEPT !.cur = head]
  /\ UNCHANGED <<links, ins, lock, raced>>

Leave(t) ==
  /\ lock = t /\ walk.cur = Null /\ (walk.op = "all" => head = Null)
  /\ lock' = NoThread /\ walk' = NoWalk
  /\ UNCHANGED <<links, ins, raced>>

-----------------------------------------------------------------------------
Delete(t) ==
  \/ \E s \in Sects : PDMR3CritSectDelete(t, s)
  \/ \E k \in Keys : DeleteByKey(t, k)
  \/ PDMR3CritSectTerm(t) \/ TermRead(t) \/ Found(t) \/ PassBy(t) \/ Leave(t)

Next ==
  \/ \E e \in Emts : InitWrite(e) \/ \E s \in Sects, k \in Keys : InitRead(e, s, k)
  \/ \E t \in Threads : Delete(t)

Spec == Init /\ [][Next]_vars

-----------------------------------------------------------------------------
(* Properties. *)

\* What the list reaches: everything linked from the head in n steps.
Reached[n \in 0..Cardinality(Sects)] ==
  IF n = 0 THEN {head} \ {Null}
  ELSE Reached[n - 1] \cup ({pNext[s] : s \in Reached[n - 1]} \ {Null})

\* The sections that should be on the list.
Listed == live \ Inserting

\* The list holds exactly the sections that are initialised, once each: none is
\* lost, which would leak it at the end; none that was deleted stays, which would
\* make later walks follow memory of a device that is gone; no two have the same
\* successor and none precedes the head.
ListedIffLive ==
  /\ Reached[Cardinality(Sects)] = Listed
  /\ \A s, t \in Listed : pNext[s] = pNext[t] /\ pNext[s] # Null => s = t
  /\ \A s \in Listed : pNext[s] # head \/ head = Null

\* Walks that edit what they walk, by one thread, and insertions by others keep the
\* list whole, until an insertion and a deletion or two insertions have both read
\* the head before either wrote it: ListCritSect does not keep insertions out.
ListedUnlessRaced == raced \/ ListedIffLive
=============================================================================
