-------------------------- MODULE PDMQueueService --------------------------
(***************************************************************************)
(* What a PDM queue promises its producers and its consumer                *)
(* (VBox/vmm/pdmqueue.h): every item that is inserted is offered to the    *)
(* consumer, once, and those of one context in the order they came.        *)
(*                                                                         *)
(* There is one line per context.  When the consumer says "enough!" the    *)
(* items that were already taken stay in front, but all of them now stand  *)
(* in the line of ring-3: those of the other contexts may be overtaken by  *)
(* what comes after them.                                                  *)
(***************************************************************************)
EXTENDS Naturals, Sequences

CONSTANTS Items, Ctxs   \* the items and the contexts, "R3" among them

VARIABLES
  line,       \* line[ctx]: the items that wait, the oldest first
  consumed    \* the item the consumer is done with last, or NoItem

svars == <<line, consumed>>

NoItem == 0

SInit == line = [ctx \in Ctxs |-> <<>>] /\ consumed = NoItem

\* Items are reused, so an item comes in only when it is in no line.
Insert(ctx, x) ==
  /\ line' = [line EXCEPT ![ctx] = Append(@, x)]
  /\ \A c \in Ctxs : \A i \in DOMAIN line[c] : line[c][i] # x
  /\ UNCHANGED consumed

Consume(ctx) ==
  /\ line[ctx] # <<>>
  /\ consumed' = Head(line[ctx])
  /\ line' = [line EXCEPT ![ctx] = Tail(@)]

\* The first k[ctx] items of every line, in the order of the contexts.
Refuse ==
  \E k0 \in 0 .. Len(line["R0"]), kc \in 0 .. Len(line["RC"]) :
    line' = [line EXCEPT
      !["R0"] = SubSeq(@, k0 + 1, Len(@)),
      !["RC"] = SubSeq(@, kc + 1, Len(@)),
      !["R3"] = SubSeq(line["R0"], 1, k0) \o SubSeq(line["RC"], 1, kc) \o @]
    /\ UNCHANGED consumed

SNext == \/ \E ctx \in Ctxs : Consume(ctx) \/ \E x \in Items : Insert(ctx, x)
         \/ Refuse

Spec == SInit /\ [][SNext]_svars
=============================================================================
