----------------------------- MODULE BoundedFifo -----------------------------
(***************************************************************************)
(* What CCircularBuffer promises its callers (hld/corelib/corelib.h): a    *)
(* first-in first-out store of at most Cap items.  A store takes what fits,*)
(* a read gives what is there, and each returns what the comments of       *)
(* corelib.h and corelib.cpp say.                                          *)
(***************************************************************************)
EXTENDS Integers, Sequences

CONSTANTS
  Items,     (* the items                                                  *)
  Sync,      (* those whose first byte is the sync byte, 0x47              *)
  Cap,       (* how many fit                                               *)
  Most       (* how many a caller stores or asks for at once, at most      *)

VARIABLES fifo, rc, out     (* the items, the last call's result and data  *)

vars == <<fifo, rc, out>>

Less(a, b) == IF a < b THEN a ELSE b

First(n) == SubSeq(fifo, 1, n)
Rest(n) == SubSeq(fifo, n + 1, Len(fifo))

Init == fifo = <<>> /\ rc = 0 /\ out = <<>>

Clear == fifo' = <<>> /\ rc' = -2 /\ out' = <<>>     \* it returns nothing

BufferItem(x) ==
  /\ IF Len(fifo) < Cap THEN fifo' = Append(fifo, x) /\ rc' = 0
                        ELSE fifo' = fifo /\ rc' = -1
  /\ out' = <<>>

BufferNItem(items) ==
  LET n == Less(Cap - Len(fifo), Len(items))
  IN  fifo' = fifo \o SubSeq(items, 1, n) /\ rc' = n /\ out' = <<>>

DebufferItem ==
  IF fifo = <<>> THEN fifo' = fifo /\ rc' = -1 /\ out' = <<>>
                 ELSE fifo' = Tail(fifo) /\ rc' = 0 /\ out' = <<Head(fifo)>>

DebufferNItem(k) ==
  LET n == Less(Len(fifo), k)
  IN  fifo' = Rest(n) /\ rc' = n /\ out' = First(n)

(* As DebufferNItem, but nothing is removed.                               *)
ReferDebufferedItem(k) ==
  LET n == Less(Len(fifo), k)
  IN  fifo' = fifo /\ rc' = n /\ out' = First(n)

(* As DebufferNItem when the first item is a sync byte; else that item is  *)
(* dropped, so that a reader that lost its place finds it again.           *)
DebufferNItem_sync(k) ==
  IF fifo # <<>> /\ Head(fifo) \notin Sync
    THEN fifo' = Tail(fifo) /\ rc' = -1 /\ out' = <<>>
    ELSE DebufferNItem(k)

Next ==
  \/ Clear
  \/ \E x \in Items : BufferItem(x)
  \/ \E n \in 1 .. Most : \E items \in [1 .. n -> Items] : BufferNItem(items)
  \/ DebufferItem
  \/ \E k \in 1 .. Most : DebufferNItem(k) \/ ReferDebufferedItem(k) \/ DebufferNItem_sync(k)

Spec == Init /\ [][Next]_vars
=============================================================================
