---------------------------- MODULE CircularBuffer ----------------------------
(***************************************************************************)
(* CCircularBuffer (hld/corelib/corelib.cpp): num_item + 1 cells, one of   *)
(* them always free, between two positions.  Positions are counted in      *)
(* items: the code keeps them as multiples of item_size.  A cell holds the *)
(* item_size bytes of an item; byte p of item x is written x.              *)
(***************************************************************************)
EXTENDS Integers, Sequences

CONSTANTS
  Values,      (* the items a caller stores                                *)
  Sync,        (* those that begin with the sync byte                      *)
  Sizes,       (* bytes of an item, of the buffers that are made           *)
  num,         (* the constructor's _num_item                              *)
  Most         (* items a caller stores or asks for at once, at most       *)

ASSUME CircularBufferAssumption ==
  /\ Sizes \subseteq Nat \ {0} /\ num \in Nat \ {0} /\ Most \in Nat \ {0}
  /\ Sync \subseteq Values

VARIABLES
  item_size,                      (* bytes of an item, once and for all    *)
  cir_buff,                       (* the bytes of each cell                *)
  cir_buff_start, cir_buff_end,   (* first item, first free cell           *)
  rc, out                         (* what the last call returned and read  *)

vars == <<item_size, cir_buff, cir_buff_start, cir_buff_end, rc, out>>

num_item == num + 1
Cells == 0 .. num_item - 1
Parts == 0 .. item_size - 1
Junk == "junk"                    \* what memory holds before it is written
NoResult == -2                    \* Clear returns nothing

Item(x) == [p \in Parts |-> x]

Init ==
  /\ item_size \in Sizes
  /\ cir_buff = [c \in Cells |-> Item(Junk)]
  /\ cir_buff_start = 0 /\ cir_buff_end = 0 /\ rc = 0 /\ out = <<>>

-----------------------------------------------------------------------------
NumBufferedItem ==
  IF cir_buff_start <= cir_buff_end THEN cir_buff_end - cir_buff_start
  ELSE num_item - (cir_buff_start - cir_buff_end)

NumUnbufferedItem == num_item - 1 - NumBufferedItem

MUT_IsFull == cir_buff_end + 1 = cir_buff_start     \* mutant: no modulo

IsFull == (cir_buff_end + 1) % num_item = cir_buff_start
IsEmpty == cir_buff_end = cir_buff_start

Fewer(a, b) == IF a < b THEN a ELSE b

(* memcpy of the first `bytes` bytes of items over the cells from `at`.    *)
Copy(cells, at, items, bytes) ==
  [c \in Cells |-> [p \in Parts |->
     IF c >= at /\ (c - at) * item_size + p < bytes THEN items[c - at + 1][p] ELSE cells[c][p]]]

(* memcpy of `bytes` bytes from cell `at` into the caller's n items.       *)
Fetch(at, n, bytes) ==
  [i \in 1 .. n |-> [p \in Parts |->
     IF (i - 1) * item_size + p < bytes THEN cir_buff[at + i - 1][p] ELSE Junk]]

(* The item is refused when the buffer is full.                            *)
BufferItem(x) ==
  /\ IF IsFull
       THEN rc' = -1 /\ UNCHANGED <<cir_buff, cir_buff_end>>
       ELSE /\ cir_buff' = Copy(cir_buff, cir_buff_end, <<Item(x)>>, item_size)
            /\ cir_buff_end' = (cir_buff_end + 1) % num_item
            /\ rc' = 0
  /\ out' = <<>> /\ UNCHANGED cir_buff_start

(* BufferNItem and BufferNItem_ASI.  Past the last cell the copy is cut in *)
(* two, and the first part is given a length in items, not in bytes.       *)
BufferNItem(items) ==
  LET n   == Fewer(NumUnbufferedItem, Len(items))
      gap == num_item - cir_buff_end
      put == [i \in 1 .. n |-> Item(items[i])]
  IN  /\ cir_buff' = IF n <= gap
                       THEN Copy(cir_buff, cir_buff_end, put, n * item_size)
                       ELSE Copy(Copy(cir_buff, cir_buff_end, put, gap), 0,
                                 SubSeq(put, gap + 1, n), (n - gap) * item_size)
      /\ cir_buff_end' = (cir_buff_end + n) % num_item
      /\ rc' = n /\ out' = <<>> /\ UNCHANGED cir_buff_start

(* -1 when there is nothing to read.                                       *)
DebufferItem ==
  /\ IF IsEmpty
       THEN rc' = -1 /\ out' = <<>> /\ UNCHANGED cir_buff_start
       ELSE /\ out' = Fetch(cir_buff_start, 1, item_size)
            /\ cir_buff_start' = (cir_buff_start + 1) % num_item
            /\ rc' = 0
  /\ UNCHANGED <<cir_buff, cir_buff_end>>

MUT_Read(n) ==                                      \* mutant: no second part
  Fetch(cir_buff_start, Fewer(n, num_item - cir_buff_start), n * item_size)

(* What DebufferNItem copies out: again in two parts past the last cell.   *)
Read(n) ==
  LET gap == num_item - cir_buff_start
  IN  IF n <= gap THEN Fetch(cir_buff_start, n, n * item_size)
      ELSE Fetch(cir_buff_start, gap, gap) \o Fetch(0, n - gap, (n - gap) * item_size)

DebufferNItem(k) ==
  LET n == Fewer(NumBufferedItem, k)
  IN  /\ out' = Read(n) /\ rc' = n
      /\ cir_buff_start' = (cir_buff_start + n) % num_item
      /\ UNCHANGED <<cir_buff, cir_buff_end>>

ReferDebufferedItem(k) ==
  LET n == Fewer(NumBufferedItem, k)
  IN  out' = Read(n) /\ rc' = n /\ UNCHANGED <<cir_buff, cir_buff_start, cir_buff_end>>

(* Reads with the sync byte at cir_buff_start, else drops one item.        *)
DebufferNItem_sync(k) ==
  IF ~IsEmpty /\ cir_buff[cir_buff_start][0] \notin Sync
    THEN /\ cir_buff_start' = (cir_buff_start + 1) % num_item
         /\ rc' = -1 /\ out' = <<>> /\ UNCHANGED <<cir_buff, cir_buff_end>>
    ELSE DebufferNItem(k)

(* Its zero bytes are, like what memory held, bytes that no caller stored.  *)
Clear ==
  /\ cir_buff_start' = 0 /\ cir_buff_end' = 0
  /\ cir_buff' = [c \in Cells |-> Item(Junk)]
  /\ rc' = NoResult /\ out' = <<>>

ItemCall == (\E x \in Values : BufferItem(x)) \/ DebufferItem

(* Every caller of the N-item calls has items of one byte.                 *)
ItemsCall ==
  /\ item_size = 1
  /\ \/ \E n \in 1 .. Most : \E items \in [1 .. n -> Values] : BufferNItem(items)
     \/ \E k \in 1 .. Most :
          DebufferNItem(k) \/ ReferDebufferedItem(k) \/ DebufferNItem_sync(k)
     \/ Clear

Next == (ItemCall \/ ItemsCall) /\ UNCHANGED item_size

Spec == Init /\ [][Next]_vars

-----------------------------------------------------------------------------
(* Every position is a cell, every cell and every byte read is a byte.     *)
TypeOK ==
  /\ item_size \in Sizes /\ cir_buff_start \in Cells /\ cir_buff_end \in Cells
  /\ cir_buff \in [Cells -> [Parts -> Values \cup {Junk}]]
  /\ rc \in NoResult .. num /\ out \in Seq([Parts -> Values \cup {Junk}])

(* IsFull and IsEmpty, which look at the positions, agree with the number  *)
(* of items: the free cell tells full from empty.                          *)
FullAndEmptyAgree == (IsFull <=> NumUnbufferedItem = 0) /\ (IsEmpty <=> NumBufferedItem = 0)

(* An item of which every byte is the same item's, or what is left of it.  *)
Whole(item) == IF \A p \in Parts : item[p] = item[0] THEN item[0] ELSE Junk

Contents == [i \in 1 .. NumBufferedItem |-> Whole(cir_buff[(cir_buff_start + i - 1) % num_item])]

F == INSTANCE BoundedFifo WITH
       Items <- Values, Cap <- num,
       fifo <- Contents, out <- [i \in DOMAIN out |-> Whole(out[i])]

(* The buffer is a bounded first-in first-out store: items come out whole, *)
(* in the order they went in, and none is overwritten.                     *)
FifoSpec == F!Spec
=============================================================================
