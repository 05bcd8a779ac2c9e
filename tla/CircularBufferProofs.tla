------------------------- MODULE CircularBufferProofs -------------------------
(***************************************************************************)
(* CCircularBuffer for any number of items of any size, and callers that   *)
(* store and ask for any number at once.                                   *)
(***************************************************************************)
EXTENDS CircularBuffer, TLAPS

Positions == cir_buff_start \in Cells /\ cir_buff_end \in Cells

(* Advancing a position by no more than the cells stays on a cell.         *)
LEMMA Advance ==
  ASSUME NEW a \in Cells, NEW n \in 0 .. num
  PROVE  /\ (a + n) % num_item \in Cells
         /\ a + n < num_item => (a + n) % num_item = a + n
         /\ a + n >= num_item => (a + n) % num_item = a + n - num_item
<1>1. num \in Nat \ {0} /\ num_item = num + 1 /\ a \in 0 .. num
  BY CircularBufferAssumption DEF num_item, Cells
<1>2. CASE a + n < num_item
  BY <1>1, <1>2 DEF Cells
<1>3. CASE a + n >= num_item
  BY <1>1, <1>3 DEF Cells
<1>4. QED
  BY <1>1, <1>2, <1>3

(* The number of items is between none and num, and one is always free.    *)
LEMMA NumberOfItems ==
  ASSUME Positions
  PROVE  NumBufferedItem \in 0 .. num /\ NumUnbufferedItem \in 0 .. num
BY CircularBufferAssumption DEF Positions, Cells, num_item, NumBufferedItem, NumUnbufferedItem

(* A store of any number of items takes what fits and returns that number: *)
(* the buffer then holds that many more.                                   *)
LEMMA StoreCounts ==
  ASSUME Positions, NEW items, Len(items) \in Nat, BufferNItem(items)
  PROVE  /\ Positions'
         /\ rc' = Fewer(NumUnbufferedItem, Len(items))
         /\ NumBufferedItem' = NumBufferedItem + rc'
<1> DEFINE n == Fewer(NumUnbufferedItem, Len(items))
<1>1. n \in 0 .. num /\ n <= NumUnbufferedItem
  BY NumberOfItems, CircularBufferAssumption DEF Fewer
<1>2. rc' = n /\ cir_buff_end' = (cir_buff_end + n) % num_item /\ cir_buff_start' = cir_buff_start
  BY DEF BufferNItem
<1> HIDE DEF n
<1>3. Positions'
  BY <1>1, <1>2, Advance DEF Positions
<1>4. NumBufferedItem' = NumBufferedItem + n
  <2>1. num \in Nat /\ cir_buff_start \in 0 .. num /\ cir_buff_end \in 0 .. num
    BY CircularBufferAssumption DEF Positions, Cells, num_item
  <2>2. CASE cir_buff_end + n < num_item
    <3>1. cir_buff_end' = cir_buff_end + n
      BY <1>1, <1>2, <2>2, Advance DEF Positions
    <3>2. QED
      BY <1>1, <1>2, <2>1, <2>2, <3>1 DEF num_item, NumBufferedItem, NumUnbufferedItem
  <2>3. CASE cir_buff_end + n >= num_item
    <3>1. cir_buff_end' = cir_buff_end + n - num_item
      BY <1>1, <1>2, <2>3, Advance DEF Positions
    <3>2. QED
      BY <1>1, <1>2, <2>1, <2>3, <3>1 DEF num_item, NumBufferedItem, NumUnbufferedItem
  <2>4. QED
    BY <1>1, <2>1, <2>2, <2>3, CircularBufferAssumption DEF num_item
<1>5. QED
  BY <1>2, <1>3, <1>4 DEF n

(* A read of any number of items gives what is there.                      *)
LEMMA ReadCounts ==
  ASSUME Positions, NEW k \in Nat, DebufferNItem(k)
  PROVE  /\ Positions'
         /\ rc' = Fewer(NumBufferedItem, k)
         /\ NumBufferedItem' = NumBufferedItem - rc'
<1> DEFINE n == Fewer(NumBufferedItem, k)
<1>1. n \in 0 .. num /\ n <= NumBufferedItem
  BY NumberOfItems, CircularBufferAssumption DEF Fewer
<1>2. rc' = n /\ cir_buff_start' = (cir_buff_start + n) % num_item /\ cir_buff_end' = cir_buff_end
  BY DEF DebufferNItem
<1> HIDE DEF n
<1>3. Positions'
  BY <1>1, <1>2, Advance DEF Positions
<1>4. NumBufferedItem' = NumBufferedItem - n
  <2>1. num \in Nat /\ cir_buff_start \in 0 .. num /\ cir_buff_end \in 0 .. num
    BY CircularBufferAssumption DEF Positions, Cells, num_item
  <2>2. CASE cir_buff_start + n < num_item
    <3>1. cir_buff_start' = cir_buff_start + n
      BY <1>1, <1>2, <2>2, Advance DEF Positions
    <3>2. QED
      BY <1>1, <1>2, <2>1, <2>2, <3>1 DEF num_item, NumBufferedItem
  <2>3. CASE cir_buff_start + n >= num_item
    <3>1. cir_buff_start' = cir_buff_start + n - num_item
      BY <1>1, <1>2, <2>3, Advance DEF Positions
    <3>2. QED
      BY <1>1, <1>2, <2>1, <2>3, <3>1 DEF num_item, NumBufferedItem
  <2>4. QED
    BY <1>1, <2>1, <2>2, <2>3, CircularBufferAssumption DEF num_item
<1>5. QED
  BY <1>2, <1>3, <1>4 DEF n

LEMMA PositionsStep == Positions /\ [Next]_vars => Positions'
<1> SUFFICES ASSUME Positions, [Next]_vars PROVE Positions'
  OBVIOUS
<1>0. 1 \in 0 .. num /\ 0 \in Cells
  BY CircularBufferAssumption DEF Cells, num_item
<1>1. ASSUME NEW x \in Values, BufferItem(x) PROVE Positions'
  BY <1>0, <1>1, Advance DEF BufferItem, Positions
<1>2. CASE DebufferItem
  BY <1>0, <1>2, Advance DEF DebufferItem, Positions
<1>3. ASSUME NEW n \in 1 .. Most, NEW items \in [1 .. n -> Values], BufferNItem(items)
      PROVE  Positions'
  <2>1. Len(items) \in Nat
    BY CircularBufferAssumption
  <2>2. QED
    BY <1>3, <2>1, StoreCounts
<1>4. ASSUME NEW k \in 1 .. Most, DebufferNItem(k) PROVE Positions'
  BY <1>4, ReadCounts, CircularBufferAssumption
<1>5. ASSUME NEW k \in 1 .. Most, ReferDebufferedItem(k) PROVE Positions'
  BY <1>5 DEF ReferDebufferedItem, Positions
<1>6. ASSUME NEW k \in 1 .. Most, DebufferNItem_sync(k) PROVE Positions'
  BY <1>0, <1>4, <1>6, Advance DEF DebufferNItem_sync, Positions
<1>7. CASE Clear
  BY <1>0, <1>7 DEF Clear, Positions
<1>8. CASE UNCHANGED vars
  BY <1>8 DEF vars, Positions
<1>9. QED
  BY <1>1, <1>2, <1>3, <1>4, <1>5, <1>6, <1>7, <1>8 DEF Next, ItemCall, ItemsCall

LEMMA FullAndEmpty ==
  ASSUME Positions
  PROVE  FullAndEmptyAgree
<1>1. num \in Nat \ {0} /\ cir_buff_start \in 0 .. num /\ cir_buff_end \in 0 .. num
  BY CircularBufferAssumption DEF Positions, Cells, num_item
<1>2. (cir_buff_end + 1) % num_item = IF cir_buff_end = num THEN 0 ELSE cir_buff_end + 1
  <2>1. 1 \in 0 .. num /\ cir_buff_end \in Cells
    BY <1>1 DEF Positions
  <2>2. QED
    BY <1>1, <2>1, Advance DEF num_item
<1>3. IsFull <=> NumUnbufferedItem = 0
  BY <1>1, <1>2 DEF IsFull, NumUnbufferedItem, NumBufferedItem, num_item
<1>4. IsEmpty <=> NumBufferedItem = 0
  BY <1>1 DEF IsEmpty, NumBufferedItem, num_item
<1>5. QED
  BY <1>3, <1>4 DEF FullAndEmptyAgree

(* IsFull and IsEmpty agree with the number of items, whatever the size of *)
(* the buffer and however its callers run it round.                        *)
THEOREM FullAndEmptyAgreeCorrect == Spec => []FullAndEmptyAgree
<1>1. Init => Positions
  BY CircularBufferAssumption DEF Init, Positions, Cells, num_item
<1>2. Positions => FullAndEmptyAgree
  BY FullAndEmpty
<1>3. QED
  BY <1>1, <1>2, PositionsStep, PTL DEF Spec

-----------------------------------------------------------------------------
(* Sequences as functions: when a sequence is another one with something   *)
(* put behind it, or with its first items gone.                            *)
IsSeq(s, n) == s = [i \in 1 .. n |-> s[i]]

LEMMA SeqOfRange ==
  ASSUME NEW n \in Nat, NEW s, IsSeq(s, n), NEW S, \A i \in 1 .. n : s[i] \in S
  PROVE  s \in Seq(S) /\ Len(s) = n
<1>1. PICK f : s = [i \in 1 .. n |-> f[i]]
  BY DEF IsSeq
<1>2. QED
  BY <1>1

LEMMA Joined ==
  ASSUME NEW k \in Nat, NEW m \in Nat, NEW n \in 0 .. m, NEW s, NEW t, NEW items,
         IsSeq(s, k), IsSeq(items, m), IsSeq(t, k + n),
         \A i \in 1 .. k + n : t[i] = IF i <= k THEN s[i] ELSE items[i - k]
  PROVE  t = s \o SubSeq(items, 1, n)
<1> DEFINE S == {s[i] : i \in 1 .. k} \cup {items[i] : i \in 1 .. m}
<1>1. \A i \in 1 .. k : s[i] \in S
  OBVIOUS
<1>2. \A i \in 1 .. m : items[i] \in S
  OBVIOUS
<1>3. \A i \in 1 .. k + n : t[i] \in S
  OBVIOUS
<1> HIDE DEF S
<1>4. s \in Seq(S) /\ Len(s) = k /\ items \in Seq(S) /\ Len(items) = m
  BY <1>1, <1>2, SeqOfRange
<1>5. t \in Seq(S) /\ Len(t) = k + n
  BY <1>3, SeqOfRange
<1> DEFINE u == s \o SubSeq(items, 1, n)
<1>6. u \in Seq(S) /\ Len(u) = k + n
  BY <1>4
<1>7. \A i \in 1 .. k + n : u[i] = IF i <= k THEN s[i] ELSE items[i - k]
  BY <1>4
<1> HIDE DEF u
<1>8. t = u
  BY <1>5, <1>6, <1>7
<1>9. QED
  BY <1>8 DEF u

LEMMA Appended ==
  ASSUME NEW k \in Nat, NEW s, NEW t, NEW x,
         IsSeq(s, k), IsSeq(t, k + 1), \A i \in 1 .. k : t[i] = s[i], t[k + 1] = x
  PROVE  t = Append(s, x)
<1> DEFINE S == {s[i] : i \in 1 .. k} \cup {x}
<1>1. \A i \in 1 .. k : s[i] \in S
  OBVIOUS
<1>2. \A i \in 1 .. k + 1 : t[i] \in S
  OBVIOUS
<1>3. x \in S
  OBVIOUS
<1> HIDE DEF S
<1>4. s \in Seq(S) /\ Len(s) = k /\ t \in Seq(S) /\ Len(t) = k + 1
  BY <1>1, <1>2, SeqOfRange
<1>5. QED
  BY <1>3, <1>4

LEMMA Dropped ==
  ASSUME NEW k \in Nat, NEW n \in 0 .. k, NEW s, NEW t,
         IsSeq(s, k), IsSeq(t, k - n), \A i \in 1 .. k - n : t[i] = s[i + n]
  PROVE  t = SubSeq(s, n + 1, Len(s))
<1> DEFINE S == {s[i] : i \in 1 .. k}
<1>1. \A i \in 1 .. k : s[i] \in S
  OBVIOUS
<1>2. \A i \in 1 .. k - n : t[i] \in S
  OBVIOUS
<1> HIDE DEF S
<1>3. s \in Seq(S) /\ Len(s) = k /\ t \in Seq(S) /\ Len(t) = k - n
  <2>1. k - n \in Nat
    OBVIOUS
  <2>2. QED
    BY <1>1, <1>2, <2>1, SeqOfRange
<1>4. QED
  BY <1>3

LEMMA DroppedOne ==
  ASSUME NEW k \in Nat \ {0}, NEW s, NEW t,
         IsSeq(s, k), IsSeq(t, k - 1), \A i \in 1 .. k - 1 : t[i] = s[i + 1]
  PROVE  t = Tail(s)
<1> DEFINE S == {s[i] : i \in 1 .. k}
<1>1. \A i \in 1 .. k : s[i] \in S
  OBVIOUS
<1>2. \A i \in 1 .. k - 1 : t[i] \in S
  OBVIOUS
<1> HIDE DEF S
<1>3. s \in Seq(S) /\ Len(s) = k /\ t \in Seq(S) /\ Len(t) = k - 1
  <2>1. k - 1 \in Nat
    OBVIOUS
  <2>2. QED
    BY <1>1, <1>2, <2>1, SeqOfRange
<1>4. QED
  BY <1>3

LEMMA Begun ==
  ASSUME NEW k \in Nat, NEW n \in 0 .. k, NEW s, NEW t,
         IsSeq(s, k), IsSeq(t, n), \A i \in 1 .. n : t[i] = s[i]
  PROVE  t = SubSeq(s, 1, n)
<1> DEFINE S == {s[i] : i \in 1 .. k}
<1>1. \A i \in 1 .. k : s[i] \in S
  OBVIOUS
<1>2. \A i \in 1 .. n : t[i] \in S
  OBVIOUS
<1> HIDE DEF S
<1>3. s \in Seq(S) /\ Len(s) = k /\ t \in Seq(S) /\ Len(t) = n
  BY <1>1, <1>2, SeqOfRange
<1>4. QED
  BY <1>3

LEMMA Empty ==
  ASSUME NEW s
  PROVE  IsSeq(s, 0) <=> s = <<>>
BY DEF IsSeq

-----------------------------------------------------------------------------
(* Going on from a place twice is going on once.                           *)
LEMMA AdvanceTwice ==
  ASSUME NEW a \in Cells, NEW k \in 0 .. num, NEW d \in 0 .. num, k + d <= num
  PROVE  (((a + k) % num_item) + d) % num_item = (a + (k + d)) % num_item
<1>1. num \in Nat \ {0} /\ num_item = num + 1 /\ a \in 0 .. num
  BY CircularBufferAssumption DEF num_item, Cells
<1> DEFINE b == (a + k) % num_item
<1>2. /\ b \in Cells
      /\ a + k < num_item => b = a + k
      /\ a + k >= num_item => b = a + k - num_item
  BY Advance
<1> HIDE DEF b
<1>3. /\ b + d < num_item => (b + d) % num_item = b + d
      /\ b + d >= num_item => (b + d) % num_item = b + d - num_item
  BY <1>2, Advance
<1>4. k + d \in 0 .. num
  BY <1>1
<1>5. /\ a + (k + d) < num_item => (a + (k + d)) % num_item = a + (k + d)
      /\ a + (k + d) >= num_item => (a + (k + d)) % num_item = a + (k + d) - num_item
  BY <1>4, Advance
<1>6. (b + d) % num_item = (a + (k + d)) % num_item
  BY <1>1, <1>2, <1>3, <1>5 DEF Cells
<1>7. QED
  BY <1>6 DEF b

(* How far a cell is behind the first free one.                            *)
Behind(c) == IF c >= cir_buff_end THEN c - cir_buff_end ELSE c - cir_buff_end + num_item

(* The items that wait lie at the other end of the way round, the free     *)
(* cells come first.                                                       *)
LEMMA BehindOfPlace ==
  ASSUME Positions, NEW i \in 0 .. num
  PROVE  /\ (cir_buff_start + i) % num_item \in Cells
         /\ i < NumBufferedItem =>
              Behind((cir_buff_start + i) % num_item) = NumUnbufferedItem + 1 + i
         /\ i >= NumBufferedItem =>
              Behind((cir_buff_start + i) % num_item) = i - NumBufferedItem
<1>1. /\ num \in Nat \ {0} /\ num_item = num + 1
      /\ cir_buff_start \in 0 .. num /\ cir_buff_end \in 0 .. num
  BY CircularBufferAssumption DEF Positions, Cells, num_item
<1> DEFINE c == (cir_buff_start + i) % num_item
<1>2. /\ c \in Cells
      /\ cir_buff_start + i < num_item => c = cir_buff_start + i
      /\ cir_buff_start + i >= num_item => c = cir_buff_start + i - num_item
  BY Advance DEF Positions
<1> HIDE DEF c
<1>3. i < NumBufferedItem => Behind(c) = NumUnbufferedItem + 1 + i
  BY <1>1, <1>2 DEF Behind, NumBufferedItem, NumUnbufferedItem
<1>4. i >= NumBufferedItem => Behind(c) = i - NumBufferedItem
  BY <1>1, <1>2 DEF Behind, NumBufferedItem, NumUnbufferedItem
<1>5. QED
  BY <1>2, <1>3, <1>4 DEF c

-----------------------------------------------------------------------------
(* What the cells hold and what was read last, item by item.               *)
Kept == [c \in Cells |-> Whole(cir_buff[c])]
Seen == [i \in DOMAIN out |-> Whole(out[i])]

OneSize == item_size \in Nat \ {0}

LEMMA WholeSame ==
  ASSUME OneSize, NEW a, NEW b, \A p \in Parts : a[p] = b[p]
  PROVE  Whole(a) = Whole(b)
<1>1. 0 \in Parts
  BY DEF OneSize, Parts
<1>2. QED
  BY <1>1 DEF Whole

LEMMA WholeItem ==
  ASSUME OneSize, NEW x, NEW a, \A p \in Parts : a[p] = x
  PROVE  Whole(a) = x
<1>1. 0 \in Parts
  BY DEF OneSize, Parts
<1>2. QED
  BY <1>1 DEF Whole

LEMMA WholeByte ==
  ASSUME item_size = 1, NEW a
  PROVE  Parts = {0} /\ Whole(a) = a[0]
<1>1. Parts = {0}
  BY DEF Parts
<1>2. QED
  BY <1>1 DEF Whole

LEMMA WholeStays ==
  ASSUME item_size' = item_size
  PROVE  /\ Kept' = [c \in Cells |-> Whole(cir_buff'[c])]
         /\ Seen' = [i \in DOMAIN out' |-> Whole(out'[i])]
BY DEF Kept, Seen, Whole, Parts

(* The items that wait are a sequence of as many, read off the cells.      *)
Listed ==
  /\ NumBufferedItem \in 0 .. num /\ IsSeq(Contents, NumBufferedItem)
  /\ Len(Contents) = NumBufferedItem
  /\ \A i \in 1 .. NumBufferedItem : Contents[i] = Kept[(cir_buff_start + (i - 1)) % num_item]

LEMMA ContentsListed == Positions => Listed
<1> SUFFICES ASSUME Positions PROVE Listed
  OBVIOUS
<1>1. num \in Nat /\ NumBufferedItem \in 0 .. num
  BY NumberOfItems, CircularBufferAssumption
<1>2. IsSeq(Contents, NumBufferedItem)
  BY DEF IsSeq, Contents
<1>3. Len(Contents) = NumBufferedItem
  BY <1>1 DEF Contents
<1>4. ASSUME NEW i \in 1 .. NumBufferedItem
      PROVE  Contents[i] = Kept[(cir_buff_start + (i - 1)) % num_item]
  <2>1. i - 1 \in 0 .. num
    BY <1>1
  <2>2. (cir_buff_start + (i - 1)) % num_item \in Cells
    BY <2>1, Advance DEF Positions
  <2>3. QED
    BY <2>2 DEF Contents, Kept
<1>5. QED
  BY <1>1, <1>2, <1>3, <1>4 DEF Listed

LEMMA ContentsListedNext == Positions' => Listed'
BY ContentsListed, PTL

(* A store puts its items behind those that wait.                          *)
LEMMA Grow ==
  ASSUME Positions, Positions', NEW n \in 0 .. NumUnbufferedItem, NEW items,
         cir_buff_start' = cir_buff_start, NumBufferedItem' = NumBufferedItem + n,
         \A c \in Cells : Kept'[c] = IF Behind(c) < n THEN items[Behind(c) + 1] ELSE Kept[c]
  PROVE  \A i \in 1 .. NumBufferedItem + n :
           Contents'[i] = IF i <= NumBufferedItem THEN Contents[i] ELSE items[i - NumBufferedItem]
<1>1. /\ num \in Nat /\ NumBufferedItem \in 0 .. num /\ NumUnbufferedItem \in 0 .. num
      /\ NumBufferedItem + NumUnbufferedItem = num
  BY NumberOfItems, CircularBufferAssumption DEF NumUnbufferedItem, num_item
<1> SUFFICES ASSUME NEW i \in 1 .. NumBufferedItem + n
             PROVE  Contents'[i] = IF i <= NumBufferedItem THEN Contents[i]
                                   ELSE items[i - NumBufferedItem]
  OBVIOUS
<1> DEFINE c == (cir_buff_start + (i - 1)) % num_item
<1>2. i - 1 \in 0 .. num
  BY <1>1
<1>3. c \in Cells /\ (i - 1 < NumBufferedItem => Behind(c) = NumUnbufferedItem + 1 + (i - 1))
                 /\ (i - 1 >= NumBufferedItem => Behind(c) = i - 1 - NumBufferedItem)
  BY <1>2, BehindOfPlace
<1>4. Contents'[i] = Kept'[c]
  BY <1>1, ContentsListedNext DEF Listed
<1>5. i <= NumBufferedItem => Contents[i] = Kept[c]
  BY <1>1, ContentsListed DEF Listed
<1> HIDE DEF c
<1>6. CASE i <= NumBufferedItem
  <2>1. ~(Behind(c) < n)
    BY <1>1, <1>3, <1>6
  <2>2. QED
    BY <1>3, <1>4, <1>5, <1>6, <2>1
<1>7. CASE i > NumBufferedItem
  <2>1. Behind(c) < n /\ Behind(c) + 1 = i - NumBufferedItem
    BY <1>1, <1>3, <1>7
  <2>2. QED
    BY <1>1, <1>3, <1>4, <1>7, <2>1
<1>8. QED
  BY <1>1, <1>6, <1>7

(* A read takes the first ones away.                                       *)
LEMMA Shrink ==
  ASSUME Positions, Positions', NEW n \in 0 .. NumBufferedItem,
         cir_buff_start' = (cir_buff_start + n) % num_item, Kept' = Kept,
         NumBufferedItem' = NumBufferedItem - n
  PROVE  \A i \in 1 .. NumBufferedItem - n : Contents'[i] = Contents[i + n]
<1>1. num \in Nat /\ NumBufferedItem \in 0 .. num
  BY NumberOfItems, CircularBufferAssumption
<1> SUFFICES ASSUME NEW i \in 1 .. NumBufferedItem - n PROVE Contents'[i] = Contents[i + n]
  OBVIOUS
<1>2. n \in 0 .. num /\ i - 1 \in 0 .. num /\ n + (i - 1) <= num /\ i + n \in 1 .. NumBufferedItem
  BY <1>1
<1>3. Contents'[i] = Kept[(cir_buff_start' + (i - 1)) % num_item]
  BY ContentsListedNext DEF Listed
<1>4. Contents[i + n] = Kept[(cir_buff_start + (i + n - 1)) % num_item]
  BY <1>2, ContentsListed DEF Listed
<1>5. (cir_buff_start' + (i - 1)) % num_item = (cir_buff_start + (n + (i - 1))) % num_item
  BY <1>2, AdvanceTwice DEF Positions
<1>6. n + (i - 1) = i + n - 1
  BY <1>2
<1>7. QED
  BY <1>3, <1>4, <1>5, <1>6

-----------------------------------------------------------------------------
(* One item of any size is written into the first free cell and into no    *)
(* other, all of it.                                                       *)
LEMMA StoredOne ==
  ASSUME Positions, OneSize, NEW x, ~IsFull, BufferItem(x), item_size' = item_size
  PROVE  \A c \in Cells : Kept'[c] = IF Behind(c) < 1 THEN <<x>>[Behind(c) + 1] ELSE Kept[c]
<1> SUFFICES ASSUME NEW c \in Cells
             PROVE  Kept'[c] = IF Behind(c) < 1 THEN <<x>>[Behind(c) + 1] ELSE Kept[c]
  OBVIOUS
<1>1. /\ num \in Nat /\ num_item = num + 1 /\ cir_buff_end \in 0 .. num /\ c \in 0 .. num
      /\ item_size \in Nat \ {0}
  BY CircularBufferAssumption DEF Positions, Cells, num_item, OneSize
<1>2. cir_buff' = Copy(cir_buff, cir_buff_end, <<Item(x)>>, item_size)
  BY DEF BufferItem
<1>3. cir_buff'[c] = [p \in Parts |->
         IF c >= cir_buff_end /\ (c - cir_buff_end) * item_size + p < item_size
         THEN <<Item(x)>>[c - cir_buff_end + 1][p] ELSE cir_buff[c][p]]
  BY <1>2 DEF Copy
<1>4. Kept'[c] = Whole(cir_buff'[c]) /\ Kept[c] = Whole(cir_buff[c])
  BY WholeStays DEF Kept
<1>5. CASE c = cir_buff_end
  <2>1. ASSUME NEW p \in Parts PROVE cir_buff'[c][p] = x
    <3>1. p \in 0 .. item_size - 1
      BY DEF Parts
    <3>2. (c - cir_buff_end) * item_size + p < item_size /\ c >= cir_buff_end
      BY <1>1, <1>5, <3>1
    <3>3. <<Item(x)>>[c - cir_buff_end + 1] = Item(x)
      BY <1>1, <1>5
    <3>4. QED
      BY <1>3, <3>2, <3>3 DEF Item
  <2>2. Kept'[c] = x
    BY <1>4, <2>1, WholeItem
  <2>3. Behind(c) = 0
    BY <1>1, <1>5 DEF Behind
  <2>4. QED
    BY <2>2, <2>3
<1>6. CASE c # cir_buff_end
  <2>1. ASSUME NEW p \in Parts PROVE cir_buff'[c][p] = cir_buff[c][p]
    <3>1. p \in 0 .. item_size - 1
      BY DEF Parts
    <3>2. ASSUME c >= cir_buff_end PROVE ~((c - cir_buff_end) * item_size + p < item_size)
      <4>1. PICK d \in Nat \ {0} : c - cir_buff_end = d
        BY <1>1, <1>6, <3>2
      <4>2. d * item_size >= item_size
        BY <1>1, <4>1
      <4>3. d * item_size \in Int
        BY <1>1, <4>1
      <4>4. QED
        BY <1>1, <3>1, <4>1, <4>2, <4>3
    <3>3. QED
      BY <1>3, <3>2
  <2>2. Kept'[c] = Kept[c]
    BY <1>4, <2>1, WholeSame
  <2>3. ~(Behind(c) < 1)
    BY <1>1, <1>6 DEF Behind
  <2>4. QED
    BY <2>2, <2>3
<1>7. QED
  BY <1>5, <1>6

(* So are several items of one byte, although past the last cell the copy  *)
(* is cut in two.                                                          *)
LEMMA StoredMany ==
  ASSUME Positions, item_size = 1, NEW items, Len(items) \in Nat, BufferNItem(items),
         item_size' = item_size
  PROVE  \A c \in Cells :
           Kept'[c] = IF Behind(c) < Fewer(NumUnbufferedItem, Len(items))
                      THEN items[Behind(c) + 1] ELSE Kept[c]
<1> DEFINE n == Fewer(NumUnbufferedItem, Len(items))
           gap == num_item - cir_buff_end
           put == [i \in 1 .. n |-> Item(items[i])]
<1> SUFFICES ASSUME NEW c \in Cells
             PROVE  Kept'[c] = IF Behind(c) < n THEN items[Behind(c) + 1] ELSE Kept[c]
  OBVIOUS
<1>1. /\ num \in Nat /\ num_item = num + 1 /\ cir_buff_end \in 0 .. num /\ c \in 0 .. num
      /\ n \in 0 .. num /\ gap \in 1 .. num_item
  BY NumberOfItems, CircularBufferAssumption DEF Positions, Cells, num_item, Fewer
<1>2. cir_buff' = IF n <= gap
                  THEN Copy(cir_buff, cir_buff_end, put, n * item_size)
                  ELSE Copy(Copy(cir_buff, cir_buff_end, put, gap), 0,
                            SubSeq(put, gap + 1, n), (n - gap) * item_size)
  BY DEF BufferNItem
<1>3. Parts = {0} /\ Kept'[c] = cir_buff'[c][0] /\ Kept[c] = cir_buff[c][0]
  BY WholeStays, WholeByte DEF Kept
<1>4. \A i \in 1 .. n : put[i][0] = items[i]
  BY <1>3 DEF Item
<1>5. Behind(c) = IF c >= cir_buff_end THEN c - cir_buff_end ELSE c - cir_buff_end + num_item
  BY DEF Behind
<1>6. n * item_size = n /\ (n - gap) * item_size = n - gap /\ (c - cir_buff_end) * item_size + 0 = c - cir_buff_end
      /\ (c - 0) * item_size + 0 = c
  BY <1>1
<1>7. IsSeq(put, n)
  BY DEF IsSeq
<1> HIDE DEF n, put, gap
<1>8. CASE n <= gap
  <2>1. cir_buff' = Copy(cir_buff, cir_buff_end, put, n)
    BY <1>2, <1>6, <1>8
  <2>2. cir_buff'[c][0] = IF c >= cir_buff_end /\ c - cir_buff_end < n
                          THEN put[c - cir_buff_end + 1][0] ELSE cir_buff[c][0]
    BY <1>3, <1>6, <2>1 DEF Copy
  <2>3. CASE c >= cir_buff_end /\ c - cir_buff_end < n
    <3>1. c - cir_buff_end + 1 \in 1 .. n
      BY <1>1, <2>3
    <3>2. QED
      BY <1>3, <1>4, <1>5, <2>2, <2>3, <3>1
  <2>4. CASE ~(c >= cir_buff_end /\ c - cir_buff_end < n)
    <3>1. ~(Behind(c) < n)
      BY <1>1, <1>5, <1>8, <2>4 DEF gap
    <3>2. QED
      BY <1>3, <2>2, <2>4, <3>1
  <2>5. QED
    BY <2>3, <2>4
<1>9. CASE n > gap
  <2> DEFINE inner == Copy(cir_buff, cir_buff_end, put, gap)
             rest == SubSeq(put, gap + 1, n)
  <2>1. cir_buff' = Copy(inner, 0, rest, n - gap)
    BY <1>1, <1>2, <1>6, <1>9
  <2>2. inner[c][0] = IF c >= cir_buff_end /\ c - cir_buff_end < gap
                      THEN put[c - cir_buff_end + 1][0] ELSE cir_buff[c][0]
    BY <1>3, <1>6 DEF Copy
  <2>3. \A i \in 1 .. n - gap : rest[i] = put[gap + i]
    <3>1. n \in Int /\ gap + 1 \in Int
      BY <1>1
    <3>2. ASSUME NEW i \in 1 .. n - gap PROVE rest[i] = put[gap + i]
      <4>1. (gap + 1) + i - 1 = gap + i /\ i \in 1 .. n - (gap + 1) + 1
        BY <1>1, <1>9
      <4>2. QED
        BY <3>1, <4>1
    <3>3. QED
      BY <3>2
  <2> HIDE DEF inner, rest
  <2>4. cir_buff'[c][0] = IF c >= 0 /\ c < n - gap THEN rest[(c - 0) + 1][0] ELSE inner[c][0]
    BY <1>3, <1>6, <2>1 DEF Copy
  <2>5. CASE c < n - gap
    <3>1. c + 1 \in 1 .. n - gap /\ gap + (c + 1) \in 1 .. n /\ (c - 0) + 1 = c + 1 /\ c >= 0
      BY <1>1, <1>9, <2>5
    <3>2. cir_buff'[c][0] = items[gap + (c + 1)]
      BY <1>4, <2>3, <2>4, <2>5, <3>1
    <3>3. c < cir_buff_end
      BY <1>1, <2>5 DEF gap
    <3>4. Behind(c) < n /\ Behind(c) + 1 = gap + (c + 1)
      BY <1>1, <1>5, <2>5, <3>3 DEF gap
    <3>5. QED
      BY <1>3, <3>2, <3>4
  <2>6. CASE ~(c < n - gap)
    <3>1. cir_buff'[c][0] = inner[c][0]
      BY <2>4, <2>6
    <3>2. CASE c >= cir_buff_end
      <4>1. c - cir_buff_end < gap /\ c - cir_buff_end + 1 \in 1 .. n
        BY <1>1, <1>9, <3>2 DEF gap
      <4>2. Behind(c) = c - cir_buff_end /\ Behind(c) < n
        BY <1>1, <1>5, <1>9, <3>2, <4>1
      <4>3. cir_buff'[c][0] = items[c - cir_buff_end + 1]
        BY <1>4, <2>2, <3>1, <3>2, <4>1
      <4>4. QED
        BY <1>3, <4>2, <4>3
    <3>3. CASE ~(c >= cir_buff_end)
      <4>1. ~(Behind(c) < n)
        BY <1>1, <1>5, <2>6, <3>3 DEF gap
      <4>2. QED
        BY <1>3, <2>2, <3>1, <3>3, <4>1
    <3>4. QED
      BY <3>2, <3>3
  <2>7. QED
    BY <2>5, <2>6
<1>10. n <= gap \/ n > gap
  BY <1>1
<1>11. QED
  BY <1>8, <1>9, <1>10

(* What is copied out are the first items, in one part or in two.          *)
LEMMA ReadFirst ==
  ASSUME Positions, item_size = 1, NEW n \in 0 .. NumBufferedItem
  PROVE  /\ DOMAIN Read(n) = 1 .. n
         /\ \A i \in 1 .. n : Whole(Read(n)[i]) = Contents[i]
<1> DEFINE gap == num_item - cir_buff_start
<1>1. /\ num \in Nat /\ num_item = num + 1 /\ cir_buff_start \in 0 .. num
      /\ NumBufferedItem \in 0 .. num /\ gap \in 1 .. num_item
  BY NumberOfItems, CircularBufferAssumption DEF Positions, Cells, num_item
<1>2. Parts = {0} /\ \A a : Whole(a) = a[0]
  BY WholeByte
<1>3. \A i \in 1 .. n : i - 1 \in 0 .. num /\ (i - 1) * item_size + 0 = i - 1
  BY <1>1
<1>4. Read(n) = IF n <= gap THEN Fetch(cir_buff_start, n, n * item_size)
                ELSE Fetch(cir_buff_start, gap, gap) \o Fetch(0, n - gap, (n - gap) * item_size)
  BY DEF Read
<1> HIDE DEF gap
<1>5. \A i \in 1 .. n : /\ cir_buff_start + (i - 1) < num_item =>
                             (cir_buff_start + (i - 1)) % num_item = cir_buff_start + (i - 1)
                        /\ cir_buff_start + (i - 1) >= num_item =>
                             (cir_buff_start + (i - 1)) % num_item = cir_buff_start + (i - 1) - num_item
                        /\ (cir_buff_start + (i - 1)) % num_item \in Cells
  <2> SUFFICES ASSUME NEW i \in 1 .. n
               PROVE  /\ cir_buff_start + (i - 1) < num_item =>
                            (cir_buff_start + (i - 1)) % num_item = cir_buff_start + (i - 1)
                      /\ cir_buff_start + (i - 1) >= num_item =>
                            (cir_buff_start + (i - 1)) % num_item = cir_buff_start + (i - 1) - num_item
                      /\ (cir_buff_start + (i - 1)) % num_item \in Cells
    OBVIOUS
  <2> DEFINE j == i - 1
  <2>1. j \in 0 .. num /\ cir_buff_start \in Cells
    BY <1>3 DEF Positions
  <2> HIDE DEF j
  <2>2. /\ (cir_buff_start + j) % num_item \in Cells
        /\ cir_buff_start + j < num_item => (cir_buff_start + j) % num_item = cir_buff_start + j
        /\ cir_buff_start + j >= num_item => (cir_buff_start + j) % num_item = cir_buff_start + j - num_item
    BY <2>1, Advance
  <2>3. cir_buff_start + j - num_item = cir_buff_start + (i - 1) - num_item
    BY DEF j
  <2>4. QED
    BY <2>2, <2>3 DEF j
<1>6. \A i \in 1 .. n : Contents[i] = cir_buff[(cir_buff_start + (i - 1)) % num_item][0]
  <2> SUFFICES ASSUME NEW i \in 1 .. n
               PROVE  Contents[i] = cir_buff[(cir_buff_start + (i - 1)) % num_item][0]
    OBVIOUS
  <2> DEFINE c == (cir_buff_start + (i - 1)) % num_item
  <2>1. Contents[i] = Kept[c]
    BY <1>1, ContentsListed DEF Listed
  <2>2. c \in Cells
    BY <1>5
  <2>3. Kept[c] = cir_buff[c][0]
    <3> HIDE DEF c
    <3>1. QED
      BY <1>2, <2>2 DEF Kept
  <2>4. QED
    BY <2>1, <2>3
<1>7. CASE n <= gap
  <2>1. Read(n) = Fetch(cir_buff_start, n, n)
    BY <1>1, <1>4, <1>7
  <2>2. DOMAIN Read(n) = 1 .. n
    BY <2>1 DEF Fetch
  <2>3. ASSUME NEW i \in 1 .. n PROVE Read(n)[i][0] = Contents[i]
    <3>1. Read(n)[i][0] = cir_buff[cir_buff_start + i - 1][0]
      <4>1. (i - 1) * item_size + 0 < n
        BY <1>1, <1>3
      <4>2. QED
        BY <1>2, <2>1, <4>1 DEF Fetch
    <3>2. cir_buff_start + (i - 1) < num_item
      BY <1>1, <1>7 DEF gap
    <3>3. QED
      BY <1>5, <1>6, <3>1, <3>2
  <2>4. QED
    BY <1>2, <2>2, <2>3
<1>8. CASE n > gap
  <2> DEFINE a == Fetch(cir_buff_start, gap, gap)
             b == Fetch(0, n - gap, n - gap)
             S == {a[i] : i \in 1 .. gap} \cup {b[i] : i \in 1 .. n - gap}
  <2>1. Read(n) = a \o b
    BY <1>1, <1>4, <1>8
  <2>2. gap \in Nat /\ n - gap \in Nat
    BY <1>1, <1>8
  <2>3. IsSeq(a, gap) /\ IsSeq(b, n - gap)
    BY DEF IsSeq, Fetch
  <2>4. (\A i \in 1 .. gap : a[i] \in S) /\ (\A i \in 1 .. n - gap : b[i] \in S)
    OBVIOUS
  <2>5. \A i \in 1 .. gap : a[i][0] = cir_buff[cir_buff_start + i - 1][0]
    <3>1. \A i \in 1 .. gap : (i - 1) * item_size + 0 < gap
      BY <1>1
    <3>2. QED
      BY <1>2, <3>1 DEF Fetch
  <2>6. \A i \in 1 .. n - gap : b[i][0] = cir_buff[i - 1][0]
    <3>1. \A i \in 1 .. n - gap : (i - 1) * item_size + 0 < n - gap /\ 0 + i - 1 = i - 1
      BY <1>1
    <3>2. QED
      BY <1>2, <3>1 DEF Fetch
  <2> HIDE DEF a, b, S
  <2>7. a \in Seq(S) /\ Len(a) = gap /\ b \in Seq(S) /\ Len(b) = n - gap
    BY <2>2, <2>3, <2>4, SeqOfRange
  <2>8. DOMAIN (a \o b) = 1 .. n /\ \A i \in 1 .. n : (a \o b)[i] = IF i <= gap THEN a[i] ELSE b[i - gap]
    BY <1>1, <2>2, <2>7
  <2>9. ASSUME NEW i \in 1 .. n PROVE (a \o b)[i][0] = Contents[i]
    <3>1. CASE i <= gap
      <4>1. cir_buff_start + (i - 1) < num_item /\ i \in 1 .. gap
        BY <1>1, <3>1 DEF gap
      <4>2. QED
        BY <1>5, <1>6, <2>5, <2>8, <3>1, <4>1
    <3>2. CASE i > gap
      <4>1. /\ cir_buff_start + (i - 1) >= num_item /\ i - gap \in 1 .. n - gap /\ ~(i <= gap)
            /\ cir_buff_start + (i - 1) - num_item = i - gap - 1
        BY <1>1, <3>2 DEF gap
      <4>2. (a \o b)[i] = b[i - gap]
        BY <2>8, <4>1
      <4>3. b[i - gap][0] = cir_buff[i - gap - 1][0]
        BY <2>6, <4>1
      <4>4. Contents[i] = cir_buff[i - gap - 1][0]
        BY <1>5, <1>6, <4>1
      <4>5. QED
        BY <4>2, <4>3, <4>4
    <3>3. i <= gap \/ i > gap
      BY <1>1
    <3>4. QED
      BY <3>1, <3>2, <3>3
  <2>10. QED
    BY <1>2, <2>1, <2>8, <2>9
<1>9. n <= gap \/ n > gap
  BY <1>1
<1>10. QED
  BY <1>7, <1>8, <1>9

-----------------------------------------------------------------------------
(* Each call does to the store what BoundedFifo says of it.                *)
LEMMA Stays ==
  ASSUME UNCHANGED <<item_size, cir_buff, cir_buff_start, cir_buff_end>>
  PROVE  Contents' = Contents /\ NumBufferedItem' = NumBufferedItem
BY DEF Contents, NumBufferedItem, Whole, Parts

LEMMA KeptStays ==
  ASSUME UNCHANGED <<item_size, cir_buff>>
  PROVE  Kept' = Kept
BY DEF Kept, Whole, Parts

LEMMA NothingRead ==
  ASSUME out' = <<>>, item_size' = item_size
  PROVE  Seen' = <<>>
BY WholeStays

LEMMA BufferItemFifo ==
  ASSUME Positions, Positions', OneSize, NEW x \in Values, BufferItem(x), item_size' = item_size
  PROVE  F!BufferItem(x)
<1>1. Listed /\ Listed'
  BY ContentsListed, ContentsListedNext
<1>2. /\ num \in Nat \ {0} /\ NumBufferedItem \in 0 .. num
      /\ NumUnbufferedItem = num - NumBufferedItem /\ Len(Contents) = NumBufferedItem
  BY <1>1, CircularBufferAssumption DEF Listed, NumUnbufferedItem, num_item
<1>3. Seen' = <<>>
  BY NothingRead DEF BufferItem
<1>4. CASE IsFull
  <2>1. Contents' = Contents /\ rc' = -1
    BY <1>4, Stays DEF BufferItem
  <2>2. ~(Len(Contents) < num)
    BY <1>2, <1>4, FullAndEmpty DEF FullAndEmptyAgree
  <2>3. QED
    BY <1>3, <2>1, <2>2 DEF F!BufferItem, Seen
<1>5. CASE ~IsFull
  <2>1. Len(Contents) < num /\ 1 \in 0 .. NumUnbufferedItem
    BY <1>2, <1>5, FullAndEmpty DEF FullAndEmptyAgree
  <2>2. cir_buff_start' = cir_buff_start /\ cir_buff_end' = (cir_buff_end + 1) % num_item /\ rc' = 0
    BY <1>5 DEF BufferItem
  <2>3. NumBufferedItem' = NumBufferedItem + 1
    <3>1. /\ cir_buff_start \in 0 .. num /\ cir_buff_end \in 0 .. num /\ 1 \in 0 .. num
          /\ cir_buff_end \in Cells /\ num_item = num + 1
      BY <1>2 DEF Positions, Cells, num_item
    <3>2. /\ cir_buff_end + 1 < num_item => cir_buff_end' = cir_buff_end + 1
          /\ cir_buff_end + 1 >= num_item => cir_buff_end' = cir_buff_end + 1 - num_item
      BY <2>2, <3>1, Advance
    <3>3. QED
      BY <1>2, <2>1, <2>2, <3>1, <3>2 DEF NumBufferedItem, NumUnbufferedItem
  <2>4. \A c \in Cells : Kept'[c] = IF Behind(c) < 1 THEN <<x>>[Behind(c) + 1] ELSE Kept[c]
    BY <1>5, StoredOne
  <2>5. \A i \in 1 .. NumBufferedItem + 1 :
          Contents'[i] = IF i <= NumBufferedItem THEN Contents[i] ELSE <<x>>[i - NumBufferedItem]
    BY <2>1, <2>2, <2>3, <2>4, Grow
  <2>6. Contents' = Append(Contents, x)
    <3>1. IsSeq(Contents, NumBufferedItem) /\ IsSeq(Contents', NumBufferedItem + 1)
      BY <1>1, <2>3 DEF Listed
    <3>2. \A i \in 1 .. NumBufferedItem : Contents'[i] = Contents[i]
      BY <1>2, <2>5
    <3>3. Contents'[NumBufferedItem + 1] = x
      <4>1. /\ NumBufferedItem + 1 \in 1 .. NumBufferedItem + 1 /\ ~(NumBufferedItem + 1 <= NumBufferedItem)
            /\ (NumBufferedItem + 1) - NumBufferedItem = 1
        BY <1>2
      <4>2. QED
        BY <2>5, <4>1
    <3>4. QED
      BY <1>2, <3>1, <3>2, <3>3, Appended
  <2>7. QED
    BY <1>3, <2>1, <2>2, <2>6 DEF F!BufferItem, Seen
<1>6. QED
  BY <1>4, <1>5

LEMMA BufferNItemFifo ==
  ASSUME Positions, Positions', item_size = 1, NEW m \in Nat, NEW items \in [1 .. m -> Values],
         BufferNItem(items), item_size' = item_size
  PROVE  F!BufferNItem(items)
<1>1. Listed /\ Listed'
  BY ContentsListed, ContentsListedNext
<1>2. /\ num \in Nat /\ NumBufferedItem \in 0 .. num /\ NumUnbufferedItem \in 0 .. num
      /\ NumUnbufferedItem = num - NumBufferedItem /\ Len(Contents) = NumBufferedItem
  BY <1>1, CircularBufferAssumption DEF Listed, NumUnbufferedItem, num_item
<1>3. Len(items) = m /\ IsSeq(items, m)
  BY DEF IsSeq
<1> DEFINE n == Fewer(NumUnbufferedItem, m)
<1>4. n \in 0 .. m /\ n \in 0 .. NumUnbufferedItem
  BY <1>2 DEF Fewer
<1>5. cir_buff_start' = cir_buff_start /\ rc' = n /\ NumBufferedItem' = NumBufferedItem + n
  BY <1>3, StoreCounts DEF BufferNItem
<1>6. \A c \in Cells : Kept'[c] = IF Behind(c) < n THEN items[Behind(c) + 1] ELSE Kept[c]
  BY <1>3, StoredMany
<1> HIDE DEF n
<1>7. \A i \in 1 .. NumBufferedItem + n :
        Contents'[i] = IF i <= NumBufferedItem THEN Contents[i] ELSE items[i - NumBufferedItem]
  BY <1>4, <1>5, <1>6, Grow
<1>8. Contents' = Contents \o SubSeq(items, 1, n)
  <2>1. IsSeq(Contents, NumBufferedItem) /\ IsSeq(Contents', NumBufferedItem + n)
    BY <1>1, <1>5 DEF Listed
  <2>2. NumBufferedItem \in Nat
    BY <1>2
  <2>3. QED
    BY <1>3, <1>4, <1>7, <2>1, <2>2, Joined
<1>9. Seen' = <<>>
  BY NothingRead DEF BufferNItem
<1>10. n = F!Less(num - Len(Contents), Len(items))
  BY <1>2, <1>3 DEF n, Fewer, F!Less
<1>11. QED
  BY <1>5, <1>8, <1>9, <1>10 DEF F!BufferNItem, Seen

LEMMA DebufferItemFifo ==
  ASSUME Positions, Positions', OneSize, DebufferItem, item_size' = item_size
  PROVE  F!DebufferItem
<1>1. Listed /\ Listed'
  BY ContentsListed, ContentsListedNext
<1>2. num \in Nat /\ NumBufferedItem \in 0 .. num /\ Len(Contents) = NumBufferedItem
  BY <1>1, CircularBufferAssumption DEF Listed
<1>3. IsEmpty <=> NumBufferedItem = 0
  BY FullAndEmpty DEF FullAndEmptyAgree
<1>4. NumBufferedItem = 0 <=> Contents = <<>>
  <2>1. ASSUME NumBufferedItem = 0 PROVE Contents = <<>>
    BY <1>1, <2>1, Empty DEF Listed
  <2>2. ASSUME Contents = <<>> PROVE NumBufferedItem = 0
    BY <1>2, <2>2
  <2>3. QED
    BY <2>1, <2>2
<1>5. CASE IsEmpty
  <2>1. Contents' = Contents /\ rc' = -1 /\ Seen' = <<>>
    BY <1>5, Stays, NothingRead DEF DebufferItem
  <2>2. QED
    BY <1>3, <1>4, <1>5, <2>1 DEF F!DebufferItem, Seen
<1>6. CASE ~IsEmpty
  <2>1. NumBufferedItem \in 1 .. num
    BY <1>2, <1>3, <1>6
  <2>2. /\ out' = Fetch(cir_buff_start, 1, item_size) /\ rc' = 0
        /\ cir_buff_start' = (cir_buff_start + 1) % num_item
        /\ cir_buff' = cir_buff /\ cir_buff_end' = cir_buff_end
    BY <1>6 DEF DebufferItem
  <2>3. NumBufferedItem' = NumBufferedItem - 1
    <3>1. /\ cir_buff_start \in 0 .. num /\ cir_buff_end \in 0 .. num /\ 1 \in 0 .. num
          /\ cir_buff_start \in Cells /\ num_item = num + 1
      BY <1>2, <2>1 DEF Positions, Cells, num_item
    <3>2. /\ cir_buff_start + 1 < num_item => cir_buff_start' = cir_buff_start + 1
          /\ cir_buff_start + 1 >= num_item => cir_buff_start' = cir_buff_start + 1 - num_item
      BY <2>2, <3>1, Advance
    <3>3. QED
      BY <1>2, <2>1, <2>2, <3>1, <3>2 DEF NumBufferedItem
  <2>4. \A i \in 1 .. NumBufferedItem - 1 : Contents'[i] = Contents[i + 1]
    <3>1. 1 \in 0 .. NumBufferedItem /\ Kept' = Kept
      BY <2>1, <2>2, KeptStays
    <3>2. QED
      BY <2>2, <2>3, <3>1, Shrink
  <2>5. Contents' = Tail(Contents)
    <3>1. NumBufferedItem \in Nat \ {0}
      BY <2>1
    <3>2. IsSeq(Contents, NumBufferedItem) /\ IsSeq(Contents', NumBufferedItem - 1)
      BY <1>1, <2>3 DEF Listed
    <3>3. QED
      BY <2>4, <3>1, <3>2, DroppedOne
  <2>6. Seen' = <<Head(Contents)>>
    <3>1. cir_buff_start \in Cells /\ cir_buff_start % num_item = cir_buff_start
      <4>1. 0 \in 0 .. num /\ cir_buff_start \in Cells /\ cir_buff_start + 0 < num_item
        BY <1>2 DEF Positions, Cells, num_item
      <4>2. cir_buff_start + 0 = cir_buff_start
        BY <1>2 DEF Positions, Cells, num_item
      <4>3. QED
        BY <4>1, <4>2, Advance
    <3>2. Contents[1] = Kept[cir_buff_start]
      <4>1. 1 \in 1 .. NumBufferedItem /\ cir_buff_start + (1 - 1) = cir_buff_start
        BY <1>2, <2>1 DEF Positions, Cells, num_item
      <4>2. Contents[1] = Kept[(cir_buff_start + (1 - 1)) % num_item]
        BY <1>1, <4>1 DEF Listed
      <4>3. QED
        BY <3>1, <4>1, <4>2
    <3>3. DOMAIN out' = 1 .. 1 /\ \A p \in Parts : out'[1][p] = cir_buff[cir_buff_start][p]
      <4>1. DOMAIN out' = 1 .. 1
        BY <2>2 DEF Fetch
      <4>2. ASSUME NEW p \in Parts PROVE out'[1][p] = cir_buff[cir_buff_start][p]
        <5>1. (1 - 1) * item_size + p < item_size
          BY DEF OneSize, Parts
        <5>2. cir_buff_start + 1 - 1 = cir_buff_start
          BY <1>2 DEF Positions, Cells, num_item
        <5>3. QED
          BY <2>2, <5>1, <5>2 DEF Fetch
      <4>3. QED
        BY <4>1, <4>2
    <3>4. Whole(out'[1]) = Kept[cir_buff_start]
      BY <3>1, <3>3, WholeSame DEF Kept
    <3>5. Seen' = [i \in 1 .. 1 |-> Contents[1]]
      <4>1. Seen' = [i \in 1 .. 1 |-> Whole(out'[i])]
        BY <3>3, WholeStays
      <4>2. \A i \in 1 .. 1 : Whole(out'[i]) = Contents[1]
        <5>1. \A i \in 1 .. 1 : i = 1
          OBVIOUS
        <5>2. QED
          BY <3>2, <3>4, <5>1
      <4>3. QED
        BY <4>1, <4>2
    <3>6. Head(Contents) = Contents[1]
      BY <1>2, <2>1
    <3>7. QED
      BY <3>5, <3>6
  <2>7. QED
    BY <1>3, <1>4, <1>6, <2>2, <2>5, <2>6 DEF F!DebufferItem, Seen
<1>7. QED
  BY <1>5, <1>6

LEMMA ReadSeen ==
  ASSUME Positions, Positions', item_size = 1, item_size' = item_size,
         NEW n \in 0 .. NumBufferedItem, out' = Read(n)
  PROVE  Seen' = SubSeq(Contents, 1, n)
<1>1. Listed /\ NumBufferedItem \in Nat
  BY ContentsListed, NumberOfItems, CircularBufferAssumption
<1>2. Seen' = [i \in 1 .. n |-> Whole(out'[i])]
  BY ReadFirst, WholeStays
<1>3. \A i \in 1 .. n : Seen'[i] = Contents[i]
  BY <1>2, ReadFirst
<1>4. IsSeq(Seen', n)
  BY <1>2 DEF IsSeq
<1>5. IsSeq(Contents, NumBufferedItem)
  BY <1>1 DEF Listed
<1>6. QED
  BY <1>1, <1>3, <1>4, <1>5, Begun

LEMMA DebufferNItemFifo ==
  ASSUME Positions, Positions', item_size = 1, NEW k \in Nat, DebufferNItem(k), item_size' = item_size
  PROVE  F!DebufferNItem(k)
<1>1. Listed /\ Listed' /\ num \in Nat /\ NumBufferedItem \in 0 .. num
  BY ContentsListed, ContentsListedNext, NumberOfItems, CircularBufferAssumption
<1> DEFINE n == Fewer(NumBufferedItem, k)
<1>2. n \in 0 .. NumBufferedItem
  BY <1>1 DEF Fewer
<1>3. n = F!Less(Len(Contents), k)
  BY <1>1 DEF Listed, Fewer, F!Less
<1>4. /\ out' = Read(n) /\ rc' = n /\ cir_buff_start' = (cir_buff_start + n) % num_item
      /\ cir_buff' = cir_buff
  BY DEF DebufferNItem
<1>5. NumBufferedItem' = NumBufferedItem - n
  BY ReadCounts
<1> HIDE DEF n
<1>6. Seen' = SubSeq(Contents, 1, n)
  BY <1>2, <1>4, ReadSeen
<1>7. \A i \in 1 .. NumBufferedItem - n : Contents'[i] = Contents[i + n]
  BY <1>2, <1>4, <1>5, KeptStays, Shrink
<1>8. Contents' = SubSeq(Contents, n + 1, Len(Contents))
  <2>1. IsSeq(Contents, NumBufferedItem) /\ IsSeq(Contents', NumBufferedItem - n)
    BY <1>1, <1>5 DEF Listed
  <2>2. NumBufferedItem \in Nat
    BY <1>1
  <2>3. QED
    BY <1>2, <1>7, <2>1, <2>2, Dropped
<1>9. QED
  BY <1>3, <1>4, <1>6, <1>8 DEF F!DebufferNItem, F!First, F!Rest, Seen

LEMMA ReferDebufferedItemFifo ==
  ASSUME Positions, Positions', item_size = 1, NEW k \in Nat, ReferDebufferedItem(k),
         item_size' = item_size
  PROVE  F!ReferDebufferedItem(k)
<1>1. Listed /\ num \in Nat /\ NumBufferedItem \in 0 .. num
  BY ContentsListed, NumberOfItems, CircularBufferAssumption
<1> DEFINE n == Fewer(NumBufferedItem, k)
<1>2. n \in 0 .. NumBufferedItem
  BY <1>1 DEF Fewer
<1>3. n = F!Less(Len(Contents), k)
  BY <1>1 DEF Listed, Fewer, F!Less
<1>4. out' = Read(n) /\ rc' = n /\ Contents' = Contents
  BY Stays DEF ReferDebufferedItem
<1> HIDE DEF n
<1>5. Seen' = SubSeq(Contents, 1, n)
  BY <1>2, <1>4, ReadSeen
<1>6. QED
  BY <1>3, <1>4, <1>5 DEF F!ReferDebufferedItem, F!First, Seen

(* Nothing but the items' size is needed beside the positions.             *)
FifoInv == Positions /\ item_size \in Sizes

LEMMA FifoStep == FifoInv /\ [Next]_vars => FifoInv' /\ [F!Next]_(F!vars)
<1> SUFFICES ASSUME FifoInv, [Next]_vars PROVE FifoInv' /\ [F!Next]_(F!vars)
  OBVIOUS
<1>0. Positions /\ Positions' /\ item_size' = item_size /\ item_size \in Sizes /\ OneSize
  BY PositionsStep, CircularBufferAssumption DEF FifoInv, Next, vars, OneSize
<1>1. FifoInv'
  BY <1>0 DEF FifoInv
<1>2. ASSUME NEW x \in Values, BufferItem(x) PROVE F!Next
  BY <1>0, <1>2, BufferItemFifo DEF F!Next
<1>3. ASSUME DebufferItem PROVE F!Next
  BY <1>0, <1>3, DebufferItemFifo DEF F!Next
<1>4. ASSUME item_size = 1, NEW n \in 1 .. Most, NEW items \in [1 .. n -> Values], BufferNItem(items)
      PROVE  F!Next
  <2>1. n \in Nat
    BY CircularBufferAssumption
  <2>2. F!BufferNItem(items)
    BY <1>0, <1>4, <2>1, BufferNItemFifo
  <2>3. QED
    BY <2>2 DEF F!Next
<1>5. ASSUME item_size = 1, NEW k \in 1 .. Most, DebufferNItem(k) PROVE F!Next
  <2>1. k \in Nat
    BY CircularBufferAssumption
  <2>2. F!DebufferNItem(k)
    BY <1>0, <1>5, <2>1, DebufferNItemFifo
  <2>3. QED
    BY <2>2 DEF F!Next
<1>6. ASSUME item_size = 1, NEW k \in 1 .. Most, ReferDebufferedItem(k) PROVE F!Next
  <2>1. k \in Nat
    BY CircularBufferAssumption
  <2>2. F!ReferDebufferedItem(k)
    BY <1>0, <1>6, <2>1, ReferDebufferedItemFifo
  <2>3. QED
    BY <2>2 DEF F!Next
<1>7. ASSUME item_size = 1, NEW k \in 1 .. Most, DebufferNItem_sync(k) PROVE F!Next
  <2>1. Listed /\ k \in Nat /\ num \in Nat
    BY <1>0, ContentsListed, CircularBufferAssumption
  <2>2. (IsEmpty <=> NumBufferedItem = 0) /\ NumBufferedItem \in 0 .. num /\ Len(Contents) = NumBufferedItem
    BY <1>0, <2>1, FullAndEmpty DEF FullAndEmptyAgree, Listed
  <2>3. IsEmpty <=> Contents = <<>>
    BY <2>1, <2>2, Empty DEF Listed
  <2>4. ~IsEmpty => Head(Contents) = cir_buff[cir_buff_start][0]
    <3>1. SUFFICES ASSUME NumBufferedItem \in 1 .. num PROVE Head(Contents) = cir_buff[cir_buff_start][0]
      BY <2>1, <2>2
    <3>2. Head(Contents) = Contents[1]
      BY <2>2, <3>1
    <3>3. Contents[1] = Kept[(cir_buff_start + (1 - 1)) % num_item]
      BY <2>1, <3>1 DEF Listed
    <3>4. cir_buff_start \in Cells /\ (cir_buff_start + (1 - 1)) % num_item = cir_buff_start
      <4>1. 1 - 1 \in 0 .. num /\ cir_buff_start \in Cells /\ cir_buff_start + (1 - 1) < num_item
            /\ cir_buff_start + (1 - 1) = cir_buff_start
        BY <1>0, <2>1 DEF Positions, Cells, num_item
      <4>2. QED
        BY <4>1, Advance
    <3>5. QED
      BY <1>7, <3>2, <3>3, <3>4, WholeByte DEF Kept
  <2>5. CASE ~IsEmpty /\ cir_buff[cir_buff_start][0] \notin Sync
    <3>1. /\ cir_buff_start' = (cir_buff_start + 1) % num_item /\ rc' = -1 /\ out' = <<>>
          /\ UNCHANGED <<cir_buff, cir_buff_end>>
      BY <1>7, <2>5 DEF DebufferNItem_sync
    <3>2. NumBufferedItem \in Nat \ {0} /\ 1 \in 0 .. num /\ 1 \in 0 .. NumBufferedItem
      BY <2>1, <2>2, <2>5
    <3>3. NumBufferedItem' = NumBufferedItem - 1
      <4>1. /\ cir_buff_start \in 0 .. num /\ cir_buff_end \in 0 .. num /\ cir_buff_start \in Cells
            /\ num_item = num + 1
        BY <1>0, <2>1 DEF Positions, Cells, num_item
      <4>2. /\ cir_buff_start + 1 < num_item => cir_buff_start' = cir_buff_start + 1
            /\ cir_buff_start + 1 >= num_item => cir_buff_start' = cir_buff_start + 1 - num_item
        BY <3>1, <3>2, <4>1, Advance
      <4>3. QED
        BY <2>1, <2>2, <3>1, <3>2, <4>1, <4>2 DEF NumBufferedItem
    <3>4. \A i \in 1 .. NumBufferedItem - 1 : Contents'[i] = Contents[i + 1]
      <4>1. Kept' = Kept
        BY <1>0, <3>1, KeptStays
      <4>2. QED
        BY <1>0, <3>1, <3>2, <3>3, <4>1, Shrink
    <3>5. Contents' = Tail(Contents)
      <4>1. IsSeq(Contents, NumBufferedItem) /\ IsSeq(Contents', NumBufferedItem - 1)
        BY <1>0, <2>1, <3>3, ContentsListedNext DEF Listed
      <4>2. QED
        BY <3>2, <3>4, <4>1, DroppedOne
    <3>6. Seen' = <<>>
      BY <1>0, <3>1, NothingRead
    <3>7. F!DebufferNItem_sync(k)
      BY <2>3, <2>4, <2>5, <3>1, <3>5, <3>6 DEF F!DebufferNItem_sync, Seen
    <3>8. QED
      BY <3>7 DEF F!Next
  <2>6. CASE ~(~IsEmpty /\ cir_buff[cir_buff_start][0] \notin Sync)
    <3>1. DebufferNItem(k)
      BY <1>7, <2>6 DEF DebufferNItem_sync
    <3>2. F!DebufferNItem(k)
      BY <1>0, <1>7, <2>1, <3>1, DebufferNItemFifo
    <3>3. QED
      BY <3>2 DEF F!Next
  <2>7. QED
    BY <2>5, <2>6
<1>8. ASSUME Clear PROVE F!Next
  <2>1. Contents' = <<>>
    <3>1. NumBufferedItem' = 0
      BY <1>8 DEF Clear, NumBufferedItem
    <3>2. QED
      BY <1>0, <3>1, ContentsListedNext, Empty DEF Listed
  <2>2. rc' = -2 /\ Seen' = <<>>
    BY <1>0, <1>8, NothingRead DEF Clear, NoResult
  <2>3. QED
    BY <2>1, <2>2 DEF F!Next, F!Clear, Seen
<1>9. ASSUME UNCHANGED vars PROVE UNCHANGED F!vars
  <2>1. Contents' = Contents /\ rc' = rc
    BY <1>9, Stays DEF vars
  <2>2. Seen' = Seen
    BY <1>9, WholeStays DEF vars, Seen
  <2>3. QED
    BY <2>1, <2>2 DEF F!vars, Seen
<1>10. F!Next \/ UNCHANGED vars
  BY <1>2, <1>3, <1>4, <1>5, <1>6, <1>7, <1>8 DEF Next, ItemCall, ItemsCall
<1>11. QED
  BY <1>1, <1>9, <1>10

(* CCircularBuffer is a bounded first-in first-out store, whatever its size*)
(* and that of its items and however many a caller stores or asks for:     *)
(* items come out whole and in the order they went in, none is overwritten,*)
(* and each call returns what corelib.h says.                              *)
THEOREM FifoCorrect == Spec => FifoSpec
<1>1. Init => FifoInv /\ F!Init
  <2> SUFFICES ASSUME Init PROVE FifoInv /\ F!Init
    OBVIOUS
  <2>1. FifoInv
    BY CircularBufferAssumption DEF Init, FifoInv, Positions, Cells, num_item
  <2>2. Contents = <<>>
    <3>1. NumBufferedItem = 0
      BY DEF Init, NumBufferedItem
    <3>2. QED
      BY <2>1, <3>1, ContentsListed, Empty DEF Listed, FifoInv
  <2>3. rc = 0 /\ Seen = <<>>
    BY DEF Init, Seen
  <2>4. QED
    BY <2>1, <2>2, <2>3 DEF F!Init, Seen
<1>2. QED
  BY <1>1, FifoStep, PTL DEF Spec, FifoSpec, F!Spec
=============================================================================
