---------------------------- MODULE FilePlayProofs ----------------------------
(***************************************************************************)
(* Theorems about FilePlay: the rings never hold more than they have places*)
(* for, what is read in them is what was written, and a packet is moved    *)
(* from the one to the other once.                                         *)
(***************************************************************************)
EXTENDS FilePlay, TLAPS

-----------------------------------------------------------------------------
(* Numbers: the two ways the code steps an index over the end of a ring   *)
(* agree.                                                                  *)

LEMMA ModUnique ==
  ASSUME NEW S \in Nat \ {0}, NEW q \in Int, NEW r \in 0 .. S - 1
  PROVE  (S * q + r) % S = r
OBVIOUS

LEMMA ModOf ==
  ASSUME NEW S \in Nat \ {0}, NEW x \in Int
  PROVE  x % S \in 0 .. S - 1 /\ x = S * (x \div S) + (x % S)
OBVIOUS

LEMMA ModAdd ==
  ASSUME NEW S \in Nat \ {0}, NEW x \in Int, NEW y \in Int
  PROVE  ((x % S) + y) % S = (x + y) % S
<1> DEFINE q == x \div S
           r == x % S
           p == (r + y) \div S
           t == (r + y) % S
<1>1. r \in 0 .. S - 1 /\ x = S * q + r /\ q \in Int
  BY ModOf
<1>2. t \in 0 .. S - 1 /\ r + y = S * p + t /\ p \in Int
  BY <1>1, ModOf
<1> HIDE DEF q, p, r, t
<1>3. x + y = S * (q + p) + t
  BY <1>1, <1>2
<1>4. (S * (q + p) + t) % S = t
  BY <1>1, <1>2, ModUnique
<1>5. QED
  BY <1>3, <1>4 DEF t, r

LEMMA ModSmall ==
  ASSUME NEW S \in Nat \ {0}, NEW a \in 0 .. S - 1, NEW n \in 0 .. S
  PROVE  /\ (a + n) % S = IF a + n >= S THEN a + n - S ELSE a + n
         /\ (a + n) % S \in 0 .. S - 1
<1>1. CASE a + n >= S
  <2>1. (S * 1 + (a + (n - S))) % S = a + (n - S)
    BY <1>1, ModUnique
  <2>2. QED
    BY <1>1, <2>1
<1>2. CASE a + n < S
  <2>1. (S * 0 + (a + n)) % S = a + n
    BY <1>2, ModUnique
  <2>2. QED
    BY <1>2, <2>1
<1>3. QED
  BY <1>1, <1>2

-----------------------------------------------------------------------------
(* The sizes the rest needs: a window has three packets and is less than a *)
(* bank, and a ring is whole banks.                                        *)
LEMMA Sizes ==
  /\ Bank \in Nat /\ Bank > 0 /\ Size \in Nat /\ Size >= Bank
  /\ SrcPkt \in Nat /\ OutPkt \in Nat /\ OutPkt > 0 /\ OutPkt <= SrcPkt
  /\ Window \in Nat /\ Window >= 3 * SrcPkt /\ Window < Bank
<1>1. Size >= Bank
  <2>1. Size = Bank * (Size \div Bank) + (Size % Bank) /\ Size \div Bank \in Int
    BY FilePlayAssumption, ModOf
  <2> DEFINE m == Size \div Bank
  <2>2. Size = Bank * m /\ m \in Int
    BY <2>1, FilePlayAssumption
  <2> HIDE DEF m
  <2>3. m >= 1
    BY <2>2, FilePlayAssumption
  <2>4. QED
    BY <2>2, <2>3, FilePlayAssumption
<1>2. SearchPkts \in Int /\ SearchPkts >= 3 /\ SrcPkt \in Nat /\ SrcPkt > 0
  BY FilePlayAssumption
<1>3. SearchPkts * SrcPkt >= 3 * SrcPkt /\ SearchPkts * SrcPkt \in Nat
  BY <1>2
<1>4. QED
  BY <1>1, <1>2, <1>3, FilePlayAssumption DEF Window

(* The place to write is at the start of a bank and stays there.           *)
LEMMA NextBank ==
  ASSUME NEW w \in Places, w % Bank = 0
  PROVE  /\ w + Bank <= Size
         /\ Filled(w + Bank) = (w + Bank) % Size
         /\ Filled(w + Bank) \in Places /\ Filled(w + Bank) % Bank = 0
<1> DEFINE a == w \div Bank
           m == Size \div Bank
<1>1. w = Bank * a /\ Size = Bank * m /\ a \in Int /\ m \in Int
  <2>1. w = Bank * a + (w % Bank) /\ Size = Bank * m + (Size % Bank) /\ a \in Int /\ m \in Int
    BY FilePlayAssumption, ModOf DEF Places
  <2>2. Size % Bank = 0
    BY FilePlayAssumption
  <2>3. QED
    BY <2>1, <2>2, Sizes
<1> HIDE DEF a, m
<1>2. a < m
  BY <1>1, Sizes DEF Places
<1>3. Bank * (a + 1) <= Bank * m /\ Bank * (a + 1) = w + Bank
  BY <1>1, <1>2, Sizes
<1>4. (w + Bank) % Size = Filled(w + Bank) /\ Filled(w + Bank) \in Places
  <2>1. w \in 0 .. Size - 1 /\ Bank \in 0 .. Size /\ Size \in Nat \ {0} /\ w + Bank <= Size
    BY <1>1, <1>3, Sizes DEF Places
  <2>2. (w + Bank) % Size = IF w + Bank >= Size THEN w + Bank - Size ELSE w + Bank
    BY <2>1, ModSmall
  <2>3. (w + Bank) % Size \in 0 .. Size - 1
    BY <2>1, ModSmall
  <2> HIDE DEF Places
  <2>4. (IF w + Bank >= Size THEN w + Bank - Size ELSE w + Bank) = Filled(w + Bank)
    BY <2>1 DEF Filled
  <2>5. QED
    BY <2>2, <2>3, <2>4 DEF Places
<1>5. (w + Bank) % Bank = 0 /\ 0 % Bank = 0
  <2>1. (Bank * (a + 1) + 0) % Bank = 0 /\ (Bank * 0 + 0) % Bank = 0
    BY <1>1, Sizes, ModUnique
  <2>2. Bank * (a + 1) + 0 = w + Bank /\ Bank * 0 + 0 = 0
    BY <1>1, <1>3, Sizes
  <2>3. QED
    BY <2>1, <2>2
<1>6. Filled(w + Bank) % Bank = 0
  <2>1. Filled(w + Bank) = 0 \/ Filled(w + Bank) = w + Bank
    BY DEF Filled
  <2>2. QED
    BY <1>5, <2>1
<1>7. QED
  BY <1>1, <1>3, <1>4, <1>6

-----------------------------------------------------------------------------
(* The inductive invariant.                                                *)

(* The file, the rate, the indices and the counts are what they may be; the*)
(* place to write is at the start of a bank.                               *)
ShapeInv ==
  /\ file \in Files /\ ratio \in Ratios
  /\ TL_nRIndex \in Places /\ TL_nWIndex \in Places /\ TL_nWIndex % Bank = 0
  /\ TL_nReadPos \in Places /\ TL_nWritePos \in Places
  /\ TL_nBCount \in Nat /\ TL_nBufferCnt \in Nat /\ gTotalReadPacket \in 0 .. 9

(* Where a turn is, and that it begins a file or ends one with no more than*)
(* a bank in the second ring.  A file without a byte is never begun.       *)
FlowInv ==
  /\ pc \in {"turn", "search", "move", "fill"}
  /\ pc = "search" => TL_nFindSync /\ TL_nBCount > Window
  /\ pc = "move" => ~TL_nFindSync
  /\ loop_state = "END_PLAY" \/ TL_gFirstRead => pc = "turn" /\ TL_nBufferCnt <= Bank
  /\ file.len = 0 => /\ syncs = {} /\ TL_gFirstRead /\ TL_gNumLoop = 0
                     /\ loop_state # "END_PLAY"

(* c packets have been moved since the last search, two stand for more: the*)
(* 3 - c packets from TL_nRIndex on begin with the synchronisation byte,   *)
(* unless the last search ran out of data on an answer of another length.  *)
Ahead(c) ==
  \/ blind /\ c = 2
  \/ /\ Sync(0) /\ TL_nBCount > 0
     /\ c <= 1 => Sync(SrcPkt) /\ TL_nBCount > SrcPkt
     /\ c = 0 => Sync(2 * SrcPkt) /\ TL_nBCount > 2 * SrcPkt

(* What is in the second ring and what the first may still send there, in  *)
(* twentieths: half as much again as a packet takes at the play rate, and  *)
(* what is due of the null packets that come once in ten.                  *)
Weight(rate, second, first, g, c) ==
  20 * second + 3 * rate * first + 2 * OutPkt * ((rate - 10) % 10) * g + c * rate * SrcPkt

MaxWeight(rate) == 20 * Bank + 3 * rate * (Bank + Window) + 2 * rate * SrcPkt + 162 * OutPkt

SyncInv ==
  \E c \in 0 .. 2 :
    /\ IF TL_nFindSync THEN c = 0 ELSE Ahead(c)
    /\ pc \in {"search", "move"} =>
         Weight(ratio, TL_nBufferCnt, TL_nBCount, gTotalReadPacket, c) <= MaxWeight(ratio)

LoadInv ==
  /\ TL_nBCount <= Bank + Window /\ TL_nBufferCnt <= Size
  /\ pc \in {"turn", "fill"} => TL_nBCount <= Window

(* No unread packet has been moved, but for the one the search begins with;*)
(* none seems to follow that one.                                          *)
TakenInv ==
  \A k \in 0 .. TL_nBCount - 1 :
    (TL_nRIndex + k) % Size \in taken => pc = "search" /\ k = 0 /\ ~Sync(SrcPkt)

(* The offsets in the file.                                                *)
HandleInv == pos \in Nat /\ seek \in Nat \cup {NoSeek}

BaseInv == ShapeInv /\ FlowInv /\ Consistent
RoomyInv == LoadInv /\ SyncInv /\ TakenInv
PlayInv == BaseInv /\ HandleInv /\ (Roomy => RoomyInv)

(* SetNewRdAlignPos_of_PlayBuf and SetNewWrAlignPos_of_PlayBuf keep the    *)
(* count of the first ring and its indices together.                       *)
LEMMA Skipped ==
  ASSUME ShapeInv, Consistent, NEW n \in 0 .. Size, n <= TL_nBCount, Skip(n)
  PROVE  /\ TL_nRIndex' \in Places /\ TL_nBCount' \in Nat
         /\ TL_nBCount' = TL_nBCount - n /\ TL_nRIndex' = (TL_nRIndex + n) % Size
         /\ (TL_nRIndex' + TL_nBCount') % Size = TL_nWIndex
         /\ \A k \in Int : (TL_nRIndex' + k) % Size = (TL_nRIndex + (n + k)) % Size
<1>1. TL_nRIndex \in 0 .. Size - 1 /\ TL_nRIndex \in Int /\ TL_nBCount \in Nat /\ n \in Int
      /\ TL_nRIndex + n \in Int /\ Size \in Nat \ {0}
  BY Sizes DEF ShapeInv, Places
<1>2. TL_nRIndex' = (TL_nRIndex + n) % Size /\ TL_nRIndex' \in Places
  <2>1. (TL_nRIndex + n) % Size = IF TL_nRIndex + n >= Size THEN TL_nRIndex + n - Size
                                                            ELSE TL_nRIndex + n
    BY <1>1, ModSmall
  <2>2. (TL_nRIndex + n) % Size \in 0 .. Size - 1
    BY <1>1, ModSmall
  <2>3. TL_nRIndex' = IF TL_nRIndex + n >= Size THEN TL_nRIndex + n - Size ELSE TL_nRIndex + n
    BY <1>1, Sizes DEF Skip
  <2>4. QED
    BY <2>1, <2>2, <2>3 DEF Places
<1>3. TL_nBCount' = TL_nBCount - n /\ TL_nBCount' \in Nat
  BY <1>1 DEF Skip
<1>4. ASSUME NEW k \in Int
      PROVE  (TL_nRIndex' + k) % Size = (TL_nRIndex + (n + k)) % Size
  <2>1. (((TL_nRIndex + n) % Size) + k) % Size = ((TL_nRIndex + n) + k) % Size
    BY <1>1, ModAdd
  <2>2. (TL_nRIndex + n) + k = TL_nRIndex + (n + k)
    BY <1>1
  <2>3. QED
    BY <1>2, <2>1, <2>2
<1>5. (TL_nRIndex' + TL_nBCount') % Size = (TL_nRIndex + (n + TL_nBCount')) % Size
  BY <1>3, <1>4
<1>6. n + TL_nBCount' = TL_nBCount
  BY <1>1, <1>3
<1>7. QED
  BY <1>2, <1>3, <1>4, <1>5, <1>6 DEF Consistent

LEMMA Counted ==
  ASSUME ShapeInv, Consistent, CountBank
  PROVE  /\ TL_nRIndex' = TL_nRIndex
         /\ TL_nWIndex' \in Places /\ TL_nWIndex' % Bank = 0
         /\ TL_nBCount' \in Nat /\ TL_nBCount' = TL_nBCount + Bank
         /\ (TL_nRIndex' + TL_nBCount') % Size = TL_nWIndex'
<1>1. TL_nRIndex \in Int /\ TL_nBCount \in Nat /\ Size \in Nat \ {0} /\ Bank \in Nat /\ Bank \in Int
      /\ TL_nRIndex + TL_nBCount \in Int
  BY Sizes DEF ShapeInv, Places
<1>2. TL_nWIndex' = Filled(TL_nWIndex + Bank) /\ TL_nBCount' = TL_nBCount + Bank
      /\ TL_nRIndex' = TL_nRIndex
  BY DEF CountBank
<1>3. TL_nWIndex' = (TL_nWIndex + Bank) % Size /\ TL_nWIndex' \in Places /\ TL_nWIndex' % Bank = 0
  BY <1>2, NextBank DEF ShapeInv
<1>4. (((TL_nRIndex + TL_nBCount) % Size) + Bank) % Size = ((TL_nRIndex + TL_nBCount) + Bank) % Size
  BY <1>1, ModAdd
<1>5. (TL_nRIndex + TL_nBCount) + Bank = TL_nRIndex + (TL_nBCount + Bank)
  BY <1>1
<1>6. QED
  BY <1>1, <1>2, <1>3, <1>4, <1>5 DEF Consistent

(* Where FindSyncPos_and_FillSyncBuf leads.                                *)
LEMMA Entered ==
  ASSUME NEW n \in Nat, NEW b, NEW l
  PROVE  LET p == Leave(EnterFindSync(n, b), l)
         IN  /\ p \in {"turn", "search", "move", "fill"}
             /\ p = "search" => TL_nFindSync /\ n > Window
             /\ p = "move" => ~TL_nFindSync
             /\ p \in {"turn", "fill"} => n <= Window \/ b = 0
BY Sizes DEF Leave, EnterFindSync

(* A file without a byte leaves the ring as it was.                        *)
LEMMA ReadNothing ==
  ASSUME file \in Files, NEW o \in Nat, Fread(o)
  PROVE  /\ TL_dwBytesRead' = 0 => o >= file.len
         /\ TL_dwBytesRead' \in 0 .. Bank
         /\ file.len = 0 /\ syncs = {} => syncs' = {}
<1>1. file.len \in Nat /\ file.syncs \subseteq 0 .. file.len - 1
  BY FilePlayAssumption
<1>2. TL_dwBytesRead' = BytesFrom(o)
  BY DEF Fread
<1>3. BytesFrom(o) \in 0 .. Bank /\ (BytesFrom(o) = 0 => o >= file.len)
  BY <1>1, Sizes DEF BytesFrom, Least
<1>4. ASSUME file.len = 0, syncs = {} PROVE syncs' = {}
  <2>1. file.syncs = {}
    BY <1>1, <1>4
  <2>2. QED
    BY <1>4, <2>1 DEF Fread
<1>5. QED
  BY <1>2, <1>3, <1>4

LEMMA NotBegun ==
  ASSUME ShapeInv, FlowInv, Fread(0), ~(TL_gNumLoop = 0 /\ ~Lockable(syncs'))
  PROVE  file.len # 0
<1> SUFFICES ASSUME file.len = 0 PROVE FALSE
  OBVIOUS
<1>1. syncs' = {} /\ TL_gNumLoop = 0
  BY ReadNothing DEF ShapeInv, FlowInv
<1>2. Lockable({})
  BY <1>1
<1>3. QED
  BY <1>2 DEF Lockable, Hits, Fits

(* The first ring through a turn's reading.                                *)
LEMMA BaseFirstRead ==
  ASSUME BaseInv, FirstRead
  PROVE  BaseInv'
<1> USE DEF BaseInv
<1>1. pc = "turn" /\ loop_state = "CONT_PLAY" /\ TL_gFirstRead /\ loop_state' = loop_state
      /\ UNCHANGED <<file, ratio, TL_nFindSync, TL_nReadPos, TL_nWritePos, TL_nBufferCnt, TL_gNumLoop>>
  BY DEF FirstRead, choice, lock
<1>2. file \in Files /\ Fread(0)
  BY DEF FirstRead, ShapeInv
<1>3. CASE TL_gNumLoop = 0 /\ ~Lockable(syncs')
  <2>1. UNCHANGED <<TL_nRIndex, TL_nWIndex, TL_nBCount, gTotalReadPacket, TL_gFirstRead, pc>>
    BY <1>3 DEF FirstRead
  <2>2. ShapeInv' /\ Consistent'
    BY <1>1, <2>1 DEF ShapeInv, Consistent
  <2>3. file.len = 0 => syncs' = {}
    BY <1>2, ReadNothing DEF FlowInv
  <2>4. FlowInv'
    BY <1>1, <2>1, <2>3 DEF FlowInv
  <2>5. QED
    BY <2>2, <2>4
<1>4. CASE ~(TL_gNumLoop = 0 /\ ~Lockable(syncs'))
  <2>1. CountBank /\ gTotalReadPacket' = 0 /\ TL_gFirstRead' = FALSE
    BY <1>4 DEF FirstRead
  <2>2. pc' = Leave(EnterFindSync(TL_nBCount', TL_dwBytesRead'), TRUE)
    BY <1>4 DEF FirstRead
  <2>3. ShapeInv' /\ Consistent'
    BY <1>1, <2>1, Counted DEF ShapeInv, Consistent
  <2>4. file.len # 0
    BY <1>2, <1>4, NotBegun
  <2>5. TL_nBCount' \in Nat
    BY <2>1, Counted
  <2>6. /\ pc' \in {"turn", "search", "move", "fill"}
        /\ pc' = "search" => TL_nFindSync /\ TL_nBCount' > Window
        /\ pc' = "move" => ~TL_nFindSync
    BY <2>2, <2>5, Entered
  <2>7. FlowInv'
    BY <1>1, <2>1, <2>4, <2>6 DEF FlowInv, Window
  <2>8. QED
    BY <2>3, <2>7
<1>5. QED
  BY <1>3, <1>4

LEMMA BaseTurn ==
  ASSUME BaseInv, Turn
  PROVE  BaseInv'
<1> USE DEF BaseInv
<1>1. pc = "turn" /\ loop_state = "CONT_PLAY" /\ ~TL_gFirstRead /\ loop_state' = loop_state
      /\ UNCHANGED <<file, ratio, TL_nFindSync, TL_nReadPos, TL_nWritePos, TL_nBufferCnt, TL_gNumLoop>>
      /\ UNCHANGED <<gTotalReadPacket, TL_gFirstRead>>
  BY DEF Turn, choice, loops, out, lock
<1>2. file.len # 0
  BY <1>1 DEF FlowInv
<1>3. ASSUME pc' = "fill", UNCHANGED ring PROVE BaseInv'
  <2>1. UNCHANGED <<syncs, TL_nRIndex, TL_nWIndex, TL_nBCount>>
    BY <1>3 DEF ring
  <2>2. ShapeInv' /\ Consistent'
    BY <1>1, <2>1 DEF ShapeInv, Consistent
  <2>3. FlowInv'
    BY <1>1, <1>2, <1>3, <2>1 DEF FlowInv
  <2>4. QED
    BY <2>2, <2>3
<1>4. ASSUME IF TL_dwBytesRead' > 0
             THEN CountBank
             ELSE UNCHANGED <<taken, TL_nRIndex, TL_nWIndex, TL_nBCount>>,
             pc' = Leave(EnterFindSync(TL_nBCount', TL_dwBytesRead'), FALSE)
      PROVE  BaseInv'
  <2>1. ShapeInv' /\ Consistent'
    <3>1. CASE CountBank
      BY <1>1, <3>1, Counted DEF ShapeInv, Consistent
    <3>2. CASE UNCHANGED <<taken, TL_nRIndex, TL_nWIndex, TL_nBCount>>
      BY <1>1, <3>2 DEF ShapeInv, Consistent
    <3>3. QED
      BY <1>4, <3>1, <3>2
  <2>2. TL_nBCount' \in Nat
    BY <2>1 DEF ShapeInv
  <2>3. /\ pc' \in {"turn", "search", "move", "fill"}
        /\ pc' = "search" => TL_nFindSync /\ TL_nBCount' > Window
        /\ pc' = "move" => ~TL_nFindSync
    BY <1>4, <2>2, Entered
  <2>4. FlowInv'
    BY <1>1, <1>2, <2>3 DEF FlowInv, Window
  <2>5. QED
    BY <2>1, <2>4
<1>5. QED
  BY <1>3, <1>4 DEF Turn

(* TL_SyncLockFunction answers the right length with three packets in a    *)
(* row, or, in the last two packets of the window, with one byte.          *)
Whole(at) ==
  at \in 0 .. Window - 1 - 2 * SrcPkt /\ Sync(at) /\ Sync(at + SrcPkt) /\ Sync(at + 2 * SrcPkt)
Cut(at) ==
  at \in Window - 2 * SrcPkt .. Window - 1 /\ Sync(at)

LEMMA Answers ==
  ASSUME NEW behind \in Behind, NEW at,
         at \in FirstHit({i \in 0 .. Window - 1 : Sync(i)} \cup behind, Window),
         OfLength({i \in 0 .. Window - 1 : Sync(i)} \cup behind, at)
  PROVE  Whole(at) \/ Cut(at)
<1> DEFINE seen == {i \in 0 .. Window - 1 : Sync(i)} \cup behind
<1>1. at \in 0 .. Window - 1
  BY DEF FirstHit, Hits
<1>2. at \in seen /\ at + SrcPkt \in seen /\ at + 2 * SrcPkt \in seen
  BY DEF OfLength, Fits
<1>3. ASSUME NEW k \in 0 .. Window - 1, k \in seen PROVE Sync(k)
  <2>1. k \notin behind
    BY DEF Behind
  <2>2. QED
    BY <1>3, <2>1
<1> HIDE DEF seen
<1>4. CASE at + 2 * SrcPkt < Window
  <2>1. /\ at + SrcPkt \in 0 .. Window - 1 /\ at + 2 * SrcPkt \in 0 .. Window - 1
        /\ at \in 0 .. Window - 1 - 2 * SrcPkt
    BY <1>1, <1>4, Sizes
  <2>2. QED
    BY <1>1, <1>2, <1>3, <2>1 DEF Whole
<1>5. CASE at + 2 * SrcPkt >= Window
  <2>1. at \in Window - 2 * SrcPkt .. Window - 1
    BY <1>1, <1>5, Sizes
  <2>2. QED
    BY <1>1, <1>2, <1>3, <1>5, <2>1 DEF Cut
<1>6. QED
  BY <1>1, <1>4, <1>5, Sizes

(* What a look at a window skips: up to an answer of the right length;     *)
(* half a window, the data then ending on an answer of another length; or  *)
(* half a window, the search going on if it can.                           *)
Looked(n, sync, dark, there) ==
  /\ n \in 0 .. Window /\ Skip(n)
  /\ \/ /\ Whole(n) \/ Cut(n)
        /\ sync = FALSE /\ dark = FALSE /\ there = "move"
     \/ /\ n = Window \div 2
        /\ sync = FALSE /\ dark = TRUE /\ there = "move"
     \/ /\ n = Window \div 2
        /\ sync = TRUE
        /\ there = IF TL_nBCount' > Window THEN "search" ELSE Leave("done", last)

LEMMA SearchSkips ==
  ASSUME BaseInv, Search
  PROVE  \E n \in 0 .. Window : Looked(n, TL_nFindSync', blind', pc')
<1> DEFINE Seen(b) == {i \in 0 .. Window - 1 : Sync(i)} \cup b
           Right(b) == {i \in FirstHit(Seen(b), Window) : OfLength(Seen(b), i)}
<1>1. PICK behind \in Behind :
        \/ /\ \E i \in Right(behind) : Skip(i)
           /\ TL_nFindSync' = FALSE /\ blind' = FALSE /\ pc' = "move"
        \/ /\ Skip(Window \div 2)
           /\ blind' = (Hits(Seen(behind), Window) # {} /\ TL_nBCount' <= Window)
           /\ TL_nFindSync' = ~blind'
           /\ pc' = IF TL_nBCount' > Window THEN "search"
                    ELSE IF blind' THEN "move" ELSE Leave("done", last)
  BY DEF Search
<1>2. CASE \E i \in Right(behind) : Skip(i) /\ TL_nFindSync' = FALSE /\ blind' = FALSE /\ pc' = "move"
  <2>1. PICK i \in Right(behind) : Skip(i)
    BY <1>2
  <2>2. Whole(i) \/ Cut(i)
    BY Answers
  <2>3. i \in 0 .. Window
    BY <2>2, Sizes DEF Whole, Cut
  <2>4. QED
    BY <1>2, <2>1, <2>2, <2>3 DEF Looked
<1>3. CASE /\ Skip(Window \div 2)
           /\ blind' = (Hits(Seen(behind), Window) # {} /\ TL_nBCount' <= Window)
           /\ TL_nFindSync' = ~blind'
           /\ pc' = IF TL_nBCount' > Window THEN "search"
                    ELSE IF blind' THEN "move" ELSE Leave("done", last)
  <2> HIDE DEF Seen
  <2>1. Window \div 2 \in 0 .. Window
    BY Sizes
  <2>2. CASE blind'
    <3>1. TL_nBCount' <= Window /\ blind' = TRUE /\ TL_nFindSync' = FALSE
      BY <1>3, <2>2
    <3>2. ~(TL_nBCount' > Window)
      <4>1. TL_nBCount' \in Int
        BY <1>3, <2>1, Sizes DEF Skip, BaseInv, ShapeInv
      <4>2. QED
        BY <3>1, <4>1, Sizes
    <3>3. pc' = "move"
      BY <1>3, <2>2, <3>2
    <3>4. QED
      BY <1>3, <2>1, <3>1, <3>3 DEF Looked
  <2>3. CASE ~blind'
    <3>1. TL_nFindSync' = TRUE
      BY <1>3, <2>3
    <3>2. pc' = IF TL_nBCount' > Window THEN "search" ELSE Leave("done", last)
      BY <1>3, <2>3
    <3>3. QED
      BY <1>3, <2>1, <3>1, <3>2 DEF Looked
  <2>4. QED
    BY <2>2, <2>3
<1>4. QED
  BY <1>1, <1>2, <1>3

LEMMA Left ==
  ASSUME NEW l
  PROVE  Leave("done", l) \in {"turn", "fill"}
BY DEF Leave

LEMMA BaseSearch ==
  ASSUME BaseInv, Search
  PROVE  BaseInv'
<1> USE DEF BaseInv
<1>1. pc = "search" /\ UNCHANGED <<file, ratio, TL_nWIndex, TL_nReadPos, TL_nWritePos>>
      /\ UNCHANGED <<TL_nBufferCnt, gTotalReadPacket, loop_state, TL_gFirstRead, TL_gNumLoop, syncs>>
  BY DEF Search, choice, loops, out
<1>2. PICK n \in 0 .. Window : Looked(n, TL_nFindSync', blind', pc')
  BY SearchSkips
<1>3. TL_nFindSync /\ TL_nBCount > Window /\ n \in 0 .. Size /\ n <= TL_nBCount
  BY <1>1, Sizes DEF FlowInv, ShapeInv
<1>4. ShapeInv' /\ Consistent'
  BY <1>1, <1>2, <1>3, Skipped DEF ShapeInv, Consistent, Looked
<1>5. /\ pc' \in {"turn", "search", "move", "fill"}
      /\ pc' = "search" => TL_nFindSync' /\ TL_nBCount' > Window
      /\ pc' = "move" => ~TL_nFindSync'
  BY <1>2, <1>3, Left DEF Looked
<1>6. FlowInv'
  BY <1>1, <1>5 DEF FlowInv, Window
<1>7. QED
  BY <1>4, <1>6

(* The null packets of any ten packets make up the play rate.              *)
LEMMA NullsAreNat ==
  ASSUME ratio \in Ratios, NEW g \in 0 .. 9
  PROVE  /\ Nulls(g + 1) \in Nat
         /\ (ratio - 10) % 10 \in 0 .. 9
         /\ 10 * (1 + Nulls(g + 1)) =
              (ratio - ((ratio - 10) % 10)) + (IF g = 9 THEN 10 * ((ratio - 10) % 10) ELSE 0)
<1> DEFINE d == (ratio - 10) \div 10
           x == (ratio - 10) % 10
<1>1. ratio \in Nat /\ ratio >= 10
  BY FilePlayAssumption
<1>2. x \in 0 .. 9 /\ ratio - 10 = 10 * d + x /\ d \in Int
  BY <1>1
<1>3. (g + 1) % 10 = 0 <=> g = 9
  OBVIOUS
<1>4. Nulls(g + 1) = d + (IF g = 9 THEN x ELSE 0)
  BY <1>3 DEF Nulls
<1> HIDE DEF d, x
<1>5. d >= 0
  BY <1>1, <1>2
<1>6. Nulls(g + 1) \in Nat
  BY <1>2, <1>4, <1>5
<1>7. 10 * (1 + Nulls(g + 1)) = (ratio - x) + (IF g = 9 THEN 10 * x ELSE 0)
  BY <1>1, <1>2, <1>4
<1>8. QED
  BY <1>2, <1>6, <1>7 DEF x

LEMMA BaseMove ==
  ASSUME BaseInv, Move
  PROVE  BaseInv'
<1> USE DEF BaseInv
<1> DEFINE bytes == OutPkt * (1 + Nulls(gTotalReadPacket + 1))
           next == (TL_nRIndex + SrcPkt) % Size
<1>1. pc = "move" /\ TL_nBCount > Window /\ Queue(bytes)
      /\ UNCHANGED <<file, ratio, TL_nWIndex, loop_state, TL_gFirstRead, TL_gNumLoop, syncs>>
  BY DEF Move, choice, loops
<1>2. bytes \in Nat
  <2>1. Nulls(gTotalReadPacket + 1) \in Nat
    BY NullsAreNat DEF ShapeInv
  <2>2. QED
    BY <2>1, Sizes
<1> HIDE DEF bytes
<1>3. TL_nBufferCnt' \in Nat /\ TL_nBufferCnt' = TL_nBufferCnt + bytes
      /\ gTotalReadPacket' \in 0 .. 9 /\ UNCHANGED TL_nReadPos
  BY <1>1, <1>2 DEF ShapeInv, Queue
<1>4. TL_nWritePos' \in Places /\ (TL_nReadPos + TL_nBufferCnt') % Size = TL_nWritePos'
  <2>1. TL_nWritePos' = (TL_nWritePos + bytes) % Size
    BY <1>1 DEF Queue
  <2>2. TL_nReadPos \in Int /\ TL_nBufferCnt \in Int /\ TL_nWritePos \in Int /\ bytes \in Int
        /\ TL_nReadPos + TL_nBufferCnt \in Int /\ TL_nWritePos + bytes \in Int /\ Size \in Nat \ {0}
    BY <1>2, Sizes DEF ShapeInv, Places
  <2>3. (((TL_nReadPos + TL_nBufferCnt) % Size) + bytes) % Size
          = ((TL_nReadPos + TL_nBufferCnt) + bytes) % Size
    BY <2>2, ModAdd
  <2>4. (TL_nReadPos + TL_nBufferCnt) + bytes = TL_nReadPos + TL_nBufferCnt'
    BY <1>3, <2>2
  <2>5. TL_nWritePos' \in Places
    BY <2>1, <2>2, ModOf DEF Places
  <2>6. QED
    BY <2>1, <2>3, <2>4, <2>5 DEF Consistent
<1>5. ASSUME Skip(SrcPkt), UNCHANGED <<TL_nFindSync, pc>> PROVE BaseInv'
  <2>1. SrcPkt \in 0 .. Size /\ SrcPkt <= TL_nBCount
    BY <1>1, Sizes DEF ShapeInv
  <2>2. ShapeInv' /\ Consistent'
    BY <1>1, <1>3, <1>4, <1>5, <2>1, Skipped DEF ShapeInv, Consistent
  <2>3. FlowInv'
    BY <1>1, <1>5 DEF FlowInv
  <2>4. QED
    BY <2>2, <2>3
<1>6. ASSUME TL_nFindSync' = TRUE, pc' = "search", UNCHANGED <<TL_nRIndex, TL_nBCount>> PROVE BaseInv'
  <2>1. ShapeInv' /\ Consistent'
    BY <1>1, <1>3, <1>4, <1>6 DEF ShapeInv, Consistent
  <2>2. FlowInv'
    BY <1>1, <1>6 DEF FlowInv, Window
  <2>3. QED
    BY <2>1, <2>2
<1>7. QED
  BY <1>5, <1>6 DEF Move

LEMMA BaseFill ==
  ASSUME BaseInv, Fill
  PROVE  BaseInv'
<1> USE DEF BaseInv
<1>1. pc = "fill" /\ pc' = "turn" /\ TL_gFirstRead' = TL_gFirstRead
      /\ UNCHANGED <<file, ratio, syncs, TL_nRIndex, TL_nWIndex, TL_nBCount>>
      /\ UNCHANGED <<TL_nWritePos, gTotalReadPacket, TL_gNumLoop>>
  BY DEF Fill, choice, ring, loops, out
<1>2. ~TL_gFirstRead /\ file.len # 0 /\ loop_state # "END_PLAY"
  BY <1>1 DEF FlowInv
<1>3. CASE TL_nBufferCnt > Bank
  <2>1. TL_nReadPos' = (TL_nReadPos + Bank) % Size /\ TL_nBufferCnt' = TL_nBufferCnt - Bank
        /\ loop_state' = loop_state
    BY <1>3, Sizes DEF Fill, loops, ShapeInv
  <2>2. TL_nReadPos \in Int /\ TL_nBufferCnt \in Nat /\ Bank \in Int /\ Size \in Nat \ {0}
        /\ TL_nReadPos + Bank \in Int /\ TL_nBufferCnt' \in Int
    BY <2>1, Sizes DEF ShapeInv, Places
  <2>3. (((TL_nReadPos + Bank) % Size) + TL_nBufferCnt') % Size
          = ((TL_nReadPos + Bank) + TL_nBufferCnt') % Size
    BY <2>2, ModAdd
  <2>4. (TL_nReadPos + Bank) + TL_nBufferCnt' = TL_nReadPos + TL_nBufferCnt
    BY <2>1, <2>2
  <2>5. TL_nReadPos' \in Places /\ TL_nBufferCnt' \in Nat
    BY <1>3, <2>1, <2>2, Sizes, ModOf DEF Places
  <2>6. ShapeInv'
    BY <1>1, <2>5 DEF ShapeInv
  <2>7. Consistent'
    BY <1>1, <2>1, <2>3, <2>4 DEF Consistent
  <2>8. FlowInv'
    BY <1>1, <1>2, <2>1 DEF FlowInv
  <2>9. QED
    BY <2>6, <2>7, <2>8
<1>4. CASE TL_nBufferCnt <= Bank
  <2>1. UNCHANGED <<TL_nReadPos, TL_nBufferCnt>>
    BY <1>4, Sizes DEF Fill, out, ShapeInv
  <2>2. ShapeInv' /\ Consistent'
    BY <1>1, <2>1 DEF ShapeInv, Consistent
  <2>3. FlowInv'
    BY <1>1, <1>2, <1>4, <2>1 DEF FlowInv
  <2>4. QED
    BY <2>2, <2>3
<1>5. QED
  BY <1>3, <1>4, Sizes DEF ShapeInv

(* The other steps leave the rings alone.                                  *)
RingsStay ==
  UNCHANGED <<choice, ring, lock, out>>

(* The file cannot be opened again.                                        *)
GivenUp ==
  pc = "turn" /\ loop_state' = "NONE" /\ UNCHANGED <<TL_gFirstRead, TL_gNumLoop>>

LEMMA BaseOthers ==
  ASSUME BaseInv, RingsStay,
         \/ pc = "move" /\ pc' = Leave("done", last) /\ loops' = loops
         \/ pc' = pc /\ loops' = loops
         \/ pc' = pc /\ loop_state = "END_PLAY" /\ Again
         \/ pc' = pc /\ GivenUp
  PROVE  BaseInv'
<1> USE DEF BaseInv
<1>1. UNCHANGED <<file, ratio, syncs, TL_nRIndex, TL_nWIndex, TL_nBCount, TL_nFindSync>>
      /\ UNCHANGED <<TL_nReadPos, TL_nWritePos, TL_nBufferCnt, gTotalReadPacket>>
  BY DEF RingsStay, choice, ring, out, lock
<1>2. ShapeInv' /\ Consistent'
  BY <1>1 DEF ShapeInv, Consistent
<1>3. CASE pc = "move" /\ pc' = Leave("done", last) /\ loops' = loops
  <2>1. pc' \in {"turn", "fill"} /\ UNCHANGED <<loop_state, TL_gFirstRead, TL_gNumLoop>>
    BY <1>3, Left DEF loops
  <2>2. FlowInv'
    BY <1>1, <1>3, <2>1 DEF FlowInv
  <2>3. QED
    BY <1>2, <2>2
<1>4. CASE pc' = pc /\ loops' = loops
  <2>1. UNCHANGED <<loop_state, TL_gFirstRead, TL_gNumLoop>>
    BY <1>4 DEF loops
  <2>2. FlowInv'
    BY <1>1, <1>4, <2>1 DEF FlowInv, Window
  <2>3. QED
    BY <1>2, <2>2
<1>5. CASE pc' = pc /\ loop_state = "END_PLAY" /\ Again
  <2>1. FlowInv'
    BY <1>1, <1>5 DEF FlowInv, Again
  <2>2. QED
    BY <1>2, <2>1
<1>6. CASE pc' = pc /\ GivenUp
  <2>1. FlowInv'
    BY <1>1, <1>6 DEF FlowInv, GivenUp
  <2>2. QED
    BY <1>2, <2>1
<1>7. QED
  BY <1>3, <1>4, <1>5, <1>6

LEMMA OtherSteps ==
  ASSUME \/ MoveEnds \/ EndRestart \/ EndClose \/ EndReady \/ Reopen
         \/ (\E o \in Offsets : Seek(o)) \/ NextFile \/ UNCHANGED vars
  PROVE  /\ RingsStay
         /\ \/ MoveEnds /\ pc = "move" /\ pc' = Leave("done", last) /\ loops' = loops
            \/ pc' = pc /\ loops' = loops
            \/ pc' = pc /\ loop_state = "END_PLAY" /\ Again
            \/ pc' = pc /\ GivenUp
BY DEF MoveEnds, EndRestart, EndClose, EndReady, Reopen, Seek, NextFile, vars, RingsStay, Again,
       loops, GivenUp

LEMMA BaseStep ==
  BaseInv /\ [Next]_vars => BaseInv'
<1> SUFFICES ASSUME BaseInv, [Next]_vars PROVE BaseInv'
  OBVIOUS
<1>1. CASE FirstRead
  BY <1>1, BaseFirstRead
<1>2. CASE Turn
  BY <1>2, BaseTurn
<1>3. CASE Search
  BY <1>3, BaseSearch
<1>4. CASE Move
  BY <1>4, BaseMove
<1>5. CASE Fill
  BY <1>5, BaseFill
<1>6. CASE \/ MoveEnds \/ EndRestart \/ EndClose \/ EndReady \/ Reopen
           \/ (\E o \in Offsets : Seek(o)) \/ NextFile \/ UNCHANGED vars
  <2>1. RingsStay
    BY <1>6, OtherSteps
  <2>2. \/ pc = "move" /\ pc' = Leave("done", last) /\ loops' = loops
        \/ pc' = pc /\ loops' = loops
        \/ pc' = pc /\ loop_state = "END_PLAY" /\ Again
        \/ pc' = pc /\ GivenUp
    BY <1>6, OtherSteps
  <2>3. QED
    BY <2>1, <2>2, BaseOthers
<1>7. QED
  BY <1>1, <1>2, <1>3, <1>4, <1>5, <1>6 DEF Next, Main

LEMMA HandleStep ==
  file \in Files /\ HandleInv /\ [Next]_vars => HandleInv'
<1> SUFFICES ASSUME file \in Files, HandleInv, [Next]_vars PROVE HandleInv'
  OBVIOUS
<1> USE DEF HandleInv
<1>1. ASSUME NEW o \in Nat, Fread(o) PROVE pos' \in Nat
  <2>1. BytesFrom(o) \in Nat
    BY FilePlayAssumption, Sizes DEF BytesFrom, Least
  <2>2. QED
    BY <1>1, <2>1 DEF Fread
<1>2. CASE FirstRead
  BY <1>1, <1>2 DEF FirstRead
<1>3. CASE Turn
  <2> DEFINE from == IF seek = NoSeek THEN pos ELSE seek
  <2>1. from \in Nat
    OBVIOUS
  <2>2. seek' = NoSeek /\ (pos' = from \/ Fread(from))
    BY <1>3 DEF Turn
  <2>3. QED
    BY <1>1, <2>1, <2>2
<1>4. CASE EndRestart \/ Reopen
  BY <1>4 DEF EndRestart, Reopen, user, handle
<1>5. ASSUME NEW o \in Offsets, Seek(o) PROVE HandleInv'
  BY <1>5, FilePlayAssumption DEF Seek, handle
<1>6. CASE Search \/ Move \/ MoveEnds \/ Fill \/ EndClose \/ EndReady \/ NextFile \/ UNCHANGED vars
  BY <1>6 DEF Search, Move, MoveEnds, Fill, EndClose, EndReady, NextFile, vars, handle, user
<1>7. QED
  BY <1>2, <1>3, <1>4, <1>5, <1>6 DEF Next, Main

-----------------------------------------------------------------------------
(* A rate the buffers are made for.                                        *)

LEMMA Rate == ratio \in Ratios => ratio \in Nat /\ ratio >= 10 /\ (ratio - 10) % 10 \in 0 .. 9
BY FilePlayAssumption

LEMMA RoomMeans ==
  ASSUME ratio \in Ratios, Roomy
  PROVE  /\ Window + Bank <= Size
         /\ MaxWeight(ratio) + 2 * ratio * SrcPkt <= 20 * Size
<1> DEFINE p == ratio * (Bank + Window)
           q == ratio * SrcPkt
<1>1. /\ p \in Nat /\ p >= 10 * (Bank + Window) /\ q \in Nat
  BY Rate, Sizes
<1>2. 20 * Bank + 3 * p + 4 * q + 162 * OutPkt <= 20 * Size
  BY Rate, Sizes DEF Roomy
<1>3. MaxWeight(ratio) = 20 * Bank + 3 * p + 2 * q + 162 * OutPkt /\ 2 * ratio * SrcPkt = 2 * q
  BY Rate, Sizes DEF MaxWeight
<1> HIDE DEF p, q
<1>4. Window + Bank <= Size
  BY <1>1, <1>2, Sizes
<1>5. MaxWeight(ratio) + 2 * ratio * SrcPkt <= 20 * Size
  BY <1>1, <1>2, <1>3, Sizes
<1>6. QED
  BY <1>4, <1>5

(* A weight is at least what the rings hold, grows with what the first one *)
(* holds, and is at most MaxWeight when a bank has been read.              *)
LEMMA WeightBounds ==
  ASSUME NEW rate \in Nat, rate >= 10, NEW second \in Nat, NEW first \in Nat, NEW g \in 0 .. 9,
         NEW c \in 0 .. 2
  PROVE  /\ Weight(rate, second, first, g, c) \in Nat
         /\ 20 * second <= Weight(rate, second, first, g, c)
<1> DEFINE x == (rate - 10) % 10
<1>1. x \in 0 .. 9
  OBVIOUS
<1>2. Weight(rate, second, first, g, c)
        = 20 * second + 3 * rate * first + 2 * OutPkt * x * g + c * rate * SrcPkt
  BY DEF Weight
<1> HIDE DEF x
<1>3. 3 * rate * first \in Nat /\ 2 * OutPkt * x * g \in Nat /\ c * rate * SrcPkt \in Nat
  BY <1>1, Sizes
<1>4. QED
  BY <1>2, <1>3

LEMMA WeightRead ==
  ASSUME NEW rate \in Nat, rate >= 10, NEW second \in 0 .. Bank, NEW first \in 0 .. Bank + Window,
         NEW g \in 0 .. 9, NEW c \in 0 .. 2
  PROVE  Weight(rate, second, first, g, c) <= MaxWeight(rate)
<1> DEFINE x == (rate - 10) % 10
<1>1. x \in 0 .. 9
  OBVIOUS
<1>2. Weight(rate, second, first, g, c)
        = 20 * second + 3 * rate * first + 2 * OutPkt * x * g + c * rate * SrcPkt
  BY DEF Weight
<1> HIDE DEF x
<1>3. 3 * rate * first <= 3 * rate * (Bank + Window)
  BY Sizes
<1>4. 2 * OutPkt * x * g <= 162 * OutPkt
  <2>1. x * g \in Nat /\ x * g <= 81
    BY <1>1
  <2>2. 2 * OutPkt * (x * g) <= 2 * OutPkt * 81
    BY <2>1, Sizes
  <2>3. QED
    BY <1>1, <2>2, Sizes
<1>5. c * rate * SrcPkt <= 2 * rate * SrcPkt
  <2>1. rate * SrcPkt \in Nat
    BY Sizes
  <2>2. c * (rate * SrcPkt) <= 2 * (rate * SrcPkt)
    BY <2>1
  <2>3. QED
    BY <2>2, Sizes
<1>6. /\ 3 * rate * first \in Int /\ 3 * rate * (Bank + Window) \in Int
      /\ 2 * OutPkt * x * g \in Int /\ c * rate * SrcPkt \in Int /\ 2 * rate * SrcPkt \in Int
  BY <1>1, Sizes
<1>7. QED
  BY <1>2, <1>3, <1>4, <1>5, <1>6, Sizes DEF MaxWeight

(* What is skipped without being moved makes up for two packets to come.   *)
LEMMA WeightSkipped ==
  ASSUME NEW rate \in Nat, rate >= 10, NEW second \in Nat, NEW first \in Nat, NEW n \in 0 .. first,
         NEW g \in 0 .. 9, NEW c \in 0 .. 2, c = 0 \/ n >= SrcPkt
  PROVE  Weight(rate, second, first - n, g, c) <= Weight(rate, second, first, g, 0)
<1> DEFINE x == (rate - 10) % 10
           u == 2 * OutPkt * x * g
<1>1. u \in Int
  BY Sizes
<1>2. /\ Weight(rate, second, first - n, g, c)
           = 20 * second + 3 * rate * (first - n) + u + c * rate * SrcPkt
      /\ Weight(rate, second, first, g, 0)
           = 20 * second + 3 * rate * first + u + 0 * rate * SrcPkt
  BY DEF Weight
<1> HIDE DEF x, u
<1>3. 3 * rate * (first - n) = 3 * rate * first - 3 * (rate * n)
  OBVIOUS
<1>4. c * rate * SrcPkt <= 3 * (rate * n)
  <2>1. CASE c = 0
    <3>1. 0 * rate * SrcPkt = 0 /\ rate * n \in Nat
      BY Sizes
    <3>2. QED
      BY <2>1, <3>1
  <2>2. CASE n >= SrcPkt
    <3>1. rate * SrcPkt \in Nat /\ rate * n \in Nat /\ rate * SrcPkt <= rate * n
      BY <2>2, Sizes
    <3>2. c * rate * SrcPkt = c * (rate * SrcPkt) /\ c * (rate * SrcPkt) <= 2 * (rate * SrcPkt)
      BY <3>1, Sizes
    <3>3. QED
      BY <3>1, <3>2
  <2>3. QED
    BY <2>1, <2>2
<1>5. /\ 3 * rate * first \in Int /\ c * rate * SrcPkt \in Int /\ 3 * (rate * n) \in Int
      /\ 0 * rate * SrcPkt = 0
  BY Sizes
<1>6. QED
  BY <1>1, <1>2, <1>3, <1>4, <1>5

(* A packet that is moved with its null packets weighs no more than before,*)
(* if another can follow it or it was the third since the last search.     *)
LEMMA WeightMoved ==
  ASSUME NEW rate \in Nat, rate >= 10, NEW second \in Nat, NEW first \in Nat, NEW first2 \in Nat,
         NEW g \in 0 .. 9, NEW c \in 0 .. 2, NEW c2 \in 0 .. 2, NEW nulls \in Nat,
         10 * (1 + nulls) =
           (rate - ((rate - 10) % 10)) + (IF g = 9 THEN 10 * ((rate - 10) % 10) ELSE 0),
         \/ first2 = first - SrcPkt /\ c2 <= c + 1
         \/ first2 = first /\ c = 2 /\ c2 = 0
  PROVE  Weight(rate, second + OutPkt * (1 + nulls), first2, (g + 1) % 10, c2)
           <= Weight(rate, second, first, g, c)
<1> DEFINE x == (rate - 10) % 10
           y == OutPkt * x
           p == rate * SrcPkt
           o == rate * OutPkt
           h == (g + 1) % 10
           new == OutPkt * (1 + nulls)
<1>1. x \in 0 .. 9
  OBVIOUS
<1>2. p \in Nat /\ o \in Nat /\ o <= p /\ y \in Nat /\ new \in Nat
  BY <1>1, Sizes
<1>3. h = (IF g = 9 THEN 0 ELSE g + 1)
  OBVIOUS
<1>4. /\ Weight(rate, second + new, first2, h, c2)
           = 20 * (second + new) + 3 * rate * first2 + 2 * OutPkt * x * h + c2 * rate * SrcPkt
      /\ Weight(rate, second, first, g, c)
           = 20 * second + 3 * rate * first + 2 * OutPkt * x * g + c * rate * SrcPkt
  BY DEF Weight
<1>5. 10 * (1 + nulls) = (rate - x) + (IF g = 9 THEN 10 * x ELSE 0)
  OBVIOUS
<1> HIDE DEF x, h, new
<1>6. 10 * new = (o - y) + (IF g = 9 THEN 10 * y ELSE 0)
  <2>1. 10 * new = OutPkt * (10 * (1 + nulls))
    BY Sizes DEF new
  <2>2. OutPkt * (rate - x) = o - y /\ OutPkt * ((rate - x) + 10 * x) = (o - y) + 10 * y
    BY <1>1, Sizes
  <2>3. QED
    BY <1>1, <1>2, <1>5, <2>1, <2>2, Sizes
<1>7. 2 * OutPkt * x * h = 2 * (y * h) /\ 2 * OutPkt * x * g = 2 * (y * g)
  BY <1>1, <1>3, Sizes
<1>8. c2 * rate * SrcPkt = c2 * p /\ c * rate * SrcPkt = c * p
  BY Sizes
<1>9. 20 * new + 2 * (y * h) = 2 * o + 2 * (y * g)
  <2>1. CASE g = 9
    BY <1>2, <1>3, <1>6, <2>1
  <2>2. CASE g # 9
    <3>1. y * h = y * g + y
      BY <1>1, <1>3, <2>2, Sizes
    <3>2. y * h \in Int /\ y * g \in Int /\ 10 * new = o - y
      BY <1>2, <1>3, <1>6, <2>2
    <3> HIDE DEF y, o
    <3>3. QED
      BY <1>2, <3>1, <3>2
  <2>3. QED
    BY <2>1, <2>2
<1>10. 3 * rate * first2 + c2 * p + 2 * o <= 3 * rate * first + c * p
  <2>1. CASE first2 = first - SrcPkt /\ c2 <= c + 1
    <3>1. 3 * rate * first2 = 3 * rate * first - 3 * p
      BY <2>1, Sizes
    <3>2. c2 * p <= c * p + p
      BY <1>2, <2>1
    <3>3. 3 * rate * first \in Int /\ c2 * p \in Int /\ c * p \in Int
      BY <1>2
    <3> HIDE DEF p, o
    <3>4. QED
      BY <1>2, <3>1, <3>2, <3>3
  <2>2. CASE first2 = first /\ c = 2 /\ c2 = 0
    <3>1. c2 * p = 0 /\ c * p = 2 * p /\ 3 * rate * first \in Int
      BY <1>2, <2>2
    <3> HIDE DEF p, o
    <3>2. QED
      BY <1>2, <2>2, <3>1
  <2>3. QED
    BY <2>1, <2>2
<1>11. /\ 3 * rate * first2 \in Int /\ 3 * rate * first \in Int /\ c2 * p \in Int /\ c * p \in Int
       /\ y * h \in Int /\ y * g \in Int
  BY <1>2, <1>3
<1> HIDE DEF p, o, y
<1>12. Weight(rate, second + new, first2, h, c2) <= Weight(rate, second, first, g, c)
  BY <1>2, <1>4, <1>7, <1>8, <1>9, <1>10, <1>11
<1>13. QED
  BY <1>12 DEF new, h

-----------------------------------------------------------------------------
(* Places less than a ring apart are different.                            *)
LEMMA Apart ==
  ASSUME NEW a \in Int, NEW i \in Int, NEW j \in Int, i < j, j < i + Size
  PROVE  (a + i) % Size # (a + j) % Size
<1> DEFINE r == (a + i) % Size
           p == (a + i) \div Size
           q == (a + j) \div Size
<1>1. Size \in Nat \ {0}
  BY Sizes
<1>2. SUFFICES ASSUME (a + j) % Size = r PROVE FALSE
  OBVIOUS
<1>3. a + i = Size * p + r /\ p \in Int /\ r \in Int
  BY <1>1, ModOf
<1>4. a + j = Size * q + r /\ q \in Int
  <2>1. a + j = Size * q + ((a + j) % Size)
    BY <1>1, ModOf
  <2>2. QED
    BY <1>1, <1>2, <2>1
<1> HIDE DEF r, p, q
<1>5. j - i = Size * (q - p) /\ q - p \in Int
  BY <1>1, <1>3, <1>4
<1>6. q - p >= 1 \/ q - p <= 0
  BY <1>5
<1>7. CASE q - p >= 1
  BY <1>1, <1>5, <1>7
<1>8. CASE q - p <= 0
  BY <1>1, <1>5, <1>8
<1>9. QED
  BY <1>6, <1>7, <1>8

(* Reading a bank keeps the bytes that are still to be moved, and what the *)
(* bank replaces is not what was moved.                                    *)
LEMMA ReadKeeps ==
  ASSUME BaseInv, NEW o \in Nat, Fread(o), TL_nBCount + Bank <= Size, UNCHANGED TL_nRIndex,
         NEW i \in 0 .. TL_nBCount - 1, Sync(i)
  PROVE  Sync(i)'
<1> DEFINE n == BytesFrom(o)
<1>1. n \in 0 .. Bank
  BY FilePlayAssumption, Sizes DEF BaseInv, ShapeInv, BytesFrom, Least
<1>2. /\ TL_nRIndex \in Int /\ TL_nBCount \in Nat /\ Size \in Nat \ {0} /\ Bank \in Nat
      /\ TL_nRIndex + TL_nBCount \in Int
  BY Sizes DEF BaseInv, ShapeInv, Places
<1>3. ASSUME (TL_nRIndex + i) % Size \in Span(TL_nWIndex, n) PROVE FALSE
  <2>1. PICK k \in 0 .. n - 1 : (TL_nRIndex + i) % Size = (TL_nWIndex + k) % Size
    BY <1>3 DEF Span
  <2>2. k \in Int /\ k >= 0 /\ k < Bank
    BY <1>1, <2>1, Sizes
  <2>3. (((TL_nRIndex + TL_nBCount) % Size) + k) % Size = ((TL_nRIndex + TL_nBCount) + k) % Size
    BY <1>2, <2>2, ModAdd
  <2>4. (TL_nRIndex + TL_nBCount) + k = TL_nRIndex + (TL_nBCount + k)
    BY <1>2, <2>2
  <2>5. (TL_nWIndex + k) % Size = (TL_nRIndex + (TL_nBCount + k)) % Size
    BY <2>3, <2>4 DEF BaseInv, Consistent
  <2>6. i < TL_nBCount + k /\ TL_nBCount + k < i + Size /\ TL_nBCount + k \in Int /\ i \in Int
    BY <1>2, <2>2
  <2>7. (TL_nRIndex + i) % Size # (TL_nRIndex + (TL_nBCount + k)) % Size
    BY <1>2, <2>6, Apart
  <2>8. QED
    BY <2>1, <2>5, <2>7
<1>4. syncs \ Span(TL_nWIndex, n) \subseteq syncs'
  BY DEF Fread
<1>5. (TL_nRIndex' + i) % Size \in syncs'
  BY <1>3, <1>4 DEF Sync
<1>6. QED
  BY <1>5 DEF Sync

LEMMA AheadKept ==
  ASSUME BaseInv, UNCHANGED <<TL_nRIndex, blind>>, TL_nBCount' \in Nat, TL_nBCount' >= TL_nBCount,
         \A i \in 0 .. TL_nBCount - 1 : Sync(i) => Sync(i)',
         NEW c \in 0 .. 2, Ahead(c)
  PROVE  Ahead(c)'
<1>1. TL_nBCount \in Nat
  BY DEF BaseInv, ShapeInv
<1>2. CASE blind /\ c = 2
  BY <1>2 DEF Ahead
<1>3. CASE ~(blind /\ c = 2)
  <2>1. Sync(0)' /\ TL_nBCount' > 0
    BY <1>1, <1>3 DEF Ahead
  <2>2. c <= 1 => Sync(SrcPkt)' /\ TL_nBCount' > SrcPkt
    BY <1>1, Sizes DEF Ahead
  <2>3. c = 0 => Sync(2 * SrcPkt)' /\ TL_nBCount' > 2 * SrcPkt
    BY <1>1, Sizes DEF Ahead
  <2>4. QED
    BY <2>1, <2>2, <2>3 DEF Ahead
<1>4. QED
  BY <1>2, <1>3

LEMMA NewBankNotTaken ==
  ASSUME BaseInv, CountBank,
         \A k \in 0 .. TL_nBCount - 1 : (TL_nRIndex + k) % Size \notin taken,
         NEW k \in 0 .. TL_nBCount' - 1
  PROVE  (TL_nRIndex' + k) % Size \notin taken'
<1>1. /\ TL_nRIndex \in Int /\ TL_nBCount \in Nat /\ Size \in Nat \ {0} /\ Bank \in Nat
      /\ TL_nRIndex + TL_nBCount \in Int
  BY Sizes DEF BaseInv, ShapeInv, Places
<1>2. TL_nBCount' = TL_nBCount + Bank /\ TL_nRIndex' = TL_nRIndex
      /\ taken' = taken \ Span(TL_nWIndex, Bank)
  BY DEF CountBank
<1>3. CASE k < TL_nBCount
  <2>1. k \in 0 .. TL_nBCount - 1
    BY <1>1, <1>2, <1>3
  <2>2. (TL_nRIndex + k) % Size \notin taken
    BY <2>1
  <2>3. QED
    BY <1>2, <2>2
<1>4. CASE k >= TL_nBCount
  <2> DEFINE j == k - TL_nBCount
  <2>1. j \in 0 .. Bank - 1 /\ j \in Int /\ (TL_nRIndex + TL_nBCount) + j = TL_nRIndex + k
    BY <1>1, <1>2, <1>4
  <2>2. (((TL_nRIndex + TL_nBCount) % Size) + j) % Size = ((TL_nRIndex + TL_nBCount) + j) % Size
    BY <1>1, <2>1, ModAdd
  <2>3. (TL_nWIndex + j) % Size = (TL_nRIndex + k) % Size
    BY <2>1, <2>2 DEF BaseInv, Consistent
  <2>4. (TL_nRIndex + k) % Size \in Span(TL_nWIndex, Bank)
    BY <2>1, <2>3 DEF Span
  <2>5. QED
    BY <1>2, <2>4
<1>5. QED
  BY <1>1, <1>2, <1>3, <1>4

(* A turn reads while the first ring holds less than a window and the      *)
(* second no more than a bank.                                             *)
LEMMA RoomyRead ==
  ASSUME BaseInv, Roomy, RoomyInv, pc = "turn", TL_nBufferCnt <= Bank,
         NEW o \in Nat, Fread(o), CountBank, NEW l, TL_dwBytesRead' # 0,
         pc' = Leave(EnterFindSync(TL_nBCount', TL_dwBytesRead'), l),
         UNCHANGED <<ratio, TL_nFindSync, blind, TL_nBufferCnt>>, gTotalReadPacket' \in 0 .. 9
  PROVE  RoomyInv'
<1>1. TL_nBCount \in Nat /\ TL_nBufferCnt \in Nat /\ Bank \in Nat /\ ratio \in Nat /\ ratio >= 10
      /\ Window \in Nat
  BY Rate, Sizes DEF BaseInv, ShapeInv
<1>2. TL_nBCount <= Window
  BY DEF RoomyInv, LoadInv
<1>3. TL_nBCount' = TL_nBCount + Bank /\ TL_nBCount' \in Nat /\ TL_nRIndex' = TL_nRIndex
  BY <1>1 DEF CountBank
<1>4. TL_nBCount + Bank <= Size
  BY <1>1, <1>2, RoomMeans, Sizes DEF BaseInv, ShapeInv
<1>5. LoadInv'
  <2>1. TL_nBCount' <= Bank + Window
    BY <1>1, <1>2, <1>3
  <2>2. TL_nBufferCnt' <= Size
    BY <1>1, Sizes
  <2>3. pc' \in {"turn", "fill"} => TL_nBCount' <= Window
    BY <1>3, Entered
  <2>4. QED
    BY <2>1, <2>2, <2>3 DEF LoadInv, Window
<1>6. SyncInv'
  <2>1. PICK c \in 0 .. 2 : IF TL_nFindSync THEN c = 0 ELSE Ahead(c)
    BY DEF RoomyInv, SyncInv
  <2>2. Ahead(c) => Ahead(c)'
    BY <1>1, <1>3, <1>4, ReadKeeps, AheadKept
  <2>3. TL_nBufferCnt \in 0 .. Bank /\ TL_nBCount' \in 0 .. Bank + Window
    BY <1>1, <1>2, <1>3
  <2>4. Weight(ratio, TL_nBufferCnt, TL_nBCount', gTotalReadPacket', c) <= MaxWeight(ratio)
    BY <1>1, <2>3, WeightRead
  <2>5. Weight(ratio', TL_nBufferCnt', TL_nBCount', gTotalReadPacket', c) <= MaxWeight(ratio')
    BY <2>4
  <2>6. IF TL_nFindSync' THEN c = 0 ELSE Ahead(c)'
    BY <2>1, <2>2
  <2>7. QED
    BY <2>5, <2>6 DEF SyncInv
<1>7. TakenInv'
  <2>1. \A k \in 0 .. TL_nBCount - 1 : (TL_nRIndex + k) % Size \notin taken
    BY DEF RoomyInv, TakenInv
  <2>2. ASSUME NEW k \in 0 .. TL_nBCount' - 1 PROVE (TL_nRIndex' + k) % Size \notin taken'
    BY <2>1, NewBankNotTaken
  <2>3. QED
    BY <2>2 DEF TakenInv
<1>8. QED
  BY <1>5, <1>6, <1>7 DEF RoomyInv

(* Or it reads a first bank that is not counted, or nothing, or not at all.*)
LEMMA RoomyReadAgain ==
  ASSUME BaseInv, Roomy, RoomyInv, pc = "turn", pc' \in {"turn", "fill"},
         (\E o \in Nat : Fread(o)) \/ UNCHANGED syncs,
         UNCHANGED <<ratio, TL_nFindSync, blind, taken, TL_nRIndex, TL_nBCount, TL_nBufferCnt>>
  PROVE  RoomyInv'
<1>1. TL_nBCount \in Nat /\ TL_nBCount <= Window /\ TL_nBCount + Bank <= Size
  BY RoomMeans, Sizes DEF BaseInv, ShapeInv, RoomyInv, LoadInv
<1>2. LoadInv'
  BY <1>1, Sizes DEF RoomyInv, LoadInv, Window
<1>3. \A i \in 0 .. TL_nBCount - 1 : Sync(i) => Sync(i)'
  <2>1. ASSUME NEW o \in Nat, Fread(o), NEW i \in 0 .. TL_nBCount - 1, Sync(i) PROVE Sync(i)'
    BY <1>1, <2>1, ReadKeeps
  <2>2. ASSUME UNCHANGED syncs, NEW i \in 0 .. TL_nBCount - 1, Sync(i) PROVE Sync(i)'
    BY <2>2 DEF Sync
  <2>3. QED
    BY <2>1, <2>2
<1>4. PICK c \in 0 .. 2 : IF TL_nFindSync THEN c = 0 ELSE Ahead(c)
  BY DEF RoomyInv, SyncInv
<1>5. Ahead(c) => Ahead(c)'
  BY <1>1, <1>3, AheadKept
<1>6. SyncInv'
  BY <1>4, <1>5 DEF SyncInv
<1>7. \A k \in 0 .. TL_nBCount - 1 : (TL_nRIndex + k) % Size \notin taken
  BY DEF RoomyInv, TakenInv
<1>8. TakenInv'
  BY <1>7 DEF TakenInv
<1>9. QED
  BY <1>2, <1>6, <1>8 DEF RoomyInv

LEMMA RoomyFirstRead ==
  ASSUME BaseInv, Roomy, RoomyInv, FirstRead
  PROVE  RoomyInv'
<1>1. pc = "turn" /\ TL_gFirstRead /\ Fread(0)
      /\ UNCHANGED <<ratio, TL_nFindSync, blind, TL_nBufferCnt>>
  BY DEF FirstRead, choice, lock
<1>2. TL_nBufferCnt <= Bank
  BY <1>1 DEF BaseInv, FlowInv
<1>3. CASE TL_gNumLoop = 0 /\ ~Lockable(syncs')
  <2>1. UNCHANGED <<taken, TL_nRIndex, TL_nBCount, pc>>
    BY <1>3 DEF FirstRead
  <2>2. QED
    BY <1>1, <2>1, RoomyReadAgain
<1>4. CASE ~(TL_gNumLoop = 0 /\ ~Lockable(syncs'))
  <2>1. CountBank /\ gTotalReadPacket' = 0
    BY <1>4 DEF FirstRead
  <2>2. pc' = Leave(EnterFindSync(TL_nBCount', TL_dwBytesRead'), TRUE)
    BY <1>4 DEF FirstRead
  <2>3. file.len # 0
    BY <1>1, <1>4, NotBegun DEF BaseInv
  <2>4. TL_dwBytesRead' # 0
    BY <1>1, <2>3, ReadNothing, FilePlayAssumption DEF BaseInv, ShapeInv
  <2>5. QED
    BY <1>1, <1>2, <2>1, <2>2, <2>4, RoomyRead, 0 \in 0 .. 9
<1>5. QED
  BY <1>3, <1>4

LEMMA RoomyTurn ==
  ASSUME BaseInv, HandleInv, Roomy, RoomyInv, Turn
  PROVE  RoomyInv'
<1> DEFINE from == IF seek = NoSeek THEN pos ELSE seek
<1>1. pc = "turn" /\ UNCHANGED <<ratio, TL_nFindSync, blind, TL_nBufferCnt, gTotalReadPacket>>
  BY DEF Turn, choice, out, lock
<1>2. from \in Nat
  BY DEF HandleInv
<1>3. ASSUME pc' = "fill", UNCHANGED ring PROVE RoomyInv'
  <2>1. UNCHANGED <<syncs, taken, TL_nRIndex, TL_nBCount>>
    BY <1>3 DEF ring
  <2>2. QED
    BY <1>1, <1>3, <2>1, RoomyReadAgain
<1>4. ASSUME TL_nBufferCnt <= Bank, Fread(from),
             IF TL_dwBytesRead' > 0
             THEN CountBank
             ELSE UNCHANGED <<taken, TL_nRIndex, TL_nWIndex, TL_nBCount>>,
             pc' = Leave(EnterFindSync(TL_nBCount', TL_dwBytesRead'), FALSE)
      PROVE  RoomyInv'
  <2>1. TL_dwBytesRead' \in 0 .. Bank
    BY <1>2, <1>4, ReadNothing DEF BaseInv, ShapeInv
  <2>2. CASE TL_dwBytesRead' > 0
    <3>1. CountBank /\ TL_dwBytesRead' # 0 /\ gTotalReadPacket' \in 0 .. 9
      BY <1>1, <1>4, <2>2 DEF BaseInv, ShapeInv
    <3>2. QED
      BY <1>1, <1>2, <1>4, <3>1, RoomyRead
  <2>3. CASE TL_dwBytesRead' = 0
    <3>1. UNCHANGED <<taken, TL_nRIndex, TL_nBCount>>
      BY <1>4, <2>3
    <3>2. pc' = "fill"
      BY <1>4, <2>3 DEF EnterFindSync, Leave
    <3>3. QED
      BY <1>1, <1>2, <1>4, <3>1, <3>2, RoomyReadAgain
  <2>4. QED
    BY <2>1, <2>2, <2>3, Sizes
<1>5. QED
  BY <1>3, <1>4 DEF Turn

LEMMA RoomySearch ==
  ASSUME BaseInv, Roomy, RoomyInv, Search
  PROVE  RoomyInv'
<1>1. pc = "search" /\ UNCHANGED <<ratio, syncs, taken, TL_nBufferCnt, gTotalReadPacket>>
  BY DEF Search, choice, out
<1>2. TL_nFindSync /\ TL_nBCount > Window /\ TL_nBCount \in Nat /\ TL_nBufferCnt \in Nat
      /\ gTotalReadPacket \in 0 .. 9 /\ TL_nRIndex \in Int /\ ratio \in Nat /\ ratio >= 10
  BY <1>1, Rate DEF BaseInv, FlowInv, ShapeInv, Places
<1>3. PICK n \in 0 .. Window : Looked(n, TL_nFindSync', blind', pc')
  BY SearchSkips
<1>4. n \in 0 .. Size /\ n <= TL_nBCount /\ n \in Int /\ Skip(n)
  BY <1>2, <1>3, Sizes DEF Looked
<1>5. TL_nBCount' = TL_nBCount - n
  BY <1>4, Skipped DEF BaseInv
<1>6. ASSUME NEW k \in Int PROVE (TL_nRIndex' + k) % Size = (TL_nRIndex + (n + k)) % Size
  BY <1>4, Skipped DEF BaseInv
<1>7. ASSUME NEW k \in Int PROVE Sync(k)' <=> Sync(n + k)
  BY <1>1, <1>6 DEF Sync
<1>8. LoadInv'
  <2>1. TL_nBCount' <= Bank + Window /\ TL_nBufferCnt' <= Size
    BY <1>1, <1>2, <1>4, <1>5, Sizes DEF RoomyInv, LoadInv
  <2>2. pc' \in {"turn", "fill"} => ~(TL_nBCount' > Window)
    BY <1>3 DEF Looked
  <2>3. TL_nBCount' \in Int
    BY <1>2, <1>4, <1>5
  <2>4. pc' \in {"turn", "fill"} => TL_nBCount' <= Window
    BY <2>2, <2>3, Sizes
  <2>5. QED
    BY <2>1, <2>4 DEF LoadInv, Window
<1>9. SyncInv'
  <2>1. Weight(ratio, TL_nBufferCnt, TL_nBCount, gTotalReadPacket, 0) <= MaxWeight(ratio)
    BY <1>1, <1>2 DEF RoomyInv, SyncInv
  <2>2. n \in 0 .. TL_nBCount
    BY <1>2, <1>4
  <2>3. ASSUME NEW c \in 0 .. 2, c = 0 \/ n >= SrcPkt
        PROVE  Weight(ratio', TL_nBufferCnt', TL_nBCount', gTotalReadPacket', c) <= MaxWeight(ratio')
    <3> DEFINE new == Weight(ratio, TL_nBufferCnt, TL_nBCount - n, gTotalReadPacket, c)
               old == Weight(ratio, TL_nBufferCnt, TL_nBCount, gTotalReadPacket, 0)
    <3>1. new <= old
      BY <1>2, <2>2, <2>3, WeightSkipped
    <3>2. TL_nBCount - n \in Nat
      BY <1>2, <2>2
    <3>3. new \in Nat /\ old \in Nat
      <4>1. new \in Nat
        BY <1>2, <3>2, WeightBounds
      <4>2. old \in Nat
        BY <1>2, WeightBounds, 0 \in 0 .. 2
      <4>3. QED
        BY <4>1, <4>2
    <3>4. MaxWeight(ratio) \in Int
      BY <1>2, Sizes DEF MaxWeight
    <3> HIDE DEF new, old
    <3>5. new <= MaxWeight(ratio)
      BY <2>1, <3>1, <3>3, <3>4 DEF old
    <3>6. QED
      BY <1>1, <1>5, <3>5 DEF new
  <2>4. CASE Whole(n) /\ TL_nFindSync' = FALSE
    <3>1. ~TL_nFindSync'
      BY <2>4
    <3>2. n + 0 = n /\ TL_nBCount' > 2 * SrcPkt /\ TL_nBCount' \in Int
      BY <1>2, <1>4, <1>5, <2>4, Sizes DEF Whole
    <3>3. Sync(0)' /\ Sync(SrcPkt)' /\ Sync(2 * SrcPkt)'
      <4>1. SrcPkt \in Int /\ 2 * SrcPkt \in Int /\ 0 \in Int
        BY Sizes
      <4>2. QED
        BY <1>7, <2>4, <3>2, <4>1 DEF Whole
    <3>4. Ahead(0)'
      BY <3>2, <3>3, Sizes DEF Ahead
    <3>5. QED
      BY <2>3, <3>4, <3>1 DEF SyncInv
  <2>5. CASE Cut(n) /\ TL_nFindSync' = FALSE
    <3>1. n >= SrcPkt /\ n + 0 = n /\ TL_nBCount' > 0
      BY <1>2, <1>4, <1>5, <2>5, Sizes DEF Cut
    <3>2. Sync(0)'
      BY <1>7, <2>5, <3>1 DEF Cut
    <3>3. Ahead(2)'
      BY <3>1, <3>2 DEF Ahead
    <3>4. ~TL_nFindSync'
      BY <2>5
    <3>5. QED
      BY <2>3, <3>1, <3>3, <3>4 DEF SyncInv
  <2>6. CASE n = Window \div 2 /\ TL_nFindSync' = FALSE /\ blind' = TRUE
    <3>1. n >= SrcPkt
      BY <2>6, Sizes
    <3>2. Ahead(2)' /\ ~TL_nFindSync'
      BY <2>6 DEF Ahead
    <3>3. QED
      BY <2>3, <3>1, <3>2 DEF SyncInv
  <2>7. CASE TL_nFindSync' = TRUE
    BY <2>3, <2>7 DEF SyncInv
  <2>8. QED
    BY <1>3, <2>4, <2>5, <2>6, <2>7 DEF Looked
<1>10. TakenInv'
  <2> SUFFICES ASSUME NEW k \in 0 .. TL_nBCount' - 1, (TL_nRIndex' + k) % Size \in taken'
               PROVE  FALSE
    BY DEF TakenInv
  <2>1. k \in Int /\ n + k \in 0 .. TL_nBCount - 1 /\ k >= 0 /\ n >= 0
    BY <1>2, <1>4, <1>5
  <2>2. (TL_nRIndex + (n + k)) % Size \in taken
    BY <1>1, <1>6, <2>1
  <2>3. n + k = 0 /\ ~Sync(SrcPkt)
    BY <2>1, <2>2 DEF RoomyInv, TakenInv
  <2>4. n = 0
    BY <1>4, <2>1, <2>3
  <2>5. ~Whole(n)
    <3>1. 0 + SrcPkt = SrcPkt
      BY Sizes
    <3>2. QED
      BY <2>3, <2>4, <3>1 DEF Whole
  <2>6. ~Cut(n) /\ n # Window \div 2
    BY <2>4, Sizes DEF Cut
  <2>7. QED
    BY <1>3, <2>5, <2>6 DEF Looked
<1>11. QED
  BY <1>8, <1>9, <1>10 DEF RoomyInv

LEMMA MoveFacts ==
  ASSUME BaseInv, Roomy, RoomyInv, Move
  PROVE  /\ pc = "move" /\ ~TL_nFindSync /\ TL_nBCount > Window
         /\ TL_nBCount <= Size /\ TL_nBCount \in Nat /\ TL_nRIndex \in Places
         /\ ratio' = ratio /\ syncs' = syncs /\ taken' = taken \cup {TL_nRIndex}
         /\ TL_nBufferCnt' = TL_nBufferCnt + OutPkt * (1 + Nulls(gTotalReadPacket + 1))
         /\ gTotalReadPacket' = (gTotalReadPacket + 1) % 10
         /\ (TL_nRIndex + 0) % Size = TL_nRIndex
<1>1. pc = "move" /\ TL_nBCount > Window /\ ratio' = ratio /\ syncs' = syncs
      /\ taken' = taken \cup {TL_nRIndex}
  BY DEF Move, choice
<1>2. TL_nBufferCnt' = TL_nBufferCnt + OutPkt * (1 + Nulls(gTotalReadPacket + 1))
      /\ gTotalReadPacket' = (gTotalReadPacket + 1) % 10
  BY DEF Move, Queue
<1>3. ~TL_nFindSync /\ TL_nBCount \in Nat /\ TL_nRIndex \in Places
  BY <1>1 DEF BaseInv, FlowInv, ShapeInv
<1>4. TL_nBCount <= Size
  BY <1>3, RoomMeans, Sizes DEF RoomyInv, LoadInv, BaseInv, ShapeInv
<1>5. (TL_nRIndex + 0) % Size = TL_nRIndex
  <2>1. TL_nRIndex \in 0 .. Size - 1 /\ TL_nRIndex \in Int /\ Size \in Nat \ {0}
    BY <1>3, Sizes DEF Places
  <2>2. (Size * 0 + TL_nRIndex) % Size = TL_nRIndex
    BY <2>1, ModUnique
  <2>3. Size * 0 + TL_nRIndex = TL_nRIndex + 0
    BY <2>1
  <2>4. QED
    BY <2>2, <2>3
<1>6. QED
  BY <1>1, <1>2, <1>3, <1>4, <1>5

(* What remains of the first ring after a packet was moved is not taken.   *)
LEMMA MoveTakes ==
  ASSUME BaseInv, Roomy, RoomyInv, Move, NEW i \in 1 .. TL_nBCount - 1
  PROVE  (TL_nRIndex + i) % Size \notin taken'
<1>1. (TL_nRIndex + 0) % Size # (TL_nRIndex + i) % Size
  <2>1. TL_nRIndex \in Int /\ 0 \in Int /\ i \in Int /\ 0 < i /\ i < 0 + Size
    BY MoveFacts, Sizes DEF Places
  <2>2. QED
    BY <2>1, Apart
<1>2. i \in 0 .. TL_nBCount - 1
  BY MoveFacts
<1>3. (TL_nRIndex + i) % Size \notin taken
  BY <1>2, MoveFacts DEF RoomyInv, TakenInv
<1>4. QED
  BY <1>1, <1>3, MoveFacts

LEMMA RoomyMove ==
  ASSUME BaseInv, Roomy, RoomyInv, Move
  PROVE  RoomyInv'
<1> DEFINE nulls == Nulls(gTotalReadPacket + 1)
<1>1. pc = "move" /\ ~TL_nFindSync /\ TL_nBCount > Window /\ TL_nBCount <= Size /\ TL_nBCount \in Nat
      /\ ratio' = ratio /\ syncs' = syncs /\ TL_nBufferCnt' = TL_nBufferCnt + OutPkt * (1 + nulls)
      /\ gTotalReadPacket' = (gTotalReadPacket + 1) % 10
  BY MoveFacts
<1>2. /\ ratio \in Nat /\ ratio >= 10 /\ TL_nBufferCnt \in Nat /\ gTotalReadPacket \in 0 .. 9
      /\ nulls \in Nat /\ ratio \in Ratios /\ TL_nRIndex \in Int
      /\ 10 * (1 + nulls) = (ratio - ((ratio - 10) % 10))
           + (IF gTotalReadPacket = 9 THEN 10 * ((ratio - 10) % 10) ELSE 0)
  <2>1. ratio \in Ratios /\ gTotalReadPacket \in 0 .. 9 /\ TL_nBufferCnt \in Nat /\ TL_nRIndex \in Int
    BY Sizes DEF BaseInv, ShapeInv, Places
  <2>2. ratio \in Nat /\ ratio >= 10
    BY <2>1, Rate
  <2>3. /\ nulls \in Nat
        /\ 10 * (1 + nulls) = (ratio - ((ratio - 10) % 10))
             + (IF gTotalReadPacket = 9 THEN 10 * ((ratio - 10) % 10) ELSE 0)
    BY <2>1, NullsAreNat
  <2>4. QED
    BY <2>1, <2>2, <2>3
<1> HIDE DEF nulls
<1>3. PICK c \in 0 .. 2 :
        /\ Ahead(c)
        /\ Weight(ratio, TL_nBufferCnt, TL_nBCount, gTotalReadPacket, c) <= MaxWeight(ratio)
  BY <1>1 DEF RoomyInv, SyncInv
<1> DEFINE old == Weight(ratio, TL_nBufferCnt, TL_nBCount, gTotalReadPacket, c)
<1>4. OutPkt * (1 + nulls) \in Nat /\ (gTotalReadPacket + 1) % 10 \in 0 .. 9
  BY <1>2, Sizes
<1>5. ASSUME NEW first \in Nat, NEW c2 \in 0 .. 2,
             \/ first = TL_nBCount - SrcPkt /\ c2 <= c + 1
             \/ first = TL_nBCount /\ c = 2 /\ c2 = 0
      PROVE  Weight(ratio, TL_nBufferCnt', first, gTotalReadPacket', c2) <= MaxWeight(ratio)
             /\ TL_nBufferCnt' <= Size
  <2> DEFINE second == TL_nBufferCnt + OutPkt * (1 + nulls)
             new == Weight(ratio, second, first, (gTotalReadPacket + 1) % 10, c2)
  <2>1. new <= old
    BY <1>1, <1>2, <1>5, WeightMoved
  <2>2. second \in Nat
    BY <1>2, <1>4
  <2>3. new \in Nat /\ 20 * second <= new
    BY <1>2, <1>4, <2>2, WeightBounds
  <2>4. old \in Nat
    BY <1>1, <1>2, WeightBounds
  <2>5. MaxWeight(ratio) \in Int /\ MaxWeight(ratio) <= 20 * Size
    <3>1. MaxWeight(ratio) + 2 * ratio * SrcPkt <= 20 * Size
      BY <1>2, RoomMeans
    <3>2. 2 * ratio * SrcPkt \in Nat /\ MaxWeight(ratio) \in Int
      BY <1>2, Sizes DEF MaxWeight
    <3>3. QED
      BY <3>1, <3>2, Sizes
  <2>6. old <= MaxWeight(ratio)
    BY <1>3
  <2> HIDE DEF new, old, second
  <2>7. new <= MaxWeight(ratio) /\ second <= Size
    BY <2>1, <2>2, <2>3, <2>4, <2>5, <2>6, Sizes
  <2>8. TL_nBufferCnt' = second
    BY <1>1 DEF second
  <2>9. Weight(ratio, TL_nBufferCnt', first, gTotalReadPacket', c2) = new
    BY <1>1, <2>8 DEF new
  <2>10. QED
    BY <2>7, <2>8, <2>9
<1>6. ASSUME TL_nBCount' <= TL_nBCount, TL_nBufferCnt' <= Size, pc' \in {"move", "search"},
             TL_nBCount' \in Nat
      PROVE  LoadInv'
  <2>1. TL_nBCount' <= Bank + Window
    BY <1>1, <1>6, Sizes DEF RoomyInv, LoadInv
  <2>2. QED
    BY <1>6, <2>1 DEF LoadInv
<1>7. ASSUME Sync(SrcPkt), Skip(SrcPkt), UNCHANGED <<TL_nFindSync, pc>> PROVE RoomyInv'
  <2>1. SrcPkt \in 0 .. Size /\ SrcPkt <= TL_nBCount
    BY <1>1, Sizes
  <2>2. TL_nBCount' = TL_nBCount - SrcPkt /\ TL_nBCount' \in Nat
    BY <1>7, <2>1, Skipped DEF BaseInv
  <2>3. ASSUME NEW k \in Int PROVE (TL_nRIndex' + k) % Size = (TL_nRIndex + (SrcPkt + k)) % Size
    BY <1>7, <2>1, Skipped DEF BaseInv
  <2>4. ASSUME NEW k \in Int, Sync(SrcPkt + k) PROVE Sync(k)'
    BY <1>1, <2>3, <2>4 DEF Sync
  <2>5. PICK c2 \in 0 .. 2 : c2 <= c + 1 /\ Ahead(c2)'
    <3>1. Sync(0)' /\ TL_nBCount' > 0
      <4>1. SrcPkt + 0 = SrcPkt
        BY Sizes
      <4>2. QED
        BY <1>1, <1>7, <2>2, <2>4, <4>1, Sizes
    <3>2. CASE c = 0
      <4>1. Sync(2 * SrcPkt) /\ TL_nBCount > 2 * SrcPkt /\ SrcPkt + SrcPkt = 2 * SrcPkt /\ SrcPkt \in Int
        BY <1>3, <3>2, Sizes DEF Ahead
      <4>2. Sync(SrcPkt)'
        BY <2>4, <4>1
      <4>3. TL_nBCount' > SrcPkt
        BY <1>1, <2>2, <4>1, Sizes
      <4>4. Ahead(1)'
        BY <3>1, <4>2, <4>3 DEF Ahead
      <4>5. QED
        BY <3>2, <4>4
    <3>3. CASE c # 0
      <4>1. Ahead(2)'
        BY <3>1 DEF Ahead
      <4>2. QED
        BY <3>3, <4>1
    <3>4. QED
      BY <3>2, <3>3
  <2>6. Weight(ratio, TL_nBufferCnt', TL_nBCount', gTotalReadPacket', c2) <= MaxWeight(ratio)
        /\ TL_nBufferCnt' <= Size
    BY <1>5, <2>2, <2>5
  <2>7. SyncInv'
    BY <1>1, <1>7, <2>5, <2>6 DEF SyncInv
  <2>8. LoadInv'
    BY <1>1, <1>6, <1>7, <2>2, <2>6, Sizes
  <2>9. ASSUME NEW k \in 0 .. TL_nBCount' - 1 PROVE (TL_nRIndex' + k) % Size \notin taken'
    <3>1. SrcPkt + k \in 1 .. TL_nBCount - 1 /\ k \in Int
      BY <1>1, <2>2, Sizes
    <3>2. (TL_nRIndex + (SrcPkt + k)) % Size \notin taken'
      BY <3>1, MoveTakes
    <3>3. QED
      BY <2>3, <3>1, <3>2
  <2>10. TakenInv'
    BY <2>9 DEF TakenInv
  <2>11. QED
    BY <2>7, <2>8, <2>10 DEF RoomyInv
<1>8. ASSUME ~Sync(SrcPkt), TL_nFindSync' = TRUE, pc' = "search", UNCHANGED <<TL_nRIndex, TL_nBCount>>
      PROVE  RoomyInv'
  <2>1. c = 2
    BY <1>3, <1>8 DEF Ahead
  <2>2. Weight(ratio, TL_nBufferCnt', TL_nBCount, gTotalReadPacket', 0) <= MaxWeight(ratio)
        /\ TL_nBufferCnt' <= Size
    BY <1>1, <1>5, <2>1, 0 \in 0 .. 2
  <2>3. SyncInv'
    BY <1>1, <1>8, <2>2 DEF SyncInv
  <2>4. LoadInv'
    BY <1>1, <1>6, <1>8, <2>2
  <2>5. ~Sync(SrcPkt)'
    BY <1>1, <1>8 DEF Sync
  <2>6. ASSUME NEW k \in 0 .. TL_nBCount' - 1, (TL_nRIndex' + k) % Size \in taken' PROVE k = 0
    <3>1. k = 0 \/ k \in 1 .. TL_nBCount - 1
      BY <1>1, <1>8
    <3>2. QED
      BY <1>8, <2>6, <3>1, MoveTakes
  <2>7. TakenInv'
    BY <1>8, <2>5, <2>6 DEF TakenInv
  <2>8. QED
    BY <2>3, <2>4, <2>7 DEF RoomyInv
<1>9. QED
  BY <1>7, <1>8 DEF Move, Sync

(* The second ring never fills in a turn: the moving ends when less than a *)
(* window is left.                                                         *)
LEMMA RoomyMoveEnds ==
  ASSUME BaseInv, Roomy, RoomyInv, MoveEnds
  PROVE  RoomyInv'
<1>1. pc = "move" /\ pc' \in {"turn", "fill"}
      /\ UNCHANGED <<ratio, syncs, taken, TL_nRIndex, TL_nBCount, TL_nBufferCnt, TL_nFindSync, blind>>
  BY Left DEF MoveEnds, choice, ring, out, lock
<1>2. /\ ratio \in Nat /\ ratio >= 10 /\ TL_nBufferCnt \in Nat /\ gTotalReadPacket \in 0 .. 9
      /\ ratio \in Ratios /\ TL_nBCount \in Nat
  BY Rate DEF BaseInv, ShapeInv
<1>3. PICK c \in 0 .. 2 :
        /\ IF TL_nFindSync THEN c = 0 ELSE Ahead(c)
        /\ Weight(ratio, TL_nBufferCnt, TL_nBCount, gTotalReadPacket, c) <= MaxWeight(ratio)
  BY <1>1 DEF RoomyInv, SyncInv
<1>4. ~SecondFull
  <2> DEFINE w == Weight(ratio, TL_nBufferCnt, TL_nBCount, gTotalReadPacket, c)
             q == ratio * SrcPkt
  <2>1. w \in Nat /\ 20 * TL_nBufferCnt <= w
    BY <1>2, WeightBounds
  <2>2. MaxWeight(ratio) + 2 * ratio * SrcPkt <= 20 * Size
    BY <1>2, RoomMeans
  <2>3. q \in Nat /\ 2 * ratio * SrcPkt = 2 * q /\ MaxWeight(ratio) \in Int
    BY <1>2, Sizes DEF MaxWeight
  <2>4. w <= MaxWeight(ratio)
    BY <1>3
  <2> HIDE DEF w, q
  <2>5. ~(10 * TL_nBufferCnt > 10 * Size - q)
    BY <1>2, <2>1, <2>2, <2>3, <2>4, Sizes
  <2>6. QED
    BY <2>5 DEF SecondFull, q
<1>5. TL_nBCount <= Window
  BY <1>4 DEF MoveEnds
<1>6. LoadInv'
  BY <1>1, <1>5, Sizes DEF RoomyInv, LoadInv, Window
<1>7. SyncInv'
  <2>1. Ahead(c) => Ahead(c)'
    BY <1>1 DEF Ahead, Sync
  <2>2. IF TL_nFindSync' THEN c = 0 ELSE Ahead(c)'
    BY <1>1, <1>3, <2>1
  <2>3. QED
    BY <1>1, <2>2 DEF SyncInv
<1>8. TakenInv'
  BY <1>1 DEF RoomyInv, TakenInv
<1>9. QED
  BY <1>6, <1>7, <1>8 DEF RoomyInv

LEMMA RoomyFill ==
  ASSUME BaseInv, Roomy, RoomyInv, Fill
  PROVE  RoomyInv'
<1>1. pc = "fill" /\ pc' = "turn"
      /\ UNCHANGED <<syncs, taken, TL_nRIndex, TL_nBCount, TL_nFindSync, blind>>
  BY DEF Fill, ring, lock
<1>2. TL_nBufferCnt' <= Size
  <2>1. TL_nBufferCnt' = TL_nBufferCnt \/ TL_nBufferCnt' = TL_nBufferCnt - Bank
    BY DEF Fill, out
  <2>2. QED
    BY <2>1, Sizes DEF RoomyInv, LoadInv, BaseInv, ShapeInv
<1>3. LoadInv'
  BY <1>1, <1>2 DEF RoomyInv, LoadInv, Window
<1>4. PICK c \in 0 .. 2 : IF TL_nFindSync THEN c = 0 ELSE Ahead(c)
  BY DEF RoomyInv, SyncInv
<1>5. SyncInv'
  <2>1. Ahead(c) => Ahead(c)'
    BY <1>1 DEF Ahead, Sync
  <2>2. IF TL_nFindSync' THEN c = 0 ELSE Ahead(c)'
    BY <1>1, <1>4, <2>1
  <2>3. QED
    BY <1>1, <2>2 DEF SyncInv
<1>6. TakenInv'
  BY <1>1 DEF RoomyInv, TakenInv
<1>7. QED
  BY <1>3, <1>5, <1>6 DEF RoomyInv

LEMMA RoomyOthers ==
  ASSUME BaseInv, RoomyInv, RingsStay, pc' = pc
  PROVE  RoomyInv'
<1>1. UNCHANGED <<ratio, syncs, taken, TL_nRIndex, TL_nBCount, TL_nFindSync, TL_nBufferCnt, pc>>
      /\ UNCHANGED <<gTotalReadPacket, blind>>
  BY DEF RingsStay, choice, ring, out, lock
<1>2. LoadInv'
  BY <1>1 DEF RoomyInv, LoadInv, Window
<1>3. PICK c \in 0 .. 2 :
        /\ IF TL_nFindSync THEN c = 0 ELSE Ahead(c)
        /\ pc \in {"search", "move"} =>
             Weight(ratio, TL_nBufferCnt, TL_nBCount, gTotalReadPacket, c) <= MaxWeight(ratio)
  BY DEF RoomyInv, SyncInv
<1>4. SyncInv'
  <2>1. Ahead(c) => Ahead(c)'
    BY <1>1 DEF Ahead, Sync
  <2>2. IF TL_nFindSync' THEN c = 0 ELSE Ahead(c)'
    BY <1>1, <1>3, <2>1
  <2>3. pc' \in {"search", "move"} =>
          Weight(ratio', TL_nBufferCnt', TL_nBCount', gTotalReadPacket', c) <= MaxWeight(ratio')
    BY <1>1, <1>3
  <2>4. QED
    BY <2>2, <2>3 DEF SyncInv
<1>5. TakenInv'
  BY <1>1 DEF RoomyInv, TakenInv, Sync
<1>6. QED
  BY <1>2, <1>4, <1>5 DEF RoomyInv

LEMMA RatioStays ==
  [Next]_vars => ratio' = ratio
BY DEF Next, Main, FirstRead, Turn, Search, Move, MoveEnds, Fill, EndRestart, EndClose, EndReady,
       Reopen, Seek, NextFile, vars, choice

LEMMA RoomyStep ==
  ASSUME BaseInv, HandleInv, Roomy => RoomyInv, [Next]_vars
  PROVE  Roomy' => RoomyInv'
<1> SUFFICES ASSUME Roomy' PROVE RoomyInv'
  OBVIOUS
<1>1. Roomy
  BY RatioStays DEF Roomy, Window
<1>2. RoomyInv
  BY <1>1
<1>3. CASE FirstRead
  BY <1>1, <1>2, <1>3, RoomyFirstRead
<1>4. CASE Turn
  BY <1>1, <1>2, <1>4, RoomyTurn
<1>5. CASE Search
  BY <1>1, <1>2, <1>5, RoomySearch
<1>6. CASE Move
  BY <1>1, <1>2, <1>6, RoomyMove
<1>7. CASE MoveEnds
  BY <1>1, <1>2, <1>7, RoomyMoveEnds
<1>8. CASE Fill
  BY <1>1, <1>2, <1>8, RoomyFill
<1>9. CASE \/ EndRestart \/ EndClose \/ EndReady \/ Reopen
           \/ (\E o \in Offsets : Seek(o)) \/ NextFile \/ UNCHANGED vars
  <2>1. RingsStay /\ (MoveEnds \/ pc' = pc)
    BY <1>9, OtherSteps
  <2>2. CASE MoveEnds
    BY <1>1, <1>2, <2>2, RoomyMoveEnds
  <2>3. CASE pc' = pc
    BY <1>2, <2>1, <2>3, RoomyOthers
  <2>4. QED
    BY <2>1, <2>2, <2>3
<1>10. QED
  BY <1>3, <1>4, <1>5, <1>6, <1>7, <1>8, <1>9 DEF Next, Main

-----------------------------------------------------------------------------
(* The inductive invariant.                                                *)

LEMMA PlayInit == Init => PlayInv
<1> SUFFICES ASSUME Init PROVE PlayInv
  OBVIOUS
<1>1. 0 \in Places /\ 0 % Bank = 0 /\ (0 + 0) % Size = 0 /\ 0 \in Nat /\ Window \in Nat
  <2>1. (Bank * 0 + 0) % Bank = 0 /\ (Size * 0 + 0) % Size = 0
    BY Sizes, ModUnique
  <2>2. Bank * 0 + 0 = 0 /\ Size * 0 + 0 = 0 + 0
    BY Sizes
  <2>3. QED
    BY <2>1, <2>2, Sizes DEF Places
<1>2. ShapeInv
  BY <1>1 DEF Init, ShapeInv
<1>3. FlowInv
  BY Sizes DEF Init, FlowInv
<1>4. Consistent /\ HandleInv
  BY <1>1 DEF Init, Consistent, HandleInv
<1>5. LoadInv /\ SyncInv /\ TakenInv
  <2>1. LoadInv
    BY <1>1, Sizes DEF Init, LoadInv
  <2>2. SyncInv
    <3>1. TL_nFindSync /\ pc \notin {"search", "move"}
      BY DEF Init
    <3>2. 0 \in 0 .. 2
      OBVIOUS
    <3>3. QED
      BY <3>1, <3>2 DEF SyncInv
  <2>3. TakenInv
    BY DEF Init, TakenInv
  <2>4. QED
    BY <2>1, <2>2, <2>3
<1>6. QED
  BY <1>2, <1>3, <1>4, <1>5 DEF PlayInv, BaseInv, RoomyInv

(* What each turn of the main task finds and leaves: the shape of the two  *)
(* rings and where in its work the turn is and, at a rate they are made    *)
(* for, the weight of what they hold, the synchronisation of the first and *)
(* which of its packets have been moved.                                   *)
THEOREM PlayCorrect == Spec => []PlayInv
<1>1. PlayInv /\ [Next]_vars => PlayInv'
  <2> SUFFICES ASSUME PlayInv, [Next]_vars PROVE PlayInv'
    OBVIOUS
  <2>1. BaseInv'
    BY BaseStep DEF PlayInv
  <2>2. HandleInv'
    BY HandleStep DEF PlayInv, BaseInv, ShapeInv
  <2>3. Roomy' => RoomyInv'
    BY RoomyStep DEF PlayInv
  <2>4. QED
    BY <2>1, <2>2, <2>3 DEF PlayInv
<1>2. QED
  BY <1>1, PlayInit, PTL DEF Spec

(* At every moment of every turn, through seeks, loops, damaged files and  *)
(* the end of the file, each ring's count and indices agree; at a rate the *)
(* buffers are made for nothing unread is overwritten and a synchronised   *)
(* ring begins with the synchronisation byte (SetNewRdAlignPos_of_PlayBuf, *)
(* SetNewWrAlignPos_of_PlayBuf, FillOnePacketToQueue_and_addNull_ifNeed).  *)
THEOREM RingsSoundCorrect == Spec => []RingsSound
<1>1. PlayInv => RingsSound
  <2> SUFFICES ASSUME PlayInv PROVE RingsSound
    OBVIOUS
  <2>1. Consistent
    BY DEF PlayInv, BaseInv
  <2>2. ASSUME Roomy PROVE Fit /\ Locked
    <3>1. ShapeInv /\ LoadInv /\ SyncInv
      BY <2>2 DEF PlayInv, BaseInv, RoomyInv
    <3>2. Window + Bank <= Size
      BY <2>2, <3>1, RoomMeans DEF ShapeInv
    <3>3. Fit
      BY <3>1, <3>2, Sizes DEF Fit, ShapeInv, LoadInv
    <3>4. ~TL_nFindSync /\ ~blind => Sync(0)
      BY <3>1 DEF SyncInv, Ahead
    <3>5. (TL_nRIndex + 0) % Size = TL_nRIndex
      <4>1. TL_nRIndex \in 0 .. Size - 1 /\ TL_nRIndex \in Int /\ Size \in Nat \ {0}
        BY <3>1, Sizes DEF ShapeInv, Places
      <4>2. (Size * 0 + TL_nRIndex) % Size = TL_nRIndex
        BY <4>1, ModUnique
      <4>3. Size * 0 + TL_nRIndex = TL_nRIndex + 0
        BY <4>1
      <4>4. QED
        BY <4>2, <4>3
    <3>6. Locked
      BY <3>4, <3>5 DEF Locked, Sync
    <3>7. QED
      BY <3>3, <3>6
  <2>3. QED
    BY <2>1, <2>2 DEF RingsSound
<1>2. QED
  BY <1>1, PlayCorrect, PTL

(* A packet goes to the second ring once, however often the synchronisation*)
(* is lost and a packet taken back (FindSyncPos_and_FillSyncBuf).          *)
THEOREM MovedOnceCorrect == Spec => MovedOnce
<1>1. ASSUME PlayInv, [Next]_vars, Roomy, TL_nBufferCnt' > TL_nBufferCnt PROVE TL_nRIndex \notin taken
  <2>1. BaseInv /\ RoomyInv
    BY <1>1 DEF PlayInv
  <2>2. TL_nBufferCnt \in Nat
    BY <2>1 DEF BaseInv, ShapeInv
  <2>3. CASE Move
    <3>1. pc = "move" /\ TL_nBCount > Window /\ TL_nBCount \in Nat /\ (TL_nRIndex + 0) % Size = TL_nRIndex
      BY <1>1, <2>1, <2>3, MoveFacts
    <3>2. 0 \in 0 .. TL_nBCount - 1
      BY <3>1, Sizes
    <3>3. QED
      BY <2>1, <3>1, <3>2 DEF RoomyInv, TakenInv
  <2>4. CASE Fill
    <3>1. TL_nBufferCnt' = TL_nBufferCnt \/ TL_nBufferCnt' = TL_nBufferCnt - Bank
      BY <2>4 DEF Fill, out
    <3>2. QED
      BY <1>1, <2>2, <3>1, Sizes
  <2>5. CASE ~Move /\ ~Fill
    <3>1. TL_nBufferCnt' = TL_nBufferCnt
      BY <1>1, <2>5 DEF Next, Main, FirstRead, Turn, Search, MoveEnds, EndRestart, EndClose, EndReady,
         Reopen, Seek, NextFile, vars, out
    <3>2. QED
      BY <1>1, <2>2, <3>1
  <2>6. QED
    BY <2>3, <2>4, <2>5
<1>2. PlayInv /\ [Next]_vars => [Roomy /\ TL_nBufferCnt' > TL_nBufferCnt => TL_nRIndex \notin taken]_vars
  BY <1>1
<1>3. QED
  BY <1>2, PlayCorrect, PTL DEF Spec, MovedOnce
=============================================================================
