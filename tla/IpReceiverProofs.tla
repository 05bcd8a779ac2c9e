--------------------------- MODULE IpReceiverProofs ---------------------------
(***************************************************************************)
(* Theorems about the IP receiver.  Its pool, RtpPool: the slot that the   *)
(* network writes without the mutex is never one that is still to be read, *)
(* lost packets are counted where the numbers jump, and the pool implements*)
(* PacketQueue.  Its connection, IpSession: what a user who waits for his  *)
(* requests receives is what he asked for.                                 *)
(***************************************************************************)
EXTENDS RtpPool, IpSession, TLAPS

(* The overflow test keeps a slot free between the two places: the place to*)
(* write, moved on by a packet that was let in, does not catch up.         *)
LEMMA NotFullKeepsApart ==
  ASSUME NEW r \in Slots, NEW w \in Slots, Diff(r, w) < Pool - 2
  PROVE  After(w) # r
BY RtpPoolAssumption DEF Slots, Diff, After

LEMMA AfterInSlots ==
  ASSUME NEW i \in Slots
  PROVE  After(i) \in Slots
BY RtpPoolAssumption DEF Slots, After

(* What is known of the packets and the one being read, as far as it is    *)
(* needed here.                                                            *)
Reading == [tot_r_size : Int, seek : Int, slot : Slots, start : Int]

ShapeInv ==
  /\ source \in Sources
  /\ rd \in Slots /\ wr \in Slots /\ rd_pool \in Reading
  /\ pkt_pool \in [Slots -> [num : Int, rtp : BOOLEAN, len : Int]]
  /\ pkt_raw_size \in [Slots -> Int] /\ room \in Int /\ src.size \in Int

LEMMA ReadingUpdated ==
  ASSUME NEW p \in Reading, NEW s \in Int, NEW t \in Int
  PROVE  /\ [p EXCEPT !.seek = s, !.tot_r_size = t] \in Reading
         /\ [p EXCEPT !.tot_r_size = t, !.seek = s] \in Reading
BY DEF Reading

(* A packet begun is the first one that waits.  The mutex is held as long  *)
(* as a piece is copied, so the place to write stays; what is copied is not*)
(* there, although the place to read may have moved on to it.              *)
ReadInv ==
  /\ tpc \in {"loop", "copy"} => mutex = "reader"
  /\ rd_pool.tot_r_size > 0 => rd_pool.slot = rd /\ rd # wr
  /\ tpc = "copy" => src.slot # wr

LEMMA OpenedShape ==
  ASSUME ShapeInv
  PROVE  Opened \in Reading
<1>1. Header \in Int
  BY RtpPoolAssumption
<1>2. CASE rd_pool.tot_r_size > 0
  BY <1>2 DEF ShapeInv, Opened, Rest
<1>3. CASE ~(rd_pool.tot_r_size > 0)
  <2> DEFINE head == IF is_rtp THEN Header ELSE 0
  <2>1. head \in Int /\ pkt_raw_size[rd] \in Int
    BY <1>1 DEF ShapeInv
  <2>2. Opened = [tot_r_size |-> pkt_raw_size[rd] - head, seek |-> 0, slot |-> rd, start |-> head]
    BY <1>3 DEF Opened
  <2> HIDE DEF head
  <2>3. QED
    BY <2>1, <2>2 DEF ShapeInv, Reading
<1>4. QED
  BY <1>2, <1>3

(* Decap, which alone tells the reader what to copy.                       *)
LEMMA DecapStep ==
  ASSUME ShapeInv, ReadInv, Decap
  PROVE  ShapeInv' /\ ReadInv'
<1> DEFINE size == Smaller(Opened.tot_r_size - Opened.seek, room)
           over == Opened.seek + size >= Opened.tot_r_size
<1>1. Opened \in Reading
  BY OpenedShape
<1>2. size \in Int
  BY <1>1 DEF Smaller, ShapeInv, Reading
<1>3. Opened.slot = rd
  BY DEF Opened, Rest, ReadInv
<1>4. /\ src' = [slot |-> Opened.slot, from |-> Opened.start + Opened.seek, size |-> size, over |-> over]
      /\ rd_pool' = [Opened EXCEPT !.seek = @ + size, !.tot_r_size = IF over THEN 0 ELSE @]
      /\ rd' = IF over THEN After(rd) ELSE rd
      /\ tpc = "loop" /\ tpc' = "copy" /\ wr # rd
      /\ UNCHANGED <<mutex, room, wr, pkt_raw_size, pkt_pool, source>>
  BY DEF Decap, receiver
<1> HIDE DEF size, over
<1>5. rd_pool' \in Reading
  <2>1. Opened.seek + size \in Int /\ (IF over THEN 0 ELSE Opened.tot_r_size) \in Int
    BY <1>1, <1>2 DEF Reading
  <2>2. rd_pool' = [Opened EXCEPT !.seek = Opened.seek + size,
                                  !.tot_r_size = IF over THEN 0 ELSE Opened.tot_r_size]
    BY <1>1, <1>4 DEF Reading
  <2>3. QED
    BY <1>1, <2>1, <2>2, ReadingUpdated
<1>6. rd_pool'.slot = rd /\ (over => rd_pool'.tot_r_size = 0)
  BY <1>1, <1>3, <1>4 DEF Reading
<1>7. ShapeInv'
  BY <1>2, <1>4, <1>5, AfterInSlots DEF ShapeInv
<1>8. src'.slot = rd
  BY <1>3, <1>4
<1>9. ReadInv'
  BY <1>4, <1>6, <1>8 DEF ReadInv
<1>10. QED
  BY <1>7, <1>9

LEMMA ReadStep == ShapeInv /\ ReadInv /\ [Next]_vars => (ShapeInv /\ ReadInv)'
<1> SUFFICES ASSUME ShapeInv, ReadInv, [Next]_vars PROVE ShapeInv' /\ ReadInv'
  OBVIOUS
<1>0. 0 \in Slots
  BY RtpPoolAssumption DEF Slots
<1>1. CASE Receive \/ NoData
  <2>1. UNCHANGED <<pkt_raw_size, wr, rd, rd_pool, reader>>
    BY <1>1 DEF Receive, NoData
  <2>2. pkt_pool' \in [Slots -> [num : Int, rtp : BOOLEAN, len : Int]]
    <3>1. source.kinds \subseteq BOOLEAN /\ source.lengths \subseteq Int
      BY RtpPoolAssumption DEF ShapeInv
    <3>2. CASE Receive
      <4>1. PICK n \in sent .. sent + 1 + source.loss, rtp \in source.kinds, len \in source.lengths :
              pkt_pool' = [pkt_pool EXCEPT ![wr] = [num |-> n, rtp |-> rtp, len |-> len]]
        BY <3>2 DEF Receive
      <4>2. n \in Int /\ rtp \in BOOLEAN /\ len \in Int
        BY <3>1
      <4>3. QED
        BY <4>1, <4>2 DEF ShapeInv
    <3>3. CASE NoData
      BY <3>3 DEF NoData, ShapeInv
    <3>4. QED
      BY <1>1, <3>2, <3>3
  <2>3. QED
    BY <2>1, <2>2 DEF ShapeInv, ReadInv, reader
<1>2. CASE Timeout
  <2>1. /\ rd' = 0 /\ wr' = 0 /\ rd_pool' = [rd_pool EXCEPT !.tot_r_size = 0, !.seek = 0]
        /\ mutex = "free" /\ UNCHANGED <<pkt_raw_size, pkt_pool, source, room, tpc, mutex, src>>
    BY <1>2 DEF Timeout, Flush, reader
  <2>2. rd_pool'.tot_r_size = 0
    BY <2>1 DEF ShapeInv, Reading
  <2>3. rd_pool' \in Reading
    <3>1. rd_pool \in Reading /\ 0 \in Int
      BY DEF ShapeInv
    <3>2. QED
      BY <2>1, <3>1, ReadingUpdated
  <2>4. QED
    BY <1>0, <2>1, <2>2, <2>3 DEF ShapeInv, ReadInv
<1>3. CASE Process
  <2>1. mutex = "free" /\ UNCHANGED <<pkt_pool, source, rd, rd_pool, tpc, mutex, room, src>>
    BY <1>3 DEF Process, reader
  <2>2. wr' = wr \/ (wr' = After(wr) /\ ~Full)
    BY <1>3 DEF Process
  <2>3. pkt_raw_size' \in [Slots -> Int]
    <3>1. pkt_pool[wr].len \in Int
      BY DEF ShapeInv
    <3>2. \/ pkt_raw_size' = [pkt_raw_size EXCEPT ![wr] = 0]
          \/ pkt_raw_size' = [pkt_raw_size EXCEPT ![wr] = pkt_pool[wr].len]
      BY <1>3 DEF Process
    <3>3. QED
      BY <3>1, <3>2 DEF ShapeInv
  <2>4. wr' \in Slots
    BY <2>2, AfterInSlots DEF ShapeInv
  <2>5. wr' = rd => wr = rd
    <3>1. rd \in Slots /\ wr \in Slots /\ Diff(rd, wr) \in Int
      BY RtpPoolAssumption DEF ShapeInv, Slots, Diff
    <3>2. ~Full => Diff(rd, wr) < Pool - 2
      BY <3>1, RtpPoolAssumption DEF Full
    <3>3. QED
      BY <2>2, <3>1, <3>2, NotFullKeepsApart
  <2>6. QED
    BY <2>1, <2>3, <2>4, <2>5 DEF ShapeInv, ReadInv
<1>4. ASSUME NEW n \in Reads, BeginRead(n) PROVE ShapeInv' /\ ReadInv'
  BY <1>4, RtpPoolAssumption DEF BeginRead, receiver, ShapeInv, ReadInv
<1>5. CASE Underflow
  BY <1>5 DEF Underflow, receiver, ShapeInv, ReadInv
<1>6. CASE DecapBroken
  BY <1>0, <1>6, AfterInSlots DEF DecapBroken, Skip, Whole, Reading, reader, receiver, ShapeInv, ReadInv
<1>7. CASE Decap
  BY <1>7, DecapStep
<1>8. CASE Copy
  BY <1>8 DEF Copy, receiver, ShapeInv, ReadInv
<1>9. CASE UNCHANGED vars
  BY <1>9 DEF vars, reader, receiver, ShapeInv, ReadInv
<1>10. QED
  BY <1>1, <1>2, <1>3, <1>4, <1>5, <1>6, <1>7, <1>8, <1>9 DEF Next, Receiver, Reader

LEMMA ReadInit == Init => ShapeInv /\ ReadInv
<1> SUFFICES ASSUME Init PROVE ShapeInv /\ ReadInv
  OBVIOUS
<1>1. 0 \in Slots
  BY RtpPoolAssumption DEF Slots
<1>2. rd_pool \in Reading /\ rd_pool.tot_r_size = 0
  BY <1>1 DEF Init, Whole, Reading
<1>3. pkt_raw_size \in [Slots -> Int]
  BY DEF Init
<1>4. pkt_pool \in [Slots -> [num : Int, rtp : BOOLEAN, len : Int]] /\ src.size = 0
  BY DEF Init, NoPacket, NoSource
<1>5. QED
  BY <1>1, <1>2, <1>3, <1>4 DEF Init, ShapeInv, ReadInv

(* Whatever the network sends and loses, recvfrom never writes into a slot *)
(* that is still to be read: neither one that waits, nor one of which a    *)
(* piece is left, nor the one being copied (PrePeocessRtp, TsReadUdpPool). *)
THEOREM WriteSlotUnreadCorrect == Spec => []WriteSlotUnread
<1>1. ShapeInv /\ ReadInv => WriteSlotUnread
  <2> SUFFICES ASSUME ShapeInv, ReadInv PROVE WriteSlotUnread
    OBVIOUS
  <2>1. wr \notin Waiting
    BY RtpPoolAssumption DEF ShapeInv, Waiting, Diff, Slots
  <2>2. wr \notin Copying /\ wr \notin Begun
    BY DEF ReadInv, Copying, Begun
  <2>3. QED
    BY <2>1, <2>2 DEF WriteSlotUnread
<1>2. QED
  BY <1>1, ReadInit, ReadStep, PTL DEF Spec

-----------------------------------------------------------------------------
LEMMA Remainder ==
  ASSUME NEW q \in Int, NEW r \in 0 .. SeqMod - 1
  PROVE  (SeqMod * q + r) % SeqMod = r
<1>1. SeqMod \in Nat \ {0}
  BY RtpPoolAssumption
<1>2. QED
  BY <1>1

(* The sequence number of the packet d after the one with number a.        *)
LEMMA Later ==
  ASSUME NEW a \in Nat, NEW d \in 0 .. SeqMod
  PROVE  /\ a % SeqMod \in 0 .. SeqMod - 1
         /\ (a % SeqMod) + d < SeqMod => (a + d) % SeqMod = (a % SeqMod) + d
         /\ (a % SeqMod) + d >= SeqMod => (a + d) % SeqMod = ((a % SeqMod) + d) - SeqMod
<1>0. SeqMod \in Nat \ {0}
  BY RtpPoolAssumption
<1>1. PICK q, r : q = a \div SeqMod /\ r = a % SeqMod
  OBVIOUS
<1>2. q \in Nat /\ r \in 0 .. SeqMod - 1 /\ a = SeqMod * q + r
  BY <1>0, <1>1
<1>3. ASSUME r + d < SeqMod PROVE (a + d) % SeqMod = r + d
  <2>1. a + d = SeqMod * q + (r + d) /\ r + d \in 0 .. SeqMod - 1
    BY <1>0, <1>2, <1>3
  <2>2. (SeqMod * q + (r + d)) % SeqMod = r + d
    BY <1>2, <2>1, Remainder
  <2>3. QED
    BY <2>1, <2>2
<1>4. ASSUME r + d >= SeqMod PROVE (a + d) % SeqMod = (r + d) - SeqMod
  <2>1. a + d = SeqMod * (q + 1) + ((r + d) - SeqMod)
    BY <1>0, <1>2
  <2>2. (r + d) - SeqMod \in 0 .. SeqMod - 1 /\ q + 1 \in Int
    BY <1>0, <1>2, <1>4
  <2>3. (SeqMod * (q + 1) + ((r + d) - SeqMod)) % SeqMod = (r + d) - SeqMod
    BY <2>2, Remainder
  <2>4. QED
    BY <2>1, <2>3
<1>5. QED
  BY <1>1, <1>2, <1>3, <1>4

(* The comparison of two sequence numbers, across the wrap: it sees every  *)
(* packet but the next one, unless more than SeqMod are missing, and never *)
(* takes the next one for a jump (PrePeocessRtp).                          *)
LEMMA JumpSeen ==
  ASSUME NEW a \in Nat, NEW d \in 0 .. SeqMod, seq = a % SeqMod
  PROVE  Jump((a + d) % SeqMod) <=> d # 1
<1> DEFINE q == (a + d) % SeqMod
<1>1. SeqMod \in Nat /\ SeqMod >= 2
  BY RtpPoolAssumption
<1>2. seq \in 0 .. SeqMod - 1
  BY Later
<1>3. seq + d < SeqMod => q = seq + d
  BY Later
<1>4. seq + d >= SeqMod => q = (seq + d) - SeqMod
  BY Later
<1> HIDE DEF q
<1>5. Jump(q) <=> d # 1
  BY <1>1, <1>2, <1>3, <1>4 DEF Jump
<1>6. QED
  BY <1>5 DEF q

(* The number of the packet to be looked at is the last one that was sent, *)
(* and the sequence number kept is that of the last one looked at.         *)
SequenceInv ==
  /\ source \in Sources /\ wr \in Slots /\ DOMAIN pkt_pool = Slots
  /\ sent \in Nat /\ last \in 0 .. sent /\ seq \in Int
  /\ last = 0 <=> seq = NoSequence
  /\ last # 0 => seq = last % SeqMod
  /\ rpc = "process" => pkt_pool[wr].num = sent /\ sent > 0
  /\ lost \in Int /\ gaps \in Int /\ blind \in BOOLEAN
  /\ LostCountsJumps

LEMMA SequenceLooked ==
  ASSUME SequenceInv, rpc = "process", Sequence(pkt_pool[wr])
  PROVE  /\ seq' \in Int /\ seq' # NoSequence /\ last' = sent /\ seq' = last' % SeqMod
         /\ lost' \in Int /\ gaps' \in Int /\ blind' \in BOOLEAN /\ LostCountsJumps'
<1> DEFINE q == sent % SeqMod
           jump == seq # NoSequence /\ Jump(q)
           gap == last # 0 /\ sent # last + 1
<1>1. sent \in Nat /\ sent > 0 /\ last \in 0 .. sent /\ pkt_pool[wr].num = sent
  BY DEF SequenceInv
<1>2. /\ seq' = q /\ lost' = (IF jump THEN lost + 1 ELSE lost)
      /\ last' = sent /\ gaps' = (IF gap THEN gaps + 1 ELSE gaps)
      /\ blind' = (blind \/ (last # 0 /\ sent > last + SeqMod))
  BY <1>1 DEF Sequence
<1>3. SeqMod \in Nat /\ SeqMod >= 2
  BY RtpPoolAssumption
<1>4. q \in 0 .. SeqMod - 1
  BY <1>1, <1>3
<1>5. jump => gap
  <2>1. CASE last = 0
    BY <2>1 DEF SequenceInv
  <2>2. CASE sent = last + 1
    <3>1. 1 \in 0 .. SeqMod /\ last \in Nat
      BY <1>1, <1>3
    <3>2. seq # NoSequence => seq = last % SeqMod
      BY DEF SequenceInv
    <3>3. seq # NoSequence => ~Jump(q)
      BY <2>2, <3>1, <3>2, JumpSeen
    <3>4. QED
      BY <3>3
  <2>3. QED
    BY <2>1, <2>2
<1>6. gap /\ ~(last # 0 /\ sent > last + SeqMod) => jump
  <2> SUFFICES ASSUME gap, sent <= last + SeqMod PROVE jump
    BY <1>1, <1>3
  <2>1. seq # NoSequence /\ seq = last % SeqMod /\ last \in Nat
    BY <1>1 DEF SequenceInv
  <2> DEFINE d == sent - last
  <2>2. d \in 0 .. SeqMod /\ d # 1 /\ sent = last + d
    BY <1>1, <1>3
  <2> HIDE DEF d
  <2>3. Jump((last + d) % SeqMod)
    BY <2>1, <2>2, JumpSeen
  <2>4. QED
    BY <2>1, <2>2, <2>3
<1>7. lost \in Int /\ gaps \in Int /\ lost <= gaps /\ (~blind => lost = gaps)
  BY DEF SequenceInv, LostCountsJumps
<1> HIDE DEF q, jump, gap
<1>8. lost' \in Int /\ gaps' \in Int /\ lost' <= gaps'
  BY <1>2, <1>5, <1>7
<1>9. ~blind' => lost' = gaps'
  BY <1>2, <1>5, <1>6, <1>7
<1>10. blind' \in BOOLEAN
  BY <1>2
<1>11. seq' \in Int /\ seq' # NoSequence
  BY <1>2, <1>3, <1>4 DEF NoSequence
<1>12. QED
  BY <1>2, <1>8, <1>9, <1>10, <1>11 DEF LostCountsJumps, q

LEMMA SequenceStep == SequenceInv /\ [Next]_vars => SequenceInv'
<1> SUFFICES ASSUME SequenceInv, [Next]_vars PROVE SequenceInv'
  OBVIOUS
<1>0. 0 \in Slots
  BY RtpPoolAssumption DEF Slots
<1> DEFINE Counts == UNCHANGED <<source, seq, lost, last, gaps, blind>>
<1>1. CASE Receive
  <2>1. PICK n \in sent .. sent + 1 + source.loss, rtp \in source.kinds, len \in source.lengths :
          /\ n > 0 /\ sent' = n
          /\ pkt_pool' = [pkt_pool EXCEPT ![wr] = [num |-> n, rtp |-> rtp, len |-> len]]
    BY <1>1 DEF Receive
  <2>2. sent \in Nat /\ source.loss \in Nat
    BY RtpPoolAssumption DEF SequenceInv
  <2>3. sent' \in Nat /\ sent' >= sent /\ sent' > 0
    BY <2>1, <2>2
  <2>4. wr' = wr /\ Counts
    BY <1>1 DEF Receive, reader
  <2>5. DOMAIN pkt_pool' = Slots /\ pkt_pool'[wr].num = sent'
    BY <2>1 DEF SequenceInv
  <2>6. last' \in 0 .. sent'
    BY <2>2, <2>3, <2>4 DEF SequenceInv
  <2>7. QED
    BY <2>3, <2>4, <2>5, <2>6 DEF SequenceInv, LostCountsJumps
<1>2. CASE NoData
  BY <1>2 DEF NoData, reader, SequenceInv, LostCountsJumps
<1>3. CASE Timeout
  <2>1. /\ wr' = 0 /\ seq' = NoSequence /\ lost' = 0 /\ last' = 0 /\ gaps' = 0 /\ blind' = FALSE
        /\ rpc' = "recv" /\ UNCHANGED <<source, pkt_pool, sent>>
    BY <1>3 DEF Timeout, Flush, reader
  <2>2. last' \in 0 .. sent' /\ NoSequence \in Int
    BY <2>1 DEF SequenceInv, NoSequence
  <2>3. blind' \in BOOLEAN
    BY <2>1
  <2>4. LostCountsJumps'
    BY <2>1 DEF LostCountsJumps
  <2>5. QED
    BY <1>0, <2>1, <2>2, <2>3, <2>4 DEF SequenceInv
<1>4. CASE Process
  <2>1. rpc = "process" /\ rpc' = "recv" /\ UNCHANGED <<source, pkt_pool, sent>>
    BY <1>4 DEF Process, reader
  <2>2. wr' \in Slots
    BY <1>4, AfterInSlots DEF Process, SequenceInv
  <2>3. CASE Sequence(pkt_pool[wr])
    <3>1. sent \in Nat /\ sent > 0
      BY <2>1 DEF SequenceInv
    <3>2. last' \in 0 .. sent' /\ last' # 0
      BY <2>1, <2>3, <3>1, SequenceLooked
    <3>3. QED
      BY <2>1, <2>2, <2>3, <3>2, SequenceLooked DEF SequenceInv
  <2>4. CASE UNCHANGED <<seq, lost, last, gaps, blind>>
    BY <2>1, <2>2, <2>4 DEF SequenceInv, LostCountsJumps
  <2>5. QED
    BY <1>4, <2>3, <2>4 DEF Process
<1>5. CASE Reader
  <2>1. UNCHANGED receiver
    BY <1>5 DEF Reader, BeginRead, Underflow, DecapBroken, Decap, Copy
  <2>2. QED
    BY <2>1 DEF receiver, SequenceInv, LostCountsJumps
<1>6. CASE UNCHANGED vars
  BY <1>6 DEF vars, receiver, SequenceInv, LostCountsJumps
<1>7. QED
  BY <1>1, <1>2, <1>3, <1>4, <1>5, <1>6 DEF Next, Receiver

(* The count of lost packets never exceeds the jumps in the packets looked *)
(* at, and is their number unless more than SeqMod went unseen in a row    *)
(* (PrePeocessRtp), whatever the network loses and repeats and however the *)
(* reader's thread runs beside it.                                         *)
THEOREM LostCountsJumpsCorrect == Spec => []LostCountsJumps
<1>1. Init => SequenceInv
  <2> SUFFICES ASSUME Init PROVE SequenceInv
    OBVIOUS
  <2>1. 0 \in Slots /\ DOMAIN pkt_pool = Slots
    BY RtpPoolAssumption DEF Init, Slots
  <2>2. sent \in Nat
    BY RtpPoolAssumption DEF Init
  <2>3. 0 \in 0 .. sent /\ NoSequence \in Int
    BY <2>2 DEF NoSequence
  <2>4. blind \in BOOLEAN
    BY DEF Init
  <2>5. LostCountsJumps
    BY DEF Init, LostCountsJumps
  <2>6. QED
    BY <2>1, <2>2, <2>3, <2>4, <2>5 DEF Init, SequenceInv
<1>2. SequenceInv => LostCountsJumps
  BY DEF SequenceInv
<1>3. QED
  BY <1>1, <1>2, SequenceStep, PTL DEF Spec

-----------------------------------------------------------------------------
(* Going on from a slot of the pool: Place(r, i) is the i-th slot from r on.  *)
Place(r, i) == (r + i - 1) % Pool

LEMMA PoolRemainder ==
  ASSUME NEW q \in Int, NEW r \in Slots
  PROVE  (Pool * q + r) % Pool = r
<1>1. Pool \in Nat \ {0} /\ r \in 0 .. Pool - 1
  BY RtpPoolAssumption DEF Slots
<1>2. QED
  BY <1>1

LEMMA AtIs ==
  ASSUME NEW r \in Slots, NEW i \in 1 .. Pool
  PROVE  /\ Place(r, i) \in Slots
         /\ (r + i) - 1 < Pool => Place(r, i) = (r + i) - 1
         /\ (r + i) - 1 >= Pool => Place(r, i) = ((r + i) - 1) - Pool
<1>0. Pool \in Nat /\ r \in 0 .. Pool - 1 /\ i \in Int /\ r + (i - 1) = (r + i) - 1
  BY RtpPoolAssumption DEF Slots
<1>1. ASSUME (r + i) - 1 < Pool PROVE Place(r, i) = (r + i) - 1 /\ Place(r, i) \in Slots
  <2>1. (r + i) - 1 \in Slots /\ (r + i) - 1 = Pool * 0 + ((r + i) - 1)
    BY <1>0, <1>1 DEF Slots
  <2>2. (Pool * 0 + ((r + i) - 1)) % Pool = (r + i) - 1
    BY <2>1, PoolRemainder
  <2>3. QED
    BY <1>0, <2>1, <2>2 DEF Place
<1>2. ASSUME (r + i) - 1 >= Pool PROVE Place(r, i) = ((r + i) - 1) - Pool /\ Place(r, i) \in Slots
  <2> DEFINE d == ((r + i) - 1) - Pool
  <2>1. d \in Slots /\ (r + i) - 1 = Pool * 1 + d
    BY <1>0, <1>2 DEF Slots
  <2> HIDE DEF d
  <2>2. (Pool * 1 + d) % Pool = d
    BY <2>1, PoolRemainder
  <2>3. Place(r, i) = d
    BY <1>0, <2>1, <2>2 DEF Place
  <2>4. QED
    BY <2>1, <2>3 DEF d
<1>3. (r + i) - 1 < Pool \/ (r + i) - 1 >= Pool
  BY <1>0
<1>4. QED
  BY <1>0, <1>1, <1>2, <1>3

LEMMA DiffIs ==
  ASSUME NEW r \in Slots, NEW w \in Slots
  PROVE  /\ Diff(r, w) \in 0 .. Pool - 1
         /\ Diff(r, w) = 0 <=> r = w
         /\ Place(r, Diff(r, w) + 1) = w
<1>1. Diff(r, w) \in 0 .. Pool - 1 /\ (Diff(r, w) = 0 <=> r = w)
  BY RtpPoolAssumption DEF Slots, Diff
<1>2. Diff(r, w) + 1 \in 1 .. Pool
  BY <1>1, RtpPoolAssumption
<1>3. Place(r, Diff(r, w) + 1) = w
  <2> DEFINE i == Diff(r, w) + 1
  <2>1. /\ (r + i) - 1 < Pool => Place(r, i) = (r + i) - 1
        /\ (r + i) - 1 >= Pool => Place(r, i) = ((r + i) - 1) - Pool
    BY <1>2, AtIs
  <2>2. (r > w => i = ((Pool - r) + w) + 1) /\ (r <= w => i = (w - r) + 1)
    BY RtpPoolAssumption DEF Slots, Diff
  <2> HIDE DEF i
  <2>3. Place(r, i) = w
    BY <2>1, <2>2, RtpPoolAssumption DEF Slots
  <2>4. QED
    BY <2>3 DEF i
<1>4. QED
  BY <1>1, <1>3

LEMMA DiffAt ==
  ASSUME NEW r \in Slots, NEW i \in 1 .. Pool
  PROVE  Diff(r, Place(r, i)) = i - 1
<1>1. /\ Place(r, i) \in Slots
      /\ (r + i) - 1 < Pool => Place(r, i) = (r + i) - 1
      /\ (r + i) - 1 >= Pool => Place(r, i) = ((r + i) - 1) - Pool
  BY AtIs
<1>2. QED
  BY <1>1, RtpPoolAssumption DEF Slots, Diff

LEMMA AfterAt ==
  ASSUME NEW r \in Slots, NEW i \in 1 .. Pool - 1
  PROVE  Place(After(r), i) = Place(r, i + 1)
<1>1. After(r) \in Slots /\ i \in 1 .. Pool /\ i + 1 \in 1 .. Pool
  BY AfterInSlots, RtpPoolAssumption
<1> DEFINE s == After(r)
           j == i + 1
<1>2. /\ (r + j) - 1 < Pool => Place(r, j) = (r + j) - 1
      /\ (r + j) - 1 >= Pool => Place(r, j) = ((r + j) - 1) - Pool
  BY <1>1, AtIs
<1>3. /\ (s + i) - 1 < Pool => Place(s, i) = (s + i) - 1
      /\ (s + i) - 1 >= Pool => Place(s, i) = ((s + i) - 1) - Pool
  BY <1>1, AtIs
<1>4. (r = Pool - 1 => s = 0) /\ (r < Pool - 1 => s = r + 1) /\ j = i + 1
  BY RtpPoolAssumption DEF Slots, After
<1>5. s \in Slots
  BY <1>1
<1> HIDE DEF s, j
<1>6. Place(s, i) = Place(r, j)
  BY <1>2, <1>3, <1>4, <1>5, RtpPoolAssumption DEF Slots
<1>7. QED
  BY <1>6 DEF s, j

(* One slot less from the next one on, one more to the next one.           *)
LEMMA DiffAfter ==
  ASSUME NEW r \in Slots, NEW w \in Slots
  PROVE  /\ r # w => Diff(After(r), w) = Diff(r, w) - 1
         /\ Diff(r, w) < Pool - 1 => Diff(r, After(w)) = Diff(r, w) + 1
<1>1. r # w => Diff(After(r), w) = Diff(r, w) - 1
  BY RtpPoolAssumption DEF Slots, Diff, After
<1>2. Diff(r, w) < Pool - 1 => Diff(r, After(w)) = Diff(r, w) + 1
  BY RtpPoolAssumption DEF Slots, Diff, After
<1>3. QED
  BY <1>1, <1>2

(* As many slots from the first on are the same slot.                      *)
LEMMA SameDiff ==
  ASSUME NEW r \in Slots, NEW w \in Slots, NEW s \in Slots, Diff(r, s) = Diff(r, w)
  PROVE  s = w
BY RtpPoolAssumption DEF Slots, Diff

-----------------------------------------------------------------------------
(* Sequences told element by element.                                      *)
IsSeq(s, k) == s = [i \in 1 .. k |-> s[i]]

LEMMA SeqOf ==
  ASSUME NEW k \in Nat, NEW s, NEW S, IsSeq(s, k), \A i \in 1 .. k : s[i] \in S
  PROVE  s \in Seq(S) /\ Len(s) = k
BY DEF IsSeq

LEMMA Appended ==
  ASSUME NEW k \in Nat, NEW s, NEW t, IsSeq(s, k), IsSeq(t, k + 1), \A i \in 1 .. k : t[i] = s[i]
  PROVE  t = Append(s, t[k + 1])
<1> DEFINE S == {t[i] : i \in 1 .. k + 1}
<1>1. \A i \in 1 .. k : s[i] \in S
  OBVIOUS
<1>2. \A i \in 1 .. k + 1 : t[i] \in S
  OBVIOUS
<1>3. t[k + 1] \in S
  OBVIOUS
<1> HIDE DEF S
<1>4. s \in Seq(S) /\ Len(s) = k /\ t \in Seq(S) /\ Len(t) = k + 1
  BY <1>1, <1>2, SeqOf
<1>5. QED
  BY <1>3, <1>4

LEMMA Removed ==
  ASSUME NEW k \in Nat \ {0}, NEW s, NEW t, IsSeq(s, k), IsSeq(t, k - 1),
         \A i \in 1 .. k - 1 : t[i] = s[i + 1]
  PROVE  t = Tail(s) /\ s # <<>> /\ Head(s) = s[1]
<1> DEFINE S == {s[i] : i \in 1 .. k}
<1>1. \A i \in 1 .. k : s[i] \in S
  OBVIOUS
<1>2. \A i \in 1 .. k - 1 : t[i] \in S
  OBVIOUS
<1> HIDE DEF S
<1>3. s \in Seq(S) /\ Len(s) = k /\ t \in Seq(S) /\ Len(t) = k - 1
  <2>1. k - 1 \in Nat
    OBVIOUS
  <2>2. QED
    BY <1>1, <1>2, <2>1, SeqOf
<1>4. QED
  BY <1>3

LEMMA Preceded ==
  ASSUME NEW k \in Nat, NEW s, NEW t, IsSeq(s, k), IsSeq(t, k + 1), \A i \in 1 .. k : t[i + 1] = s[i]
  PROVE  t = <<t[1]>> \o s
<1> DEFINE S == {t[i] : i \in 1 .. k + 1}
<1>1. \A i \in 1 .. k : s[i] \in S
  <2>1. \A i \in 1 .. k : i + 1 \in 1 .. k + 1 /\ s[i] = t[i + 1]
    OBVIOUS
  <2>2. QED
    BY <2>1
<1>2. \A i \in 1 .. k + 1 : t[i] \in S
  OBVIOUS
<1>3. t[1] \in S
  OBVIOUS
<1> HIDE DEF S
<1>4. s \in Seq(S) /\ Len(s) = k /\ t \in Seq(S) /\ Len(t) = k + 1
  BY <1>1, <1>2, SeqOf
<1>5. QED
  BY <1>3, <1>4

-----------------------------------------------------------------------------
(* The last packet sent is one of the numbers the queue is made of.        *)
NumberInv ==
  /\ source \in Sources /\ received \in Nat /\ received <= source.packets
  /\ sent \in Nat /\ sent <= source.start + received * (1 + source.loss)

LEMMA Times ==
  ASSUME NEW a \in Nat, NEW b \in Nat, NEW c \in Nat, a <= b
  PROVE  (a + 1) * c = a * c + c /\ a * c <= b * c
<1>1. (a + 1) * c = a * c + c
  OBVIOUS
<1>2. PICK d \in Nat : b = a + d
  <2>1. b - a \in Nat /\ b = a + (b - a)
    OBVIOUS
  <2>2. QED
    BY <2>1
<1>3. b * c = a * c + d * c /\ d * c >= 0
  BY <1>2
<1>4. QED
  BY <1>1, <1>3

LEMMA NumberStep == NumberInv /\ [Next]_vars => NumberInv'
<1> SUFFICES ASSUME NumberInv, [Next]_vars PROVE NumberInv'
  OBVIOUS
<1>1. CASE Receive
  <2>1. PICK n \in sent .. sent + 1 + source.loss : sent' = n /\ n > 0
    BY <1>1 DEF Receive
  <2>2. received < source.packets /\ received' = received + 1 /\ source' = source
    BY <1>1 DEF Receive, reader
  <2>3. source.loss \in Nat /\ source.packets \in Nat /\ source.start \in Nat
    BY RtpPoolAssumption DEF NumberInv
  <2> DEFINE c == 1 + source.loss
             p == received * c
             q == (received + 1) * c
  <2>4. c \in Nat /\ received \in Nat
    BY <2>3 DEF NumberInv
  <2>5. q = p + c /\ p \in Nat
    BY <2>4, Times
  <2>6. sent \in Nat /\ sent <= source.start + p /\ n \in Int /\ n >= 0 /\ n <= sent + c
    BY <2>1, <2>3 DEF NumberInv
  <2> HIDE DEF q, p
  <2>7. sent' \in Nat /\ sent' <= source.start + q
    BY <2>1, <2>3, <2>4, <2>5, <2>6
  <2>8. QED
    BY <2>2, <2>3, <2>7 DEF NumberInv, q
<1>2. CASE NoData \/ Timeout \/ Process \/ Reader \/ UNCHANGED vars
  <2>1. UNCHANGED <<source, received, sent>>
    BY <1>2 DEF NoData, Timeout, Process, Reader, BeginRead, Underflow, DecapBroken, Decap, Copy,
       vars, receiver, reader
  <2>2. QED
    BY <2>1 DEF NumberInv
<1>3. QED
  BY <1>1, <1>2 DEF Next, Receiver

SentIsNumber == sent \in Numbers

LEMMA SentNumber == NumberInv => SentIsNumber
<1> SUFFICES ASSUME NumberInv PROVE sent \in Numbers
  BY DEF SentIsNumber
<1>1. source.loss \in Nat /\ source.packets \in Nat /\ source.start \in Nat /\ source \in Sources
  BY RtpPoolAssumption DEF NumberInv
<1> DEFINE c == 1 + source.loss
           p == received * c
           q == source.packets * c
<1>2. c \in Nat /\ p <= q /\ p \in Nat /\ q \in Nat
  BY <1>1, Times DEF NumberInv
<1>3. sent \in Nat /\ sent <= source.start + p
  BY DEF NumberInv
<1> HIDE DEF p, q
<1>4. sent \in 0 .. source.start + q
  BY <1>1, <1>2, <1>3
<1>5. sent \in 0 .. LastNumber(source)
  BY <1>4 DEF LastNumber, q
<1>6. QED
  BY <1>1, <1>5 DEF Numbers

LEMMA SentNumberNext == NumberInv' => sent' \in Numbers
<1>1. NumberInv' => SentIsNumber'
  BY SentNumber, PTL
<1>2. QED
  BY <1>1 DEF SentIsNumber

-----------------------------------------------------------------------------
(* With packets of one kind and one length, n: the packets from the first  *)
(* one not wholly read on are as they came, and so is the one recvfrom has *)
(* given; the piece being read lies in the payload of the first.           *)
Alike(n) == source.kinds = {TRUE} /\ source.lengths = {n}

First == IF tpc = "copy" /\ src.over = TRUE THEN src.slot ELSE rd

Fine(s, n) == pkt_pool[s].rtp = TRUE /\ pkt_pool[s].len = n /\ pkt_pool[s].num \in Numbers

SlotsInv(n) ==
  /\ is_rtp = TRUE
  /\ rpc = "process" => Fine(wr, n)
  /\ \A s \in Slots : Diff(First, s) < Diff(First, wr) => Fine(s, n) /\ pkt_raw_size[s] = n
  /\ First # wr => n > Header /\ one_pkt_size = n

PieceInv(n) ==
  /\ src.from \in Int
  /\ rd_pool.tot_r_size > 0 => rd_pool.tot_r_size = n - Header /\ rd_pool.start = Header
  /\ rd_pool.tot_r_size > 0 => rd_pool.seek >= 1 /\ rd_pool.seek < n - Header
  /\ tpc = "loop" => room > 0
  /\ tpc = "copy" => src.from >= Header /\ src.size >= 1 /\ src.size <= room /\ src.from + src.size <= n
  /\ tpc = "copy" => src.slot = First /\ src.slot \in Slots /\ src.over \in BOOLEAN
  /\ tpc = "copy" /\ src.over = TRUE =>
       After(src.slot) = rd /\ src.from + src.size = n /\ ~(rd_pool.tot_r_size > 0)
  /\ tpc = "copy" /\ src.over = FALSE =>
       rd_pool.tot_r_size > 0 /\ rd_pool.seek = (src.from - Header) + src.size

QueueInv(n) == ShapeInv /\ ReadInv /\ Alike(n) /\ SlotsInv(n) /\ PieceInv(n)

Item(s) == [num |-> pkt_pool[s].num, size |-> Size(pkt_pool[s])]
Line == [i \in 1 .. Diff(First, wr) |-> Item(Place(First, i))]

LEMMA FirstSlot ==
  ASSUME NEW n \in Nat, QueueInv(n)
  PROVE  First \in Slots /\ wr \in Slots /\ rd \in Slots /\ (tpc = "copy" => First # wr)
<1>1. tpc = "copy" => src.slot \in Slots /\ src.slot = First /\ src.slot # wr
  BY DEF QueueInv, PieceInv, ReadInv
<1>2. rd \in Slots /\ wr \in Slots
  BY DEF QueueInv, ShapeInv
<1>3. tpc # "copy" => First = rd
  BY DEF First
<1>4. QED
  BY <1>1, <1>2, <1>3

(* A slot that waits is not the one recvfrom writes.                       *)
LEMMA LineSlots ==
  ASSUME NEW n \in Nat, QueueInv(n), NEW i \in 1 .. Diff(First, wr)
  PROVE  Place(First, i) \in Slots /\ Place(First, i) # wr /\ Fine(Place(First, i), n)
<1>1. First \in Slots /\ wr \in Slots /\ Diff(First, wr) \in 0 .. Pool - 1
  BY FirstSlot, DiffIs
<1>2. i \in 1 .. Pool /\ i - 1 < Diff(First, wr)
  BY <1>1, RtpPoolAssumption
<1>3. Place(First, i) \in Slots /\ Diff(First, Place(First, i)) = i - 1
  BY <1>1, <1>2, AtIs, DiffAt
<1>4. QED
  BY <1>2, <1>3 DEF QueueInv, SlotsInv

(* The packets the refinement mapping speaks of are those from First on.   *)
QueuedIs == [i \in 1 .. Diff(First, wr) |-> Place(First, i)]

LEMMA QueuedSlots ==
  ASSUME NEW n \in Nat, QueueInv(n)
  PROVE  Queued = QueuedIs
<1> DEFINE k == Diff(rd, wr)
           s == [i \in 1 .. k |-> Place(rd, i)]
<1>1. First \in Slots /\ wr \in Slots /\ rd \in Slots
  BY FirstSlot
<1>2. k \in 0 .. Pool - 1 /\ k \in Nat
  BY <1>1, DiffIs, RtpPoolAssumption
<1>3. Queued = Pending \o s
  BY DEF Queued, Place
<1>4. CASE tpc = "copy" /\ src.over = TRUE
  <2>1. First = src.slot /\ After(First) = rd /\ First # wr /\ Pending = <<First>>
    BY <1>4, FirstSlot DEF First, Pending, QueueInv, PieceInv
  <2>2. Diff(First, wr) \in 0 .. Pool - 1 /\ Diff(rd, wr) = Diff(First, wr) - 1
    BY <1>1, <2>1, DiffAfter, DiffIs
  <2>3. Diff(First, wr) = k + 1
    BY <2>2, RtpPoolAssumption
  <2>4. \A i \in 1 .. k : Place(First, i + 1) = Place(rd, i)
    <3>1. \A i \in 1 .. k : i \in 1 .. Pool - 1
      BY <1>2, RtpPoolAssumption
    <3>2. QED
      BY <1>1, <2>1, <3>1, AfterAt
  <2> DEFINE t == [i \in 1 .. k + 1 |-> Place(First, i)]
  <2>5. IsSeq(s, k) /\ IsSeq(t, k + 1) /\ t[1] = Place(First, 1)
    BY <1>2 DEF IsSeq
  <2>6. \A i \in 1 .. k : t[i + 1] = s[i]
    BY <1>2, <2>4
  <2>7. Place(First, 1) = First
    <3>1. 1 \in 1 .. Pool /\ (First + 1) - 1 = First /\ First < Pool
      BY <1>1, RtpPoolAssumption DEF Slots
    <3>2. QED
      BY <1>1, <3>1, AtIs
  <2> HIDE DEF k, s, t
  <2>8. t = <<t[1]>> \o s
    BY <1>2, <2>5, <2>6, Preceded
  <2>9. Queued = t
    BY <1>3, <2>1, <2>5, <2>7, <2>8
  <2>10. QED
    BY <2>3, <2>9 DEF t, QueuedIs
<1>5. CASE ~(tpc = "copy" /\ src.over = TRUE)
  <2>1. First = rd
    BY <1>5 DEF First
  <2>2. Pending = <<>>
    BY <1>5 DEF Pending, QueueInv, PieceInv
  <2>3. s \in Seq(Slots)
    <3>1. IsSeq(s, k)
      BY DEF IsSeq
    <3>2. \A i \in 1 .. k : i \in 1 .. Pool
      BY <1>2, RtpPoolAssumption
    <3>3. \A i \in 1 .. k : s[i] \in Slots
      BY <1>1, <3>2, AtIs
    <3> HIDE DEF k, s
    <3>4. QED
      BY <1>2, <3>1, <3>3, SeqOf
  <2>4. <<>> \o s = s
    <3> HIDE DEF s
    <3>1. QED
      BY <2>3
  <2>5. QED
    BY <1>3, <2>1, <2>2, <2>4 DEF QueuedIs
<1>6. QED
  BY <1>4, <1>5

(* What the mapping makes of a state with packets alike.                   *)
Done == IF tpc = "copy" THEN src.from - Header ELSE IF rd_pool.tot_r_size > 0 THEN rd_pool.seek ELSE 0
Mapped == Contents = Line /\ Taken = Done /\ Piece = chunk

LEMMA MappedIs == ASSUME NEW n \in Nat PROVE QueueInv(n) => Mapped
<1> SUFFICES ASSUME QueueInv(n) PROVE Mapped
  OBVIOUS
<1>1. Uniform
  BY DEF QueueInv, Alike, Uniform
<1>2. Contents = Line
  <2>1. Contents = [i \in DOMAIN Queued |-> Item(Queued[i])]
    BY <1>1 DEF Contents, Item
  <2>2. QED
    BY <2>1, QueuedSlots DEF Line, QueuedIs
<1>3. QED
  BY <1>1, <1>2 DEF Mapped, Taken, Done, Piece

-----------------------------------------------------------------------------
(* The steps.  The queue stays where nothing it is made of changes.        *)
Still == UNCHANGED <<Line, Done, chunk>>

LEMMA LineStays ==
  ASSUME NEW n \in Nat, QueueInv(n), First' = First, wr' = wr,
         \A s \in Slots : s # wr => pkt_pool'[s] = pkt_pool[s]
  PROVE  Line' = Line
<1>1. \A i \in 1 .. Diff(First, wr) : Place(First, i) \in Slots /\ Place(First, i) # wr
  BY LineSlots
<1>2. \A i \in 1 .. Diff(First, wr) : Item(Place(First, i))' = Item(Place(First, i))
  BY <1>1 DEF Item, Size, HeadOf, Place
<1>3. Line' = [i \in 1 .. Diff(First, wr) |-> Item(Place(First, i))']
  BY DEF Line, Diff, Place
<1>4. QED
  BY <1>2, <1>3 DEF Line

(* The slots that wait stay as they are.                                   *)
LEMMA SlotsStay ==
  ASSUME NEW n \in Nat, QueueInv(n), First' = First, wr' = wr,
         UNCHANGED <<is_rtp, one_pkt_size, rpc, pkt_pool, pkt_raw_size>>
  PROVE  SlotsInv(n)' /\ Line' = Line
<1>1. SlotsInv(n)'
  BY DEF QueueInv, SlotsInv, Fine, Diff
<1>2. Line' = Line
  BY LineStays
<1>3. QED
  BY <1>1, <1>2

LEMMA ReceiveStep ==
  ASSUME NEW n \in Nat, QueueInv(n), NumberInv, NumberInv', Receive
  PROVE  SlotsInv(n)' /\ PieceInv(n)' /\ Still
<1>1. UNCHANGED <<wr, rd, rd_pool, is_rtp, one_pkt_size, pkt_raw_size, tpc, mutex, room, src, chunk>>
  BY DEF Receive, reader
<1>2. First' = First
  BY <1>1 DEF First
<1>3. PieceInv(n)' /\ Done' = Done
  BY <1>1, <1>2 DEF QueueInv, PieceInv, Done
<1>4. PICK m \in sent .. sent + 1 + source.loss, rtp \in source.kinds, len \in source.lengths :
        sent' = m /\ pkt_pool' = [pkt_pool EXCEPT ![wr] = [num |-> m, rtp |-> rtp, len |-> len]]
  BY DEF Receive
<1>5. rtp = TRUE /\ len = n
  BY <1>4 DEF QueueInv, Alike
<1>6. m \in Numbers
  BY <1>4, SentNumberNext
<1>7. Fine(wr, n)'
  <2>1. pkt_pool'[wr] = [num |-> m, rtp |-> rtp, len |-> len]
    BY <1>4 DEF QueueInv, ShapeInv
  <2>2. QED
    BY <1>1, <1>5, <1>6, <2>1 DEF Fine
<1>8. \A s \in Slots : s # wr => pkt_pool'[s] = pkt_pool[s]
  BY <1>4 DEF QueueInv, ShapeInv
<1>9. SlotsInv(n)'
  <2>1. \A s \in Slots : Diff(First, s) < Diff(First, wr) => s # wr
    BY FirstSlot, DiffIs, RtpPoolAssumption
  <2>2. \A s \in Slots : Diff(First, s) < Diff(First, wr) => Fine(s, n)' /\ pkt_raw_size[s] = n
    BY <1>8, <2>1 DEF QueueInv, SlotsInv, Fine
  <2>3. (is_rtp = TRUE /\ (First # wr => n > Header /\ one_pkt_size = n))'
    BY <1>1, <1>2 DEF QueueInv, SlotsInv
  <2>4. \A s : Diff(First, s)' = Diff(First, s)
    BY <1>2 DEF Diff
  <2>5. QED
    BY <1>1, <1>2, <1>7, <2>2, <2>3 DEF SlotsInv, Diff
<1>10. Line' = Line
  BY <1>1, <1>2, <1>8, LineStays
<1>11. QED
  BY <1>1, <1>3, <1>9, <1>10 DEF Still

(* recvfrom has nothing, a call begins, or it ends for want of packets.    *)
LEMMA QuietStep ==
  ASSUME NEW n \in Nat, QueueInv(n), NoData \/ (\E m \in Reads : BeginRead(m)) \/ Underflow \/ UNCHANGED vars
  PROVE  SlotsInv(n)' /\ PieceInv(n)' /\ Still
<1>1. UNCHANGED <<wr, rd, rd_pool, is_rtp, one_pkt_size, pkt_raw_size, pkt_pool, rpc, src, chunk>>
  BY DEF NoData, BeginRead, Underflow, vars, reader, receiver
<1>2. \/ tpc' = tpc /\ room' = room
      \/ tpc # "copy" /\ tpc' = "loop" /\ room' \in Reads
      \/ tpc # "copy" /\ tpc' = "idle"
  BY DEF NoData, BeginRead, Underflow, vars, reader
<1>3. First' = First /\ Done' = Done
  BY <1>1, <1>2 DEF First, Done
<1>4. \A m \in Reads : m > 0
  BY RtpPoolAssumption
<1>5. PieceInv(n)'
  BY <1>1, <1>2, <1>3, <1>4 DEF QueueInv, PieceInv
<1>6. SlotsInv(n)' /\ Line' = Line
  BY <1>1, <1>3, SlotsStay
<1>7. QED
  BY <1>1, <1>3, <1>5, <1>6 DEF Still

(* All that was not read is dropped.                                       *)
LEMMA TimeoutStep ==
  ASSUME NEW n \in Nat, QueueInv(n), Timeout
  PROVE  SlotsInv(n)' /\ PieceInv(n)' /\ Line' = <<>> /\ Done' = 0 /\ chunk' = chunk
<1>1. /\ rd' = 0 /\ wr' = 0 /\ rd_pool' = [rd_pool EXCEPT !.tot_r_size = 0, !.seek = 0]
      /\ rpc = "recv" /\ mutex = "free"
      /\ UNCHANGED <<is_rtp, one_pkt_size, pkt_raw_size, pkt_pool, rpc, tpc, room, src, chunk>>
  BY DEF Timeout, Flush, reader
<1>2. tpc # "copy" /\ tpc # "loop"
  BY <1>1 DEF QueueInv, ReadInv
<1>3. First' = 0 /\ Diff(First', wr') = 0
  BY <1>1, <1>2, RtpPoolAssumption DEF First, Diff
<1>4. rd_pool'.tot_r_size = 0
  BY <1>1 DEF QueueInv, ShapeInv, Reading
<1>5. PieceInv(n)'
  BY <1>1, <1>2, <1>4 DEF QueueInv, PieceInv
<1>6. SlotsInv(n)'
  <2>1. \A s \in Slots : ~(Diff(First', s) < 0)
    BY <1>3, RtpPoolAssumption DEF Slots, Diff
  <2>2. is_rtp' = TRUE /\ rpc' # "process" /\ First' = wr'
    BY <1>1, <1>3 DEF QueueInv, SlotsInv
  <2>3. QED
    BY <1>3, <2>1, <2>2 DEF SlotsInv, Diff
<1>7. Line' = <<>>
  BY <1>3 DEF Line, Diff
<1>8. Done' = 0
  BY <1>1, <1>2, <1>4 DEF Done
<1>9. QED
  BY <1>1, <1>5, <1>6, <1>7, <1>8

(* A packet is looked at: it is the next of the queue, unless it is too    *)
(* short or the pool is full.                                              *)
Short(n) == n <= Header
Arrived(n) == Item(wr) \in [num : Numbers, size : 1 .. n - Header] /\ Line' = Append(Line, Item(wr))

LEMMA LookedAt ==
  ASSUME NEW n \in Nat, QueueInv(n), Process
  PROVE  /\ is_rtp' = TRUE
         /\ pkt_raw_size' = [pkt_raw_size EXCEPT ![wr] = IF Short(n) THEN 0 ELSE n]
         /\ one_pkt_size' = IF Short(n) THEN one_pkt_size ELSE n
         /\ wr' = IF Full \/ Short(n) THEN wr ELSE After(wr)
<1>1. pkt_pool[wr].rtp = TRUE /\ pkt_pool[wr].len = n
  BY DEF QueueInv, SlotsInv, Fine, Process
<1>2. QED
  BY <1>1 DEF Process, Short

LEMMA ProcessStep ==
  ASSUME NEW n \in Nat, QueueInv(n), Process
  PROVE  SlotsInv(n)' /\ PieceInv(n)' /\ UNCHANGED <<Done, chunk>> /\ (Line' = Line \/ Arrived(n))
<1>1. /\ rpc = "process" /\ rpc' = "recv" /\ mutex = "free"
      /\ UNCHANGED <<pkt_pool, rd, rd_pool, tpc, mutex, room, src, chunk>>
  BY DEF Process, reader
<1>2. First' = First /\ Done' = Done
  BY <1>1 DEF First, Done
<1>3. PieceInv(n)'
  BY <1>1, <1>2 DEF QueueInv, PieceInv
<1>4. First = rd /\ First \in Slots /\ wr \in Slots
  BY <1>1, FirstSlot DEF QueueInv, ReadInv, First
<1>5. Header \in Nat /\ Diff(First, wr) \in 0 .. Pool - 1
  BY <1>4, DiffIs, RtpPoolAssumption
<1>6. \A s \in Slots : s # wr => pkt_raw_size'[s] = pkt_raw_size[s]
  BY LookedAt DEF QueueInv, ShapeInv
<1>7. \A s \in Slots : Diff(First, s) < Diff(First, wr) => s # wr
  BY <1>5
<1>8. \A s \in Slots : Diff(First, s) < Diff(First, wr) => Fine(s, n)' /\ pkt_raw_size'[s] = n
  BY <1>1, <1>6, <1>7 DEF QueueInv, SlotsInv, Fine
<1>9. CASE wr' = wr
  <2>1. First' # wr' => n > Header /\ one_pkt_size' = n
    BY <1>2, <1>9, LookedAt DEF QueueInv, SlotsInv, Short
  <2>2. SlotsInv(n)'
    BY <1>1, <1>2, <1>8, <1>9, <2>1, LookedAt DEF SlotsInv, Diff
  <2>3. Line' = Line
    BY <1>1, <1>2, <1>9, LineStays
  <2>4. QED
    BY <1>1, <1>2, <1>3, <2>2, <2>3
<1>10. CASE wr' # wr
  <2>1. ~Full /\ ~Short(n) /\ wr' = After(wr)
    <3>1. ~(Full \/ Short(n))
      BY <1>10, LookedAt
    <3>2. QED
      BY <3>1, LookedAt
  <2>2. n > Header /\ one_pkt_size' = n
    <3>1. one_pkt_size' = n
      BY <2>1, LookedAt
    <3>2. n > Header
      BY <1>5, <2>1 DEF Short
    <3>3. QED
      BY <3>1, <3>2
  <2>3. pkt_raw_size'[wr] = n
    <3>1. pkt_raw_size' = [pkt_raw_size EXCEPT ![wr] = n]
      BY <2>1, LookedAt
    <3>2. QED
      BY <1>4, <3>1 DEF QueueInv, ShapeInv
  <2>4. Diff(First, wr) < Pool - 2
    BY <1>4, <1>5, <2>1, RtpPoolAssumption DEF Full
  <2> DEFINE k == Diff(First, wr)
  <2>5. Diff(First, After(wr)) = k + 1 /\ k \in Nat /\ k + 1 \in 1 .. Pool
    BY <1>4, <1>5, <2>4, DiffAfter, RtpPoolAssumption
  <2>6. Diff(First', wr') = k + 1
    BY <1>2, <2>1, <2>5
  <2>7. Fine(wr, n)
    BY <1>1 DEF QueueInv, SlotsInv
  <2>8. \A s \in Slots : Fine(s, n)' <=> Fine(s, n)
    BY <1>1 DEF Fine
  <2>9. \A s \in Slots : Diff(First, s) < k + 1 => Fine(s, n)' /\ pkt_raw_size'[s] = n
    <3>1. SUFFICES ASSUME NEW s \in Slots, Diff(First, s) < k + 1
                   PROVE  Fine(s, n)' /\ pkt_raw_size'[s] = n
      OBVIOUS
    <3>2. Diff(First, s) \in Int
      BY <1>4, DiffIs
    <3>3. CASE Diff(First, s) < k
      BY <1>8, <3>3
    <3>4. CASE Diff(First, s) = k
      <4>1. s = wr
        BY <1>4, <3>4, SameDiff
      <4>2. QED
        BY <2>3, <2>7, <2>8, <4>1
    <3>5. QED
      BY <2>5, <3>1, <3>2, <3>3, <3>4
  <2>10. SlotsInv(n)'
    <3>1. \A s \in Slots : Diff(First, s)' < Diff(First, wr)' => Fine(s, n)' /\ pkt_raw_size'[s] = n
      BY <1>2, <2>6, <2>9 DEF Diff
    <3>2. is_rtp' = TRUE /\ rpc' # "process"
      BY <1>1, LookedAt
    <3>3. QED
      BY <2>2, <3>1, <3>2 DEF SlotsInv
  <2>11. Line' = Append(Line, Item(wr))
    <3>1. Line' = [i \in 1 .. k + 1 |-> Item(Place(First, i))]
      BY <1>1, <1>2, <2>6 DEF Line, Item, Size, HeadOf, Place
    <3>2. IsSeq(Line, k) /\ IsSeq(Line', k + 1)
      BY <3>1 DEF Line, IsSeq
    <3>3. \A i \in 1 .. k : Line'[i] = Line[i]
      <4>1. Line = [i \in 1 .. k |-> Item(Place(First, i))]
        BY DEF Line
      <4> HIDE DEF k
      <4>2. QED
        BY <2>5, <3>1, <4>1
    <3>4. Line'[k + 1] = Item(wr)
      <4>1. Place(First, k + 1) = wr
        BY <1>4, DiffIs
      <4>2. k + 1 \in 1 .. k + 1
        BY <2>5
      <4>3. QED
        BY <3>1, <4>1, <4>2
    <3> HIDE DEF k
    <3>5. Line' = Append(Line, Line'[k + 1])
      BY <2>5, <3>2, <3>3, Appended
    <3>6. QED
      BY <3>4, <3>5
  <2>12. Item(wr) \in [num : Numbers, size : 1 .. n - Header]
    <3>1. pkt_pool[wr].num \in Numbers /\ Size(pkt_pool[wr]) = n - Header
      BY <2>7 DEF Fine, Size, HeadOf
    <3>2. n - Header \in 1 .. n - Header
      BY <1>5, <2>2
    <3>3. QED
      BY <3>1, <3>2 DEF Item
  <2>13. QED
    BY <1>1, <1>2, <1>3, <2>10, <2>11, <2>12 DEF Arrived
<1>11. QED
  BY <1>9, <1>10

(* A reader cuts the first packet where it stopped.                        *)
LEMMA OpenedIs ==
  ASSUME NEW n \in Nat, QueueInv(n), rd # wr, First = rd
  PROVE  /\ Opened.tot_r_size = n - Header /\ Opened.start = Header /\ Opened.slot = rd
         /\ Opened.seek \in Int /\ Opened.seek >= 0 /\ Opened.seek < n - Header
         /\ Opened.seek = IF rd_pool.tot_r_size > 0 THEN rd_pool.seek ELSE 0
         /\ n > Header /\ pkt_raw_size[rd] = n /\ one_pkt_size = n
<1>1. Header \in Nat /\ rd \in Slots /\ wr \in Slots
  BY RtpPoolAssumption, FirstSlot
<1>2. n > Header /\ one_pkt_size = n /\ is_rtp = TRUE
  BY DEF QueueInv, SlotsInv
<1>3. pkt_raw_size[rd] = n
  <2>1. Diff(rd, rd) = 0 /\ Diff(rd, wr) # 0 /\ Diff(rd, wr) \in 0 .. Pool - 1
    BY <1>1, DiffIs
  <2>2. Diff(First, rd) < Diff(First, wr)
    BY <2>1, RtpPoolAssumption
  <2>3. QED
    BY <1>1, <2>2 DEF QueueInv, SlotsInv
<1>4. CASE rd_pool.tot_r_size > 0
  <2>1. Opened = rd_pool
    BY <1>4 DEF Opened, Rest
  <2>2. rd_pool.seek \in Int /\ rd_pool.slot = rd
    BY <1>4 DEF QueueInv, ShapeInv, ReadInv, Reading
  <2>3. /\ rd_pool.tot_r_size = n - Header /\ rd_pool.start = Header
        /\ rd_pool.seek >= 1 /\ rd_pool.seek < n - Header
    BY <1>4 DEF QueueInv, PieceInv
  <2>4. rd_pool.seek >= 0
    BY <2>2, <2>3
  <2>5. QED
    BY <1>2, <1>3, <1>4, <2>1, <2>2, <2>3, <2>4
<1>5. CASE ~(rd_pool.tot_r_size > 0)
  <2>1. Opened = [tot_r_size |-> n - Header, seek |-> 0, slot |-> rd, start |-> Header]
    BY <1>2, <1>3, <1>5 DEF Opened
  <2>2. 0 < n - Header
    BY <1>1, <1>2
  <2>3. QED
    BY <1>2, <1>3, <1>5, <2>1, <2>2
<1>6. QED
  BY <1>4, <1>5

LEMMA NotBroken ==
  ASSUME NEW n \in Nat, QueueInv(n), rd # wr, First = rd
  PROVE  ~Broken
<1>1. Header \in Nat
  BY RtpPoolAssumption
<1>2. ~(pkt_raw_size[rd] <= Header)
  BY <1>1, OpenedIs
<1>3. ~(Opened.tot_r_size - Opened.seek > one_pkt_size)
  BY <1>1, OpenedIs
<1>4. QED
  BY <1>2, <1>3 DEF Broken

LEMMA DecapKeeps ==
  ASSUME NEW n \in Nat, QueueInv(n), Decap
  PROVE  SlotsInv(n)' /\ PieceInv(n)' /\ Still
<1> DEFINE seek == Opened.seek
           size == Smaller((n - Header) - seek, room)
           over == seek + size >= n - Header
<1>1. tpc = "loop" /\ wr # rd /\ First = rd
  BY DEF Decap, First
<1>2. /\ Opened.tot_r_size = n - Header /\ Opened.start = Header /\ Opened.slot = rd
      /\ seek \in Int /\ seek >= 0 /\ seek < n - Header
      /\ seek = IF rd_pool.tot_r_size > 0 THEN rd_pool.seek ELSE 0
  BY <1>1, OpenedIs
<1>3. /\ src' = [slot |-> rd, from |-> Header + seek, size |-> size, over |-> over]
      /\ rd_pool' = [Opened EXCEPT !.seek = @ + size, !.tot_r_size = IF over THEN 0 ELSE @]
      /\ rd' = IF over THEN After(rd) ELSE rd
      /\ tpc' = "copy"
      /\ UNCHANGED <<room, chunk, wr, is_rtp, one_pkt_size, pkt_raw_size, pkt_pool, rpc>>
  BY <1>2 DEF Decap, receiver
<1>4. Opened \in Reading
  BY OpenedShape DEF QueueInv
<1>5. /\ rd_pool'.seek = seek + size /\ rd_pool'.start = Header
      /\ rd_pool'.tot_r_size = IF over THEN 0 ELSE n - Header
  BY <1>2, <1>3, <1>4 DEF Reading
<1>6. room \in Int /\ room > 0 /\ Header \in Nat
  BY <1>1, RtpPoolAssumption DEF QueueInv, PieceInv, ShapeInv
<1> HIDE DEF seek
<1>7. size \in Int /\ size >= 1 /\ size <= room /\ seek + size <= n - Header
  BY <1>2, <1>6 DEF Smaller
<1> HIDE DEF size
<1>8. over => seek + size = n - Header
  BY <1>2, <1>6, <1>7
<1>9. ~over => seek + size < n - Header
  BY <1>2, <1>6, <1>7
<1> HIDE DEF over
<1>10. src'.slot = rd /\ src'.from = Header + seek /\ src'.size = size /\ src'.over = over /\ over \in BOOLEAN
  BY <1>3 DEF over
<1>11. First' = rd
  BY <1>3, <1>10 DEF First
<1>12. PieceInv(n)'
  <2>1. src'.from \in Int /\ src'.from >= Header /\ src'.from + src'.size <= n /\ src'.from - Header = seek
    BY <1>2, <1>6, <1>7, <1>10
  <2>2. (src'.over = TRUE) => src'.from + src'.size = n /\ ~(rd_pool'.tot_r_size > 0)
    BY <1>2, <1>5, <1>6, <1>7, <1>8, <1>10
  <2>3. (src'.over = TRUE) => After(src'.slot) = rd'
    BY <1>3, <1>10
  <2>4. (src'.over = FALSE) => rd_pool'.tot_r_size > 0 /\ rd_pool'.seek = (src'.from - Header) + src'.size
    BY <1>2, <1>5, <1>6, <1>7, <1>10, <2>1
  <2>5. rd_pool'.tot_r_size > 0 => rd_pool'.tot_r_size = n - Header /\ rd_pool'.start = Header
    BY <1>5
  <2>6. rd_pool'.tot_r_size > 0 => rd_pool'.seek >= 1 /\ rd_pool'.seek < n - Header
    BY <1>2, <1>5, <1>7, <1>9
  <2>7. src'.size >= 1 /\ src'.size <= room'
    BY <1>3, <1>7, <1>10
  <2>8. src'.slot = First' /\ src'.slot \in Slots /\ src'.over \in BOOLEAN
    BY <1>10, <1>11 DEF QueueInv, ShapeInv
  <2>9. QED
    BY <1>3, <2>1, <2>2, <2>3, <2>4, <2>5, <2>6, <2>7, <2>8 DEF PieceInv
<1>13. SlotsInv(n)' /\ Line' = Line
  BY <1>1, <1>3, <1>11, SlotsStay
<1>14. Done' = Done
  <2>1. Done = seek
    BY <1>1, <1>2 DEF Done
  <2>2. Done' = src'.from - Header
    BY <1>3 DEF Done
  <2>3. QED
    BY <1>2, <1>6, <1>10, <2>1, <2>2
<1>15. QED
  BY <1>3, <1>12, <1>13, <1>14 DEF Still

(* A piece is copied: the next bytes of the first packet, which is gone    *)
(* when they were its last ones.                                           *)
Took(n) ==
  /\ src.size \in 1 .. n - Header /\ Done + src.size <= n - Header
  /\ Line # <<>> /\ Head(Line) = Item(First) /\ Item(First).size = n - Header
  /\ chunk' = [num |-> Item(First).num, from |-> Done, to |-> Done + src.size]
  /\ IF Done + src.size = n - Header
       THEN Line' = Tail(Line) /\ Done' = 0
       ELSE Line' = Line /\ Done' = Done + src.size

LEMMA CopyKeeps ==
  ASSUME NEW n \in Nat, QueueInv(n), Copy
  PROVE  SlotsInv(n)' /\ PieceInv(n)' /\ Took(n)
<1>1. /\ tpc = "copy" /\ room' = room - src.size
      /\ \/ room' = 0 /\ tpc' = "idle"
         \/ room' # 0 /\ tpc' = "loop"
      /\ UNCHANGED <<rd, rd_pool, src, wr, is_rtp, one_pkt_size, pkt_raw_size, pkt_pool, rpc>>
  BY DEF Copy, receiver
<1>2. First \in Slots /\ wr \in Slots /\ rd \in Slots /\ First # wr /\ First' = rd
  BY <1>1, FirstSlot DEF First
<1>3. /\ src.from \in Int /\ src.from >= Header /\ src.size \in Int /\ src.size >= 1
      /\ src.size <= room /\ src.from + src.size <= n /\ room \in Int /\ Header \in Nat
  BY <1>1, RtpPoolAssumption DEF QueueInv, PieceInv, ShapeInv
<1>4. src.slot = First /\ src.over \in BOOLEAN
  BY <1>1 DEF QueueInv, PieceInv
<1>5. src.over = TRUE => After(First) = rd /\ src.from + src.size = n /\ ~(rd_pool.tot_r_size > 0)
  BY <1>1, <1>4 DEF QueueInv, PieceInv
<1>6. src.over = FALSE =>
        rd = First /\ rd_pool.tot_r_size > 0 /\ rd_pool.seek = (src.from - Header) + src.size
  BY <1>1, <1>4 DEF QueueInv, PieceInv, First
<1>7. PieceInv(n)'
  <2>1. tpc' = "loop" => room' > 0
    BY <1>1, <1>3
  <2>2. tpc' # "copy"
    BY <1>1
  <2>3. QED
    BY <1>1, <2>1, <2>2 DEF QueueInv, PieceInv
<1> DEFINE k == Diff(First, wr)
<1>8. k \in Nat \ {0} /\ k \in 1 .. Pool - 1 /\ 1 \in 1 .. k
  BY <1>2, DiffIs, RtpPoolAssumption
<1>9. Place(First, 1) = First
  <2>1. 1 \in 1 .. Pool /\ (First + 1) - 1 = First /\ First < Pool
    BY <1>2, RtpPoolAssumption DEF Slots
  <2>2. QED
    BY <1>2, <2>1, AtIs
<1>10. Fine(First, n) /\ Line[1] = Item(First)
  BY <1>8, <1>9, LineSlots DEF Line
<1>11. Item(First).size = n - Header /\ Item(First).num = pkt_pool[First].num
  BY <1>10 DEF Fine, Item, Size, HeadOf
<1>12. Done = src.from - Header
  BY <1>1 DEF Done
<1>13. chunk' = [num |-> Item(First).num, from |-> Done, to |-> Done + src.size]
  BY <1>4, <1>10, <1>11, <1>12 DEF Copy, Fine, HeadOf
<1>14. Done' = IF rd_pool.tot_r_size > 0 THEN rd_pool.seek ELSE 0
  BY <1>1 DEF Done
<1> DEFINE t == [i \in 1 .. k - 1 |-> Line[i + 1]]
<1>15. t = Tail(Line) /\ Line # <<>> /\ Head(Line) = Item(First)
  <2>1. IsSeq(Line, k) /\ IsSeq(t, k - 1)
    BY DEF IsSeq, Line
  <2>2. \A i \in 1 .. k - 1 : t[i] = Line[i + 1]
    OBVIOUS
  <2> HIDE DEF t, k
  <2>3. QED
    BY <1>8, <1>10, <2>1, <2>2, Removed
<1>16. CASE src.over = TRUE
  <2>1. First' = After(First)
    BY <1>2, <1>5, <1>16
  <2>2. Diff(First', wr') = k - 1
    BY <1>1, <1>2, <2>1, DiffAfter
  <2>3. \A i \in 1 .. k - 1 : Place(First', i) = Place(First, i + 1)
    <3>1. \A i \in 1 .. k - 1 : i \in 1 .. Pool - 1
      BY <1>8, RtpPoolAssumption
    <3>2. QED
      BY <1>2, <2>1, <3>1, AfterAt
  <2>4. Line' = t
    <3>1. Line' = [i \in 1 .. k - 1 |-> Item(Place(First', i))]
      BY <1>1, <2>2 DEF Line, Item, Size, HeadOf, Place
    <3>2. Line = [i \in 1 .. k |-> Item(Place(First, i))]
      BY DEF Line
    <3> HIDE DEF k
    <3>3. \A i \in 1 .. k - 1 : i + 1 \in 1 .. k
      BY <1>8
    <3>4. \A i \in 1 .. k - 1 : Line[i + 1] = Item(Place(First, i + 1))
      BY <3>2, <3>3
    <3>5. QED
      BY <2>3, <3>1, <3>4
  <2>5. SlotsInv(n)'
    <3>1. \A s \in Slots : Diff(First', s) < k - 1 => Diff(First, s) < k
      <4>1. SUFFICES ASSUME NEW s \in Slots, Diff(First', s) < k - 1
                     PROVE  Diff(First, s) < k
        OBVIOUS
      <4>2. s # First => Diff(After(First), s) = Diff(First, s) - 1
        BY <1>2, DiffAfter
      <4>3. s = First => Diff(First, s) = 0
        BY <1>2, DiffIs
      <4>4. Diff(First, s) \in Int
        BY <1>2, DiffIs
      <4> HIDE DEF k
      <4>5. QED
        BY <1>8, <2>1, <4>1, <4>2, <4>3, <4>4
    <3>2. \A s \in Slots : Diff(First, s) < k => Fine(s, n) /\ pkt_raw_size[s] = n
      BY DEF QueueInv, SlotsInv
    <3>3. \A s \in Slots : Diff(First, s)' < Diff(First, wr)' => Fine(s, n)' /\ pkt_raw_size'[s] = n
      BY <1>1, <2>2, <3>1, <3>2 DEF Diff, Fine
    <3>4. is_rtp' = TRUE /\ n > Header /\ one_pkt_size' = n
      BY <1>1, <1>2 DEF QueueInv, SlotsInv
    <3>5. rpc' = "process" => Fine(wr, n)'
      BY <1>1 DEF QueueInv, SlotsInv, Fine
    <3>6. QED
      BY <3>3, <3>4, <3>5 DEF SlotsInv
  <2>6. Done + src.size = n - Header
    BY <1>3, <1>5, <1>12, <1>16
  <2>7. Done' = 0
    BY <1>5, <1>14, <1>16
  <2>8. src.size \in 1 .. n - Header
    BY <1>3, <1>12, <2>6
  <2>9. Done + src.size <= n - Header
    BY <1>3, <2>6
  <2>10. Line' = Tail(Line)
    BY <1>15, <2>4
  <2>11. Took(n)
    BY <1>11, <1>13, <1>15, <2>6, <2>7, <2>8, <2>9, <2>10 DEF Took
  <2>12. QED
    BY <1>7, <2>5, <2>11
<1>17. CASE src.over = FALSE
  <2>1. First' = First /\ rd_pool.tot_r_size > 0 /\ rd_pool.seek = Done + src.size
    BY <1>2, <1>6, <1>12, <1>17
  <2>2. rd_pool.seek < n - Header
    BY <2>1 DEF QueueInv, PieceInv
  <2>3. SlotsInv(n)' /\ Line' = Line
    BY <1>1, <2>1, SlotsStay
  <2>4. Done' = Done + src.size
    BY <1>14, <2>1
  <2>5. Done + src.size # n - Header /\ Done + src.size <= n - Header
    BY <1>3, <1>12, <2>1, <2>2
  <2>6. src.size \in 1 .. n - Header
    BY <1>3, <1>12, <2>5
  <2>7. Took(n)
    BY <1>11, <1>13, <1>15, <2>3, <2>4, <2>5, <2>6 DEF Took
  <2>8. QED
    BY <1>7, <2>3, <2>7
<1>18. QED
  BY <1>4, <1>16, <1>17

-----------------------------------------------------------------------------
(* Whatever the sender, the queue is followed as long as its packets are   *)
(* alike; with another one the mapping has nothing to follow.              *)
AlikeInv == source \in Sources /\ \A n \in Nat : Alike(n) => QueueInv(n)

(* What a step does to the queue.                                          *)
Follows(n) ==
  \/ Still
  \/ Arrived(n) /\ UNCHANGED <<Done, chunk>>
  \/ Took(n)
  \/ Line' = <<>> /\ Done' = 0 /\ chunk' = chunk

LEMMA QueueStep ==
  ASSUME NEW n \in Nat, QueueInv(n), NumberInv, NumberInv', [Next]_vars
  PROVE  QueueInv(n)' /\ Follows(n)
<1>1. ShapeInv' /\ ReadInv'
  BY ReadStep DEF QueueInv
<1>2. source' = source
  BY DEF Next, Receiver, Reader, Receive, NoData, Timeout, Process, BeginRead, Underflow,
     DecapBroken, Decap, Copy, vars, receiver, reader
<1>3. Alike(n)'
  BY <1>2 DEF QueueInv, Alike
<1> DEFINE Goal == SlotsInv(n)' /\ PieceInv(n)' /\ Follows(n)
           Dropped == Line' = <<>> /\ Done' = 0 /\ chunk' = chunk
           Grown == Arrived(n) /\ UNCHANGED <<Done, chunk>>
<1>4. Follows(n) <=> Still \/ Grown \/ Took(n) \/ Dropped
  BY DEF Follows
<1>5. ASSUME Receive PROVE Goal
  <2>1. SlotsInv(n)' /\ PieceInv(n)' /\ Still
    BY <1>5, ReceiveStep
  <2>2. QED
    BY <1>4, <2>1
<1>6. ASSUME NoData \/ (\E m \in Reads : BeginRead(m)) \/ Underflow \/ UNCHANGED vars PROVE Goal
  <2>1. SlotsInv(n)' /\ PieceInv(n)' /\ Still
    BY <1>6, QuietStep
  <2>2. QED
    BY <1>4, <2>1
<1>7. ASSUME Timeout PROVE Goal
  <2>1. SlotsInv(n)' /\ PieceInv(n)' /\ Dropped
    BY <1>7, TimeoutStep
  <2>2. QED
    BY <1>4, <2>1
<1>8. ASSUME Process PROVE Goal
  <2>1. SlotsInv(n)' /\ PieceInv(n)' /\ UNCHANGED <<Done, chunk>> /\ (Line' = Line \/ Arrived(n))
    BY <1>8, ProcessStep
  <2>2. Still \/ Grown
    BY <2>1 DEF Still
  <2>3. QED
    BY <1>4, <2>1, <2>2
<1>9. ASSUME Decap PROVE Goal
  <2>1. SlotsInv(n)' /\ PieceInv(n)' /\ Still
    BY <1>9, DecapKeeps
  <2>2. QED
    BY <1>4, <2>1
<1>10. ASSUME Copy PROVE Goal
  <2>1. SlotsInv(n)' /\ PieceInv(n)' /\ Took(n)
    BY <1>10, CopyKeeps
  <2>2. QED
    BY <1>4, <2>1
<1>11. ~DecapBroken
  <2> SUFFICES ASSUME DecapBroken PROVE FALSE
    OBVIOUS
  <2>1. tpc = "loop" /\ rd # wr /\ Broken
    BY DEF DecapBroken
  <2>2. First = rd
    BY <2>1 DEF First
  <2>3. QED
    BY <2>1, <2>2, NotBroken
<1>12. Goal
  BY <1>5, <1>6, <1>7, <1>8, <1>9, <1>10, <1>11 DEF Next, Receiver, Reader
<1>13. QED
  BY <1>1, <1>3, <1>12 DEF QueueInv

LEMMA MappedNext == ASSUME NEW n \in Nat PROVE QueueInv(n)' => Mapped'
<1>1. QueueInv(n) => Mapped
  BY MappedIs
<1>2. QED
  BY <1>1, PTL

LEMMA UniformIs ==
  ASSUME source \in Sources
  PROVE  Uniform <=> \E n \in Nat : Alike(n)
<1>1. \A n \in source.lengths : n \in Nat
  BY RtpPoolAssumption
<1>2. ASSUME Uniform PROVE \E n \in Nat : Alike(n)
  BY <1>1, <1>2 DEF Uniform, Alike
<1>3. ASSUME NEW n \in Nat, Alike(n) PROVE Uniform
  <2>1. source.lengths = {n} /\ n \in source.lengths
    BY <1>3 DEF Alike
  <2>2. QED
    BY <1>3, <2>1 DEF Alike, Uniform
<1>4. QED
  BY <1>2, <1>3

(* One step of the pool, seen as a step of the queue.                      *)
LEMMA QueueFollowed ==
  ASSUME NEW n \in Nat, QueueInv(n), NumberInv, NumberInv', [Next]_vars
  PROVE  [Queue!Next]_(Queue!vars)
<1>1. QueueInv(n)' /\ Follows(n)
  BY QueueStep
<1>2. Mapped /\ Mapped'
  BY <1>1, MappedIs, MappedNext
<1>3. /\ Contents = Line /\ Taken = Done /\ Piece = chunk
      /\ Contents' = Line' /\ Taken' = Done' /\ Piece' = chunk'
  BY <1>2 DEF Mapped
<1>4. Header \in Nat /\ Mtu \in Nat /\ n <= Mtu
  BY RtpPoolAssumption DEF QueueInv, Alike, ShapeInv
<1>5. ASSUME Still PROVE UNCHANGED Queue!vars
  BY <1>3, <1>5 DEF Still, Queue!vars
<1>6. ASSUME Arrived(n), UNCHANGED <<Done, chunk>> PROVE Queue!Next
  <2>1. Item(wr) \in [num : Numbers, size : 1 .. Mtu - Header]
    <3>1. \A k \in 1 .. n - Header : k \in 1 .. Mtu - Header
      BY <1>4
    <3>2. QED
      BY <1>6, <3>1 DEF Arrived
  <2>2. Queue!Accept(Item(wr))
    BY <1>3, <1>6 DEF Arrived, Queue!Accept
  <2>3. QED
    BY <2>1, <2>2 DEF Queue!Next, Queue!Packets
<1>7. ASSUME Took(n) PROVE Queue!Next
  <2>1. src.size \in 1 .. Mtu - Header
    BY <1>4, <1>7 DEF Took
  <2>2. Queue!Take(src.size)
    BY <1>3, <1>7 DEF Took, Queue!Take
  <2>3. QED
    BY <2>1, <2>2 DEF Queue!Next
<1>8. ASSUME Line' = <<>>, Done' = 0, chunk' = chunk PROVE Queue!Next
  BY <1>3, <1>8 DEF Queue!Next, Queue!Drop
<1>9. QED
  BY <1>1, <1>5, <1>6, <1>7, <1>8 DEF Follows

LEMMA AlikeStep == AlikeInv /\ NumberInv /\ [Next]_vars => AlikeInv' /\ [Queue!Next]_(Queue!vars)
<1> SUFFICES ASSUME AlikeInv, NumberInv, [Next]_vars
             PROVE  AlikeInv' /\ [Queue!Next]_(Queue!vars)
  OBVIOUS
<1>1. NumberInv'
  BY NumberStep
<1>2. source' = source
  BY DEF Next, Receiver, Reader, Receive, NoData, Timeout, Process, BeginRead, Underflow,
     DecapBroken, Decap, Copy, vars, receiver, reader
<1>3. ASSUME NEW n \in Nat, Alike(n)' PROVE QueueInv(n)'
  <2>1. QueueInv(n)
    BY <1>2, <1>3 DEF Alike, AlikeInv
  <2>2. QED
    BY <1>1, <2>1, QueueStep
<1>4. AlikeInv'
  BY <1>2, <1>3 DEF AlikeInv
<1>5. CASE Uniform
  <2>1. PICK n \in Nat : Alike(n)
    BY <1>5, UniformIs DEF AlikeInv
  <2>2. QueueInv(n)
    BY <2>1 DEF AlikeInv
  <2>3. [Queue!Next]_(Queue!vars)
    BY <1>1, <2>2, QueueFollowed
  <2>4. QED
    BY <1>4, <2>3
<1>6. CASE ~Uniform
  <2>1. ~Uniform'
    BY <1>2, <1>6 DEF Uniform
  <2>2. UNCHANGED <<Contents, Taken, Piece>>
    BY <1>6, <2>1 DEF Contents, Taken, Piece
  <2>3. UNCHANGED Queue!vars
    BY <2>2 DEF Queue!vars
  <2>4. QED
    BY <1>4, <2>3
<1>7. QED
  BY <1>5, <1>6

(* The pool of the receiver is a queue of packets: of a sender's packets,  *)
(* all of one kind and length, every one that is let in is read once, in   *)
(* the order they came and to its last byte, however the two threads take  *)
(* turns, and only the network falling silent drops any (PrePeocessRtp,    *)
(* TsReadUdpPool, DecapRtp).                                               *)
THEOREM QueueCorrect == Spec => QueueSpec
<1>1. Init => NumberInv /\ AlikeInv /\ Queue!Init
  <2> SUFFICES ASSUME Init PROVE NumberInv /\ AlikeInv /\ Queue!Init
    OBVIOUS
  <2>1. NumberInv
    <3>1. source \in Sources /\ source.packets \in Nat /\ source.start \in Nat /\ source.loss \in Nat
      BY RtpPoolAssumption DEF Init
    <3>2. 0 * (1 + source.loss) = 0
      BY <3>1
    <3>3. received = 0 /\ sent = source.start
      BY DEF Init
    <3>4. QED
      BY <3>1, <3>2, <3>3 DEF NumberInv
  <2>2. tpc = "idle" /\ First = 0 /\ wr = 0 /\ Diff(First, wr) = 0 /\ rd_pool.tot_r_size = 0
    BY RtpPoolAssumption DEF Init, First, Diff, Whole
  <2>3. ASSUME NEW n \in Nat, Alike(n) PROVE QueueInv(n)
    <3>1. SlotsInv(n)
      <4>1. \A s \in Slots : ~(Diff(First, s) < 0)
        BY <2>2, RtpPoolAssumption DEF Slots, Diff
      <4>2. QED
        BY <2>2, <4>1 DEF Init, SlotsInv
    <3>2. PieceInv(n)
      BY <2>2 DEF Init, PieceInv, NoSource
    <3>3. QED
      BY <2>3, <3>1, <3>2, ReadInit DEF QueueInv
  <2>4. AlikeInv
    BY <2>3 DEF Init, AlikeInv
  <2>5. Contents = <<>> /\ Taken = 0 /\ Piece = [num |-> 0, from |-> 0, to |-> 0]
    <3>1. CASE Uniform
      <4>1. PICK n \in Nat : Alike(n)
        BY <2>4, <3>1, UniformIs DEF AlikeInv
      <4>2. Mapped
        BY <2>4, <4>1, MappedIs DEF AlikeInv
      <4>3. Line = <<>> /\ Done = 0
        BY <2>2 DEF Line, Done
      <4>4. QED
        BY <4>2, <4>3 DEF Mapped, Init
    <3>2. CASE ~Uniform
      BY <3>2 DEF Contents, Taken, Piece
    <3>3. QED
      BY <3>1, <3>2
  <2>6. QED
    BY <2>1, <2>4, <2>5 DEF Queue!Init
<1>2. QED
  BY <1>1, NumberStep, AlikeStep, PTL DEF Spec, QueueSpec, Queue!Spec

-----------------------------------------------------------------------------
(* The connection of the receiver: the user's thread and the daemon.       *)

(* Both configurations are one of a port and a group (CSrvSock::Daemon,    *)
(* run_ip_streaming_srv).                                                  *)
THEOREM SessionTypeCorrect == SessionSpec => []SessionTypeOK
<1>1. SessionInit => SessionTypeOK
  BY DEF SessionInit, SessionTypeOK, Configs
<1>2. SessionTypeOK /\ [SessionNext]_session => SessionTypeOK'
  <2> SUFFICES ASSUME SessionTypeOK, [SessionNext]_session PROVE SessionTypeOK'
    OBVIOUS
  <2> USE DEF SessionTypeOK, user, shared, conn
  <2>1. ASSUME NEW c \in Configs, Run(c) PROVE SessionTypeOK'
    BY <2>1 DEF Run
  <2>2. CASE Close \/ Closed \/ AddDataSess
    BY <2>2 DEF Close, Closed, AddDataSess
  <2>3. CASE Connect
    BY <2>3 DEF Connect, Configs
  <2>4. CASE \/ WaitSess \/ UdpWaiting \/ Requested \/ Received
             \/ NetworkError \/ OpenFails
    BY <2>4 DEF WaitSess, UdpWaiting, Requested, Received,
                NetworkError, OpenFails, At
  <2>5. CASE Open \/ Bind
    BY <2>5 DEF Open, Bind, At, Configs
  <2>6. CASE InitRecvLvl1
    BY <2>6 DEF InitRecvLvl1
  <2>7. CASE TermRecvLvl1 \/ TermRecvLvl2 \/ TermRecv
    BY <2>7 DEF TermRecvLvl1, TermRecvLvl2, TermRecv, At,
                Forgotten, Renewed
  <2>8. CASE UNCHANGED session
    BY <2>8 DEF session
  <2>9. QED
    BY <2>1, <2>2, <2>3, <2>4, <2>5, <2>6, <2>7, <2>8
    DEF SessionNext, User, UserGoesOn, Daemon
<1>3. QED
  BY <1>1, <1>2, PTL DEF SessionSpec

(* A patient user is in the middle of a call only while the daemon rests or*)
(* is on its way to rest, so the configuration does not change between the *)
(* two points at which the daemon reads it.                                *)
Same == upc \in {"idle", "adding"} \/ (upc = "closing" /\ ~again)

PatientInv ==
  /\ made <=> dpc # "none"
  /\ connected <=> dpc \in {"loop", "recv", "term1", "term2", "term"}
  /\ upc \in {"connecting", "adding"} => dpc \in {"none", "wait"}
  /\ upc = "closing" => dpc \in {"wait", "loop", "recv", "term1", "term2", "term"}
  /\ Same => mcast = asked.group
  /\ Same /\ dpc \in {"bind", "waiting", "init", "loop", "recv"} => socket.group = asked.group
  /\ Same /\ dpc \in {"waiting", "init", "loop", "recv"} => socket.port = asked.port

LEMMA PatientStep ==
  SessionTypeOK /\ (patient => PatientInv) /\ [SessionNext]_session => (patient => PatientInv)'
<1> SUFFICES ASSUME SessionTypeOK, patient => PatientInv, [SessionNext]_session, patient'
             PROVE  PatientInv'
  OBVIOUS
<1>0. patient /\ PatientInv
  BY DEF SessionNext, User, UserGoesOn, Daemon, Run, Close,
         Closed, Connect, AddDataSess, WaitSess, Open,
         Bind, UdpWaiting, InitRecvLvl1, Requested,
         Received, NetworkError, OpenFails, TermRecvLvl1, TermRecvLvl2,
         TermRecv, user, session
<1> USE <1>0 DEF PatientInv, Same, user, shared, conn
<1>1. ASSUME NEW c \in Configs, Run(c) PROVE PatientInv'
  BY <1>1 DEF Run, Settled, Streaming, Down
<1>2. CASE Close
  BY <1>2 DEF Close, Settled, Streaming, Down
<1>3. CASE Closed
  BY <1>3 DEF Closed, Idle
<1>4. CASE Connect
  BY <1>4 DEF Connect
<1>5. CASE AddDataSess
  BY <1>5 DEF AddDataSess
<1>6. CASE WaitSess
  BY <1>6 DEF WaitSess, At
<1>7. CASE Open
  BY <1>7 DEF Open, At, SessionTypeOK, Configs
<1>8. CASE Bind
  BY <1>8 DEF Bind, At, SessionTypeOK, Configs
<1>9. CASE UdpWaiting
  BY <1>9 DEF UdpWaiting
<1>10. CASE InitRecvLvl1
  BY <1>10 DEF InitRecvLvl1
<1>11. CASE Requested \/ Received \/ NetworkError \/ OpenFails
  BY <1>11 DEF Requested, Received, NetworkError, OpenFails, At
<1>12. CASE TermRecvLvl1 \/ TermRecvLvl2 \/ TermRecv
  BY <1>12 DEF TermRecvLvl1, TermRecvLvl2, TermRecv, At,
               Forgotten, Renewed
<1>13. CASE UNCHANGED session
  BY <1>13 DEF session
<1>14. QED
  BY <1>1, <1>2, <1>3, <1>4, <1>5, <1>6, <1>7, <1>8, <1>9, <1>10, <1>11, <1>12, <1>13
  DEF SessionNext, User, UserGoesOn, Daemon

(* While a patient user wants a stream, the daemon receives the stream last*)
(* asked for, although it reads the configuration at two points and the    *)
(* user changes it without a lock (CSrvSock::Daemon, run_ip_streaming_srv).*)
THEOREM StreamsFromRequestedCorrect == SessionSpec => []StreamsFromRequested
<1>1. SessionInit => (patient => PatientInv)
  BY DEF SessionInit, PatientInv, Same
<1>2. SessionTypeOK /\ (patient => PatientInv) => StreamsFromRequested
  BY DEF SessionTypeOK, Configs, PatientInv, Same, StreamsFromRequested,
         Streaming
<1>3. QED
  BY <1>1, <1>2, PatientStep, SessionTypeCorrect, PTL DEF SessionSpec
=============================================================================
