------------------------------- MODULE RtpPool -------------------------------
(***************************************************************************)
(* The packet pool of the IP receiver (IPStreamer/srv_rcver_utils.cpp and  *)
(* the receive and read calls of srv_rcver.cpp).  The receiver's thread    *)
(* lets recvfrom write a packet into the slot _wr_i__ without the mutex    *)
(* and looks at it with the mutex; the reader's thread cuts the packets    *)
(* from _rd_i__ on into pieces with the mutex held.  The network loses and *)
(* repeats packets.                                                        *)
(***************************************************************************)
EXTENDS Integers, Sequences

CONSTANTS
  Pool,        (* slots: cnt_rcv_b_pool, MAX_CNT_RCV_BUF_POOL              *)
  Sources,     (* the senders: the kinds of packets (TRUE with an RTP      *)
               (* header) and the lengths one sends, the number it has come*)
               (* to, how many packets come at most, how many in a row the *)
               (* network loses                                            *)
  Header,      (* RTP_HDR_SIZE                                             *)
  Mtu,         (* mtu_size_pkt: recvfrom takes no more of a packet         *)
  SeqMod,      (* RTP sequence numbers: 2^16                               *)
  Reads        (* what the reader asks for: max_size                       *)

ASSUME RtpPoolAssumption ==
  /\ Pool \in Nat /\ Pool >= 4 /\ Header \in Nat \ {0} /\ SeqMod \in Nat /\ SeqMod >= 2
  /\ Mtu \in Nat
  /\ Reads \subseteq Nat \ {0}
  /\ Sources \subseteq [kinds : SUBSET BOOLEAN, lengths : SUBSET (1 .. Mtu),
                        start : Nat, packets : Nat, loss : Nat]

VARIABLES
  source,                  (* the sender, once and for all                 *)
  pkt_pool, pkt_raw_size,  (* the slots: packets and their lengths         *)
  rd, wr,                  (* _rd_i__, _wr_i__                             *)
  rd_pool,                 (* the packet being read: rd_pool_*             *)
  is_rtp, one_pkt_size,    (* src_protocol_type_is_rtp, one_pkt_size_w_hdr *)
  consume,                 (* cnt_rd_buf_consume                           *)
  seq, lost,               (* _sequence_number, _cnt_lost_pkts             *)
  rpc,                     (* the receiver: "recv", "process"              *)
  tpc,                     (* the reader: "idle", "loop", "copy"           *)
  mutex,                   (* who holds _mutex: "free" or "reader"         *)
  room, src,               (* bytes still wanted; what memcpy copies next  *)
  sent, received,          (* the last packet's number; packets that came  *)
  chunk,                   (* the last piece the reader copied             *)
  last, gaps,              (* the last packet looked at; jumps so far      *)
  blind                    (* more than SeqMod went unseen between two     *)

receiver == <<source, pkt_pool, pkt_raw_size, wr, is_rtp, one_pkt_size, consume, seq, lost, rpc,
              sent, received, last, gaps, blind>>
reader == <<source, tpc, mutex, room, src, chunk>>
vars == <<receiver, rd, rd_pool, reader>>

Slots == 0 .. Pool - 1
NoSequence == -1                                \* 0xffffffff
NoPacket == [num |-> 0, rtp |-> TRUE, len |-> 0]
Whole == [tot_r_size |-> 0, seek |-> 0, slot |-> 0, start |-> 0]
NoSource == [slot |-> 0, from |-> 0, size |-> 0, over |-> FALSE]

MUT_After(i) == i + 1                           \* mutant: the last slot forgotten
After(i) == IF i >= Pool - 1 THEN 0 ELSE i + 1
Diff(r, w) == IF r > w THEN (Pool - r) + w ELSE w - r     \* _diff_node_

Init ==
  /\ source \in Sources
  /\ pkt_pool = [i \in Slots |-> NoPacket] /\ pkt_raw_size = [i \in Slots |-> 0]
  /\ rd = 0 /\ wr = 0 /\ rd_pool = Whole /\ is_rtp = TRUE /\ one_pkt_size = 0
  /\ consume = 0 /\ seq = NoSequence /\ lost = 0 /\ rpc = "recv" /\ tpc = "idle"
  /\ mutex = "free" /\ room = 0 /\ src = NoSource /\ sent = source.start /\ received = 0
  /\ chunk = [num |-> 0, from |-> 0, to |-> 0] /\ last = 0 /\ gaps = 0
  /\ blind = FALSE

-----------------------------------------------------------------------------
(* The receiver's thread.                                                  *)

(* recvfrom gives a packet: the next one, one after a loss, or the last one*)
(* once more.  While an overflow is being cured it is thrown away.         *)
Receive ==
  /\ rpc = "recv" /\ received < source.packets /\ received' = received + 1
  /\ \E n \in sent .. sent + 1 + source.loss, rtp \in source.kinds, len \in source.lengths :
       /\ n > 0 /\ sent' = n
       /\ pkt_pool' = [pkt_pool EXCEPT ![wr] = [num |-> n, rtp |-> rtp, len |-> len]]
  /\ IF consume > 0
       THEN consume' = consume - 1 /\ rpc' = "recv"
       ELSE consume' = consume /\ rpc' = "process"
  /\ UNCHANGED <<pkt_raw_size, wr, is_rtp, one_pkt_size, seq, lost, last, gaps, blind, rd, rd_pool, reader>>

(* recvfrom has nothing: EAGAIN.                                           *)
NoData ==
  /\ rpc = "recv" /\ consume' = 0
  /\ UNCHANGED <<pkt_pool, pkt_raw_size, wr, is_rtp, one_pkt_size, seq, lost, rpc, sent, received, last,
                 gaps, blind, rd, rd_pool, reader>>

(* FlushBufUdpPool(0) and InitInputPara.                                   *)
Flush ==
  /\ rd' = 0 /\ wr' = 0 /\ rd_pool' = [rd_pool EXCEPT !.tot_r_size = 0, !.seek = 0]
  /\ seq' = NoSequence /\ lost' = 0 /\ last' = 0 /\ gaps' = 0 /\ blind' = FALSE

(* Nothing came for PKT_RECV_TIMEOUT__TS_UNLOCK milliseconds.              *)
Timeout ==
  /\ rpc = "recv" /\ mutex = "free" /\ consume' = 0
  /\ Flush
  /\ UNCHANGED <<pkt_pool, pkt_raw_size, is_rtp, one_pkt_size, rpc, sent, received, reader>>

(* The packet in slot wr is accepted unless it is too short or the pool is *)
(* full; a full pool also has the next half pool of packets thrown away.   *)
MUT_Full == Diff(rd, wr) >= Pool                \* mutant: no slot between them
Full == Diff(rd, wr) >= Pool - 2

MUT_Jump(q) == q # seq + 1                      \* mutant: the wrap forgotten
Jump(q) == IF q = 0 THEN seq # SeqMod - 1 ELSE q # seq + 1

Sequence(p) ==
  LET q == p.num % SeqMod
      jump == seq # NoSequence /\ Jump(q)
  IN  /\ seq' = q /\ lost' = IF jump THEN lost + 1 ELSE lost
      /\ last' = p.num /\ gaps' = IF last # 0 /\ p.num # last + 1 THEN gaps + 1 ELSE gaps
      /\ blind' = (blind \/ (last # 0 /\ p.num > last + SeqMod))

(* PrePeocessRtp.                                                          *)
Process ==
  /\ rpc = "process" /\ mutex = "free"
  /\ LET p == pkt_pool[wr]
         short == p.len <= Header
         broken == p.rtp /\ short
     IN  /\ is_rtp' = p.rtp
         /\ pkt_raw_size' = [pkt_raw_size EXCEPT ![wr] = IF broken THEN 0 ELSE p.len]
         /\ one_pkt_size' = IF broken THEN one_pkt_size ELSE p.len
         /\ IF p.rtp /\ ~short THEN Sequence(p) ELSE UNCHANGED <<seq, lost, last, gaps, blind>>
         /\ consume' = IF Full THEN Pool \div 2 ELSE consume
         /\ wr' = IF Full \/ short THEN wr ELSE After(wr)
  /\ rpc' = "recv"
  /\ UNCHANGED <<pkt_pool, sent, received, rd, rd_pool, reader>>

-----------------------------------------------------------------------------
(* The reader's thread: TsReadUdpPool.                                     *)

BeginRead(n) ==
  /\ tpc = "idle" /\ mutex = "free"
  /\ mutex' = "reader" /\ room' = n /\ tpc' = "loop"
  /\ UNCHANGED <<src, chunk, receiver, rd, rd_pool>>

(* Nothing is left: the reader gets what was copied so far.                *)
Underflow ==
  /\ tpc = "loop" /\ wr = rd
  /\ tpc' = "idle" /\ mutex' = "free"
  /\ UNCHANGED <<room, src, chunk, receiver, rd, rd_pool>>

(* DecapRtp: what it knows of the packet to read, and whether it believes  *)
(* it.  A new packet is cut by the kind of the packet received last; more  *)
(* left over than the packet received last had is taken for broken.        *)
MUT_Rest == [rd_pool EXCEPT !.seek = 0]         \* mutant: the rest read from the start
Rest == rd_pool

Opened ==
  IF rd_pool.tot_r_size > 0 THEN Rest
  ELSE LET head == IF is_rtp THEN Header ELSE 0
       IN  [tot_r_size |-> pkt_raw_size[rd] - head, seek |-> 0, slot |-> rd, start |-> head]

Broken ==
  \/ rd_pool.tot_r_size = 0 /\ pkt_raw_size[rd] <= Header
  \/ Opened.tot_r_size - Opened.seek > one_pkt_size

MUT_Skip == rd                                  \* mutant: a broken packet stays first
Skip == After(rd)

DecapBroken ==
  /\ tpc = "loop" /\ wr # rd /\ Broken
  /\ rd_pool' = Whole
  /\ rd' = Skip
  /\ UNCHANGED <<reader, receiver>>

Smaller(a, b) == IF a < b THEN a ELSE b

Decap ==
  /\ tpc = "loop" /\ wr # rd /\ ~Broken
  /\ LET size == Smaller(Opened.tot_r_size - Opened.seek, room)
         over == Opened.seek + size >= Opened.tot_r_size
     IN  /\ src' = [slot |-> Opened.slot, from |-> Opened.start + Opened.seek, size |-> size, over |-> over]
         /\ rd_pool' = [Opened EXCEPT !.seek = @ + size, !.tot_r_size = IF over THEN 0 ELSE @]
         /\ rd' = IF over THEN After(rd) ELSE rd
  /\ tpc' = "copy"
  /\ UNCHANGED <<mutex, room, chunk, receiver>>

(* The payload starts behind the header the packet really has.             *)
HeadOf(p) == IF p.rtp THEN Header ELSE 0

(* __memcpy, from the slot as it is by now.                                *)
Copy ==
  /\ tpc = "copy"
  /\ LET p == pkt_pool[src.slot]
         from == src.from - HeadOf(p)
     IN  chunk' = [num |-> p.num, from |-> from, to |-> from + src.size]
  /\ room' = room - src.size
  /\ IF room' = 0 THEN tpc' = "idle" /\ mutex' = "free" ELSE tpc' = "loop" /\ mutex' = mutex
  /\ UNCHANGED <<src, receiver, rd, rd_pool>>

-----------------------------------------------------------------------------
Receiver == Receive \/ NoData \/ Timeout \/ Process
Reader == (\E n \in Reads : BeginRead(n)) \/ Underflow \/ DecapBroken \/ Decap \/ Copy

Next == Receiver \/ Reader

Spec == Init /\ [][Next]_vars

(* The reader asks again and again, and a mutex that is free is given.     *)
Fairness == WF_vars(Reader) /\ WF_vars(Process)
FairSpec == Spec /\ Fairness

-----------------------------------------------------------------------------
Lengths == UNION {s.lengths : s \in Sources}
Packet == [num : Nat, rtp : BOOLEAN, len : Lengths \cup {0}]

TypeOK ==
  /\ source \in Sources
  /\ pkt_pool \in [Slots -> Packet] /\ pkt_raw_size \in [Slots -> Lengths \cup {0}]
  /\ rd \in Slots /\ wr \in Slots
  /\ rd_pool \in [tot_r_size : Nat, seek : Nat, slot : Slots, start : {0, Header}]
  /\ is_rtp \in BOOLEAN /\ one_pkt_size \in Lengths \cup {0} /\ consume \in 0 .. Pool \div 2
  /\ seq \in 0 .. SeqMod - 1 \cup {NoSequence} /\ lost \in Nat /\ gaps \in Nat
  /\ rpc \in {"recv", "process"} /\ tpc \in {"idle", "loop", "copy"} /\ mutex \in {"free", "reader"}
  /\ room \in Nat /\ sent \in Nat /\ received \in 0 .. source.packets /\ last \in Nat
  /\ src \in [slot : Slots, from : Nat, size : Nat, over : BOOLEAN]
  /\ chunk \in [num : Nat, from : Int, to : Int] /\ blind \in BOOLEAN

(* Never is the slot recvfrom may write without the mutex one that the     *)
(* reader still needs: neither a packet that waits, nor the one of which a *)
(* piece is left for the next call, nor the one being copied, whose slot   *)
(* _rd_i__ may have left behind (the overflow test of PrePeocessRtp).      *)
Waiting == {i \in Slots : Diff(rd, i) < Diff(rd, wr)}
Copying == IF tpc = "copy" THEN {src.slot} ELSE {}
Begun == IF rd_pool.tot_r_size > 0 THEN {rd_pool.slot} ELSE {}
WriteSlotUnread == wr \notin Waiting \cup Copying \cup Begun

(* The count of lost packets is the number of jumps in the numbers of the  *)
(* packets looked at, across the wrap of the sequence number, as long as   *)
(* no more than SeqMod of them in a row go unseen; it is never more.       *)
LostCountsJumps == lost <= gaps /\ (~blind => lost = gaps)

(* With packets of one kind and one length the pool is a queue of packets. *)
Pending == IF tpc = "copy" /\ src.over THEN <<src.slot>> ELSE <<>>
Queued == Pending \o [i \in 1 .. Diff(rd, wr) |-> (rd + i - 1) % Pool]
Size(p) == p.len - HeadOf(p)
LastNumber(s) == s.start + s.packets * (1 + s.loss)
Numbers == UNION {0 .. LastNumber(s) : s \in Sources}
Uniform == source.kinds = {TRUE} /\ \E n \in source.lengths : source.lengths = {n}

Contents ==
  IF Uniform THEN [i \in DOMAIN Queued |->
                     [num |-> pkt_pool[Queued[i]].num, size |-> Size(pkt_pool[Queued[i]])]]
             ELSE <<>>
Taken ==
  IF ~Uniform THEN 0
  ELSE IF tpc = "copy" THEN src.from - Header
  ELSE IF rd_pool.tot_r_size > 0 THEN rd_pool.seek ELSE 0
Piece == IF Uniform THEN chunk ELSE [num |-> 0, from |-> 0, to |-> 0]

Queue == INSTANCE PacketQueue WITH
  Payload <- Mtu - Header, queue <- Contents, taken <- Taken, chunk <- Piece

QueueSpec == Queue!Spec

(* Whatever packets of whatever kinds and lengths wait, the reader gets to *)
(* the end of them: no packet makes it go round for ever with the mutex.   *)
Drains == (rd # wr) ~> (rd = wr)
=============================================================================
