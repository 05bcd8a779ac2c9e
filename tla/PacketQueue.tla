----------------------------- MODULE PacketQueue -----------------------------
(***************************************************************************)
(* What the IP receiver promises its reader (IPStreamer/srv_rcver.h): the  *)
(* payloads of the packets it accepts, in the order they came, in pieces   *)
(* of any size and with nothing left out of a packet or given twice.  When *)
(* the network falls silent all that was not read is dropped.              *)
(***************************************************************************)
EXTENDS Integers, Sequences

CONSTANTS
  Numbers,   (* the packets' numbers                                       *)
  Payload    (* bytes of a packet, at most                                 *)

VARIABLES
  queue,     (* the packets accepted and not wholly read: [num, size]      *)
  taken,     (* bytes of the first one already read                        *)
  chunk      (* the last piece read: bytes from .. to - 1 of packet num    *)

vars == <<queue, taken, chunk>>

Packets == [num : Numbers, size : 1 .. Payload]

Init == queue = <<>> /\ taken = 0 /\ chunk = [num |-> 0, from |-> 0, to |-> 0]

Accept(p) == queue' = Append(queue, p) /\ UNCHANGED <<taken, chunk>>

Take(n) ==
  /\ queue # <<>> /\ taken + n <= Head(queue).size
  /\ chunk' = [num |-> Head(queue).num, from |-> taken, to |-> taken + n]
  /\ IF taken + n = Head(queue).size
       THEN queue' = Tail(queue) /\ taken' = 0
       ELSE queue' = queue /\ taken' = taken + n

Drop == queue' = <<>> /\ taken' = 0 /\ UNCHANGED chunk

Next == (\E p \in Packets : Accept(p)) \/ (\E n \in 1 .. Payload : Take(n)) \/ Drop

Spec == Init /\ [][Next]_vars
=============================================================================
