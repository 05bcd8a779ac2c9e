------------------------------ MODULE MCRtpPool ------------------------------
(***************************************************************************)
(* RtpPool for TLC: the senders of the run.                                *)
(***************************************************************************)
EXTENDS RtpPool

(* All packets alike, one with a payload to be read in pieces.             *)
Steady == [kinds |-> {TRUE}, lengths |-> {4}, start |-> 0, packets |-> 5, loss |-> 0]

(* The network loses and repeats packets, over the wrap of their numbers.  *)
Lossy == [kinds |-> {TRUE}, lengths |-> {2}, start |-> 3, packets |-> 4, loss |-> 1]

(* The network loses as many in a row as there are sequence numbers.       *)
Silent == [kinds |-> {TRUE}, lengths |-> {2}, start |-> 0, packets |-> 2, loss |-> 6]

(* With and without header, one length too short to be a packet.           *)
Mixed == [kinds |-> BOOLEAN, lengths |-> {1, 3}, start |-> 0, packets |-> 4, loss |-> 0]

Senders == {Steady, Lossy, Silent, Mixed}
=============================================================================
