------------------------------- MODULE Stream -------------------------------
(***************************************************************************)
(* What a playback session promises the board (hld/corelib): each media is *)
(* a first-in first-out channel of numbered packets, from the source that  *)
(* gives them to the board that takes them, for as long as the session     *)
(* streams.  Buffers, threads and signals are not seen here.               *)
(***************************************************************************)
EXTENDS Integers, Sequences

CONSTANTS
  Media,   (* the media interfaces of a session           *)
  Seqs,    (* packets of a media are numbered modulo Seqs *)
  Burst,   (* packets a media gives in one step, at most  *)
  BlockMax (* packets of a media in a block, at most      *)

VARIABLES
  up,        (* up[m]: m streams                               *)
  next,      (* next[m]: the number of the next packet of m    *)
  chan,      (* chan[m]: the numbers on the way to the board   *)
  got,       (* got[m]: the next number the board is to see    *)
  fates      (* what may become of a block at the board        *)

vars == <<up, next, chan, got, fates>>

Fates == (SUBSET {"taken", "refused"}) \ {{}}

Plus(n, k) == (n + k) % Seqs

Init ==
  /\ up = [m \in Media |-> FALSE] /\ fates \in Fates
  /\ next = [m \in Media |-> 0] /\ chan = [m \in Media |-> <<>>] /\ got = [m \in Media |-> 0]

Open(m) ==
  /\ ~up[m] /\ up' = [up EXCEPT ![m] = TRUE]
  /\ UNCHANGED <<next, chan, got, fates>>

Give(m) ==
  /\ up[m] /\ UNCHANGED <<up, got, fates>>
  /\ \E k \in 1 .. Burst :
       /\ chan' = [chan EXCEPT ![m] = @ \o [i \in 1 .. k |-> Plus(next[m], i - 1)]]
       /\ next' = [next EXCEPT ![m] = Plus(@, k)]

(* A block: the packets at the head of each channel, n[m] of them.         *)
Block ==
  /\ UNCHANGED <<up, next, fates>>
  /\ \E n \in [Media -> 0 .. BlockMax], fate \in fates :
       /\ \A m \in Media : n[m] <= Len(chan[m])
       /\ chan' = [m \in Media |-> SubSeq(chan[m], n[m] + 1, Len(chan[m]))]
       /\ got' = IF fate = "taken" THEN [m \in Media |-> Plus(got[m], n[m])] ELSE got

SetFates == UNCHANGED <<up, next, got, chan>> /\ fates' \in Fates

(* The session ends: what is on the way is dropped.                        *)
Close ==
  /\ up' = [m \in Media |-> FALSE]
  /\ next' = [m \in Media |-> 0] /\ chan' = [m \in Media |-> <<>>] /\ got' = [m \in Media |-> 0]
  /\ UNCHANGED fates

Next == SetFates \/ Block \/ (\E m \in Media : Open(m) \/ Give(m)) \/ Close

Spec == Init /\ [][Next]_vars
=============================================================================
