----------------------------- MODULE MCFilePlay -----------------------------
(***************************************************************************)
(* Playback of a file for TLC: the files.  Packets have two bytes.         *)
(***************************************************************************)
EXTENDS FilePlay

Packets(from, to) == {s \in from .. to - 1 : (s - from) % SrcPkt = 0}
File(n, s) == [len |-> n, syncs |-> s]

SomeFiles ==
  { File(2 * Bank, Packets(0, 2 * Bank)),                  \* whole banks
    File(6 * Bank + 7, Packets(1, 6 * Bank + 7)),          \* begins in a packet
    File(3 * Bank - 3, Packets(0, Bank + 20) \cup Packets(Bank + 23, 3 * Bank - 3)),
                                                           \* damaged within
    File(3 * Bank - 7, {s \in 0 .. 3 * Bank - 8 : s % 13 \in {0, 2, 4, 7, 10}}),
                                                           \* damaged all through: finds of
                                                           \* both lengths by turns
    File(Bank - 5, Packets(0, Bank - 5)),                  \* less than a bank
    File(Bank + 9, {}) }                                   \* not a stream
=============================================================================
