------------------------------ MODULE IpBuffer -------------------------------
(***************************************************************************)
(* The second buffer of a received stream, TL_ip_buffer (hld_fmtr_ip.cpp,  *)
(* with the queue of hld_fs_rdwr.cpp).  A pump, HLD_ip_PumpingThread, fills*)
(* it from the packet pool; the media of the session (CTLVBuffer in        *)
(* input_buffer.cpp) takes from it.  The pump allocates it and frees it    *)
(* when the user gives the stream up (IPUsing); TL_ip_hMutex_Cntrl is to   *)
(* keep the two apart.  A byte is the number it has in the stream.         *)
(***************************************************************************)
EXTENDS Integers

CONSTANTS
  Size,        (* G_BUFFER_SIZE                                            *)
  Bfp,         (* TL_ip_bfp, bytes to have before the stream starts        *)
  Bank,        (* SdramSubBankSize                                         *)
  Units,       (* bytes the pump may get at once                           *)
  Wants,       (* bytes the media may want at once                         *)
  MaxWritten,  (* bytes a pump moves, at most                              *)
  MaxLaunched  (* pumps launched, at most                                  *)

ASSUME IpBufferAssumption ==
  /\ Size \in Nat \ {0} /\ Bfp \in 0 .. Size \div 2 /\ Bank \in Nat
  /\ Units \subseteq 1 .. Size /\ Wants \subseteq 1 .. Size
  /\ MaxWritten \in Nat /\ MaxLaunched \in Nat

VARIABLES
  TL_ip_buffer, alive,  (* its cells; whether it is allocated              *)
  rd, wr, count,        (* TL_ip_read, TL_ip_write, TL_ip_count            *)
  written, taken,       (* bytes of this pump's stream put in and taken    *)
  sta,                  (* ip_pkt_monotor_sta                              *)
  using,                (* IPUsing                                         *)
  cntrl,                (* who holds TL_ip_hMutex_Cntrl: "free" or "media" *)
  ppc, launched,        (* the pump; how many there have been              *)
  mpc, want, is_start,  (* the media                                       *)
  dry                   (* the buffer ran low and has not been full since  *)

queue == <<TL_ip_buffer, alive, rd, wr, count, written, taken>>
media == <<mpc, want, is_start>>
vars == <<queue, sta, using, cntrl, ppc, launched, media, dry>>

Cells == 0 .. Size - 1
NoByte == -1
MUT_Wrap(i) == IF i > Size THEN i - Size ELSE i  \* mutant: one too far
Wrap(i) == IF i >= Size THEN i - Size ELSE i

Init ==
  /\ TL_ip_buffer = [i \in Cells |-> NoByte] /\ alive = FALSE
  /\ rd = 0 /\ wr = 0 /\ count = 0 /\ written = 0 /\ taken = 0
  /\ sta = "fill_wait" /\ using = FALSE /\ cntrl = "free" /\ ppc = "off" /\ launched = 0
  /\ mpc = "none" /\ want = 0 /\ is_start = FALSE /\ dry = FALSE

-----------------------------------------------------------------------------
(* The user starts a stream when the last one has been stopped, and stops  *)
(* it; both take the mutex.                                                *)

Start ==
  /\ ~using /\ cntrl = "free" /\ ppc = "off" /\ mpc = "none"
  /\ using' = TRUE
  /\ UNCHANGED <<queue, sta, cntrl, ppc, launched, media, dry>>

MUT_StopFree == TRUE                           \* mutant: the mutex not taken
StopFree == cntrl = "free"

Stop ==
  /\ using /\ StopFree
  /\ using' = FALSE
  /\ UNCHANGED <<queue, sta, cntrl, ppc, launched, media, dry>>

-----------------------------------------------------------------------------
(* The pump.                                                               *)

Launch ==
  /\ using /\ ppc = "off" /\ launched < MaxLaunched
  /\ ppc' = "loop" /\ launched' = launched + 1 /\ alive' = TRUE
  /\ TL_ip_buffer' = [i \in Cells |-> NoByte]
  /\ rd' = 0 /\ wr' = 0 /\ count' = 0 /\ written' = 0 /\ taken' = 0 /\ sta' = "fill_wait" /\ dry' = FALSE
  /\ UNCHANGED <<using, cntrl, media>>

(* FillOnePacketToQueue, which never looks whether there is room.  The     *)
(* estimates of the two rates may have the monitor start anew: which way   *)
(* their comparison goes is left open.                                     *)
MUT_Filled(n) ==                               \* mutant: the rest not put in front
  [i \in Cells |-> IF i >= wr /\ i < wr + n THEN written + i - wr ELSE TL_ip_buffer[i]]
Filled(n) ==
  [i \in Cells |-> LET k == IF i >= wr THEN i - wr ELSE i - wr + Size
                   IN  IF k < n THEN written + k ELSE TL_ip_buffer[i]]

(* The pump looks whether it is still wanted.                              *)
Wanted ==
  /\ ppc = "loop"
  /\ ppc' = IF using THEN "fill" ELSE "kill"
  /\ UNCHANGED <<queue, sta, using, cntrl, launched, media, dry>>

Fill(n) ==
  /\ ppc = "fill" /\ mpc # "copying" /\ written + n <= MaxWritten
  /\ ppc' = "loop"
  /\ TL_ip_buffer' = Filled(n)
  /\ wr' = IF wr + n <= Size THEN wr + n ELSE Wrap(wr + n)
  /\ count' = count + n /\ written' = written + n
  /\ sta' \in {sta} \cup (IF sta = "progress" THEN {"fill_wait"} ELSE {})
  /\ dry' = (dry /\ count + n < Bfp)
  /\ UNCHANGED <<alive, rd, taken, using, cntrl, launched, media>>

(* ClrVariables_OnKillIpTask; the counts stay as they are.                 *)
Kill ==
  /\ ppc = "kill"
  /\ ppc' = "off" /\ alive' = FALSE
  /\ UNCHANGED <<TL_ip_buffer, rd, wr, count, written, taken, sta, using, cntrl, launched, media, dry>>

-----------------------------------------------------------------------------
(* IsBufStableCond: what it answers and what it makes of the state.        *)

Low == (Bfp * 3) \div 10

MUT_High == Low                                \* mutant: as soon as it is not low
High == Bfp

Stable == sta # "underover" /\ count >= Low
NextSta ==
  CASE sta # "underover" /\ count < Low  -> "underover"
    [] sta = "underover" /\ count >= High -> "fill_wait"
    [] OTHER -> sta
NextDry == dry \/ (sta # "underover" /\ count < Low)

(* The media.  The main task waits until the pump has got Bfp bytes or the *)
(* user wants something else, before the session is played.                *)
MediaBegin ==
  /\ mpc = "none" /\ ppc # "off" /\ (count > Bfp \/ ~using)
  /\ mpc' = "look" /\ is_start' = TRUE
  /\ UNCHANGED <<queue, sta, using, cntrl, ppc, launched, want, dry>>

(* The session is stopped when the user has asked for it.                  *)
MediaEnd ==
  /\ mpc = "look" /\ ~using
  /\ mpc' = "none"
  /\ UNCHANGED <<queue, sta, using, cntrl, ppc, launched, want, is_start, dry>>

(* IsThere_EnoughIpDta.                                                    *)
Look ==
  /\ mpc = "look"
  /\ sta' = NextSta /\ dry' = NextDry
  /\ IF is_start /\ ~(Stable /\ count >= 2 * Bank)
       THEN is_start' = FALSE /\ mpc' = "look"
       ELSE is_start' = is_start /\ mpc' = "control"
  /\ UNCHANGED <<queue, using, cntrl, ppc, launched, want>>

Control ==
  /\ mpc = "control" /\ cntrl = "free"
  /\ IF using
       THEN mpc' = "get" /\ cntrl' = "media" /\ want' \in Wants
       ELSE mpc' = "look" /\ UNCHANGED <<cntrl, want>>
  /\ UNCHANGED <<queue, sta, using, ppc, launched, is_start, dry>>

Return == mpc' = "look" /\ cntrl' = "free"

(* Get_RcvIpDta: it looks for enough bytes before it takes the mutex.      *)
MUT_Enough == TRUE                             \* mutant: it does not look
Enough == count >= want

Get ==
  /\ mpc = "get"
  /\ IF Enough THEN mpc' = "lock" /\ cntrl' = cntrl ELSE Return
  /\ UNCHANGED <<queue, sta, using, ppc, launched, want, is_start, dry>>

Lock ==
  /\ mpc = "lock"
  /\ sta' = NextSta /\ dry' = NextDry
  /\ IF Stable THEN mpc' = "copying" /\ cntrl' = cntrl ELSE Return
  /\ UNCHANGED <<queue, using, ppc, launched, want, is_start>>

(* ReadOnePacketFromeQueue and UpdPktMonitorSta.                           *)
Take ==
  /\ mpc = "copying"
  /\ rd' = Wrap(rd + want) /\ count' = count - want /\ taken' = taken + want
  /\ sta' = IF sta = "fill_wait" THEN "progress" ELSE sta
  /\ Return
  /\ UNCHANGED <<TL_ip_buffer, alive, wr, written, using, ppc, launched, want, is_start, dry>>

-----------------------------------------------------------------------------
Pump == Launch \/ Wanted \/ (\E n \in Units \cup {0} : Fill(n)) \/ Kill
Media == MediaBegin \/ MediaEnd \/ Look \/ Control \/ Get \/ Lock \/ Take

Next == Start \/ Stop \/ Pump \/ Media

Spec == Init /\ [][Next]_vars

-----------------------------------------------------------------------------
TypeOK ==
  /\ TL_ip_buffer \in [Cells -> Int] /\ alive \in BOOLEAN
  /\ rd \in Cells /\ wr \in Cells \cup {Size} /\ count \in Int /\ written \in Nat /\ taken \in Nat
  /\ sta \in {"fill_wait", "progress", "underover"}
  /\ using \in BOOLEAN /\ cntrl \in {"free", "media"}
  /\ ppc \in {"off", "loop", "fill", "kill"} /\ launched \in Nat
  /\ mpc \in {"none", "look", "control", "get", "lock", "copying"}
  /\ want \in 0 .. Size /\ is_start \in BOOLEAN /\ dry \in BOOLEAN

(* As long as the media has kept up, what waits for it are the bytes that  *)
(* follow the last it took, in their order, around the end of the buffer   *)
(* too; after it fell too far behind this is so again once it has caught   *)
(* up (FillOnePacketToQueue, ReadOnePacketFromeQueue).  More is never taken *)
(* than was there, although the media looks before it takes the mutex.     *)
Intact ==
  /\ count >= 0
  /\ count <= Size => \A i \in 0 .. count - 1 : TL_ip_buffer[(rd + i) % Size] = taken + i

(* The media never copies from a buffer that the pump has freed: the pump  *)
(* ends only after IPUsing was taken back, under the mutex the media holds.*)
CopiesLive == mpc = "copying" => alive

(* After the buffer ran low nothing is handed out until it has held Bfp    *)
(* bytes again, however often the monitor starts anew.                     *)
RefillsAfterUnderrun == [][taken' > taken => ~dry]_vars
=============================================================================
