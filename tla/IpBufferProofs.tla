---------------------------- MODULE IpBufferProofs ----------------------------
(***************************************************************************)
(* Theorems about IpBuffer: its places stay in the buffer, the media never *)
(* copies from a freed one, and after an underrun it waits for a full one. *)
(***************************************************************************)
EXTENDS IpBuffer, TLAPS

(* The type invariant: with units and wants no longer than the buffer, the *)
(* places to read and write stay in it (FillOnePacketToQueue,              *)
(* ReadOnePacketFromeQueue), the count being any number.                   *)
THEOREM TypeCorrect == Spec => []TypeOK
<1>0. 0 \in Cells /\ NoByte \in Int
  BY IpBufferAssumption DEF Cells, NoByte
<1>1. Init => TypeOK
  <2> SUFFICES ASSUME Init PROVE TypeOK
    OBVIOUS
  <2>1. TL_ip_buffer \in [Cells -> Int]
    BY <1>0 DEF Init
  <2>2. want \in 0 .. Size
    BY IpBufferAssumption DEF Init
  <2>3. alive \in BOOLEAN /\ using \in BOOLEAN /\ is_start \in BOOLEAN /\ dry \in BOOLEAN
    BY DEF Init
  <2>4. QED
    BY <1>0, <2>1, <2>2, <2>3 DEF Init, TypeOK
<1>2. TypeOK /\ [Next]_vars => TypeOK'
  <2> SUFFICES ASSUME TypeOK, [Next]_vars PROVE TypeOK'
    OBVIOUS
  <2> USE IpBufferAssumption DEF TypeOK, queue, media
  <2>1. CASE Start \/ Stop
    BY <2>1 DEF Start, Stop
  <2>2. CASE Launch
    <3>1. TL_ip_buffer' \in [Cells -> Int] /\ alive' \in BOOLEAN /\ dry' \in BOOLEAN
      BY <1>0, <2>2 DEF Launch
    <3>2. launched' \in Nat
      BY <2>2 DEF Launch
    <3>3. QED
      BY <1>0, <2>2, <3>1, <3>2 DEF Launch
  <2>3. CASE Wanted \/ Kill
    BY <2>3 DEF Wanted, Kill
  <2>4. ASSUME NEW n \in Units \cup {0}, Fill(n) PROVE TypeOK'
    <3>1. n \in 0 .. Size
      OBVIOUS
    <3>2. TL_ip_buffer' \in [Cells -> Int]
      BY <2>4 DEF Fill, Filled, Cells
    <3>3. wr' \in Cells \cup {Size}
      <4>1. wr + n \in 0 .. 2 * Size
        BY <3>1 DEF Cells
      <4>2. QED
        BY <2>4, <4>1 DEF Fill, Wrap, Cells
    <3>4. count' \in Int /\ written' \in Nat
      BY <2>4, <3>1 DEF Fill
    <3>5. sta' \in {"fill_wait", "progress", "underover"} /\ dry' \in BOOLEAN
      BY <2>4 DEF Fill
    <3>6. QED
      BY <2>4, <3>2, <3>3, <3>4, <3>5 DEF Fill
  <2>5. CASE MediaBegin \/ MediaEnd \/ Get
    BY <2>5 DEF MediaBegin, MediaEnd, Get, Return
  <2>6. CASE Look \/ Lock
    <3>1. NextSta \in {"fill_wait", "progress", "underover"}
      BY DEF NextSta
    <3>2. NextDry \in BOOLEAN
      BY DEF NextDry
    <3> HIDE DEF TypeOK
    <3>3. sta' = NextSta /\ dry' = NextDry /\ UNCHANGED <<queue, using, ppc, launched, want>>
      BY <2>6 DEF Look, Lock
    <3>4. CASE Look
      BY <3>1, <3>2, <3>3, <3>4 DEF Look, TypeOK
    <3>5. CASE Lock
      BY <3>1, <3>2, <3>3, <3>5 DEF Lock, Return, TypeOK
    <3>6. QED
      BY <2>6, <3>4, <3>5
  <2>7. CASE Control
    <3>1. want' \in 0 .. Size
      <4>0. \A w \in Wants : w \in 0 .. Size
        BY IpBufferAssumption
      <4>1. CASE using
        <5>1. want' \in Wants
          BY <2>7, <4>1 DEF Control
        <5>2. QED
          BY <4>0, <5>1
      <4>2. CASE ~using
        BY <2>7, <4>2 DEF Control
      <4>3. QED
        BY <4>1, <4>2
    <3>2. mpc' \in {"get", "look"} /\ cntrl' \in {"free", "media"}
      BY <2>7 DEF Control
    <3>3. UNCHANGED <<queue, sta, using, ppc, launched, is_start, dry>>
      BY <2>7 DEF Control
    <3>4. QED
      BY <3>1, <3>2, <3>3
  <2>8. CASE Take
    <3>1. rd' \in Cells
      BY <2>8 DEF Take, Wrap, Cells
    <3>2. QED
      BY <2>8, <3>1 DEF Take, Return
  <2>9. CASE UNCHANGED vars
    BY <2>9 DEF vars
  <2>10. QED
    BY <2>1, <2>2, <2>3, <2>4, <2>5, <2>6, <2>7, <2>8, <2>9 DEF Next, Pump, Media
<1>3. QED
  BY <1>1, <1>2, PTL DEF Spec

-----------------------------------------------------------------------------
(* Who holds the mutex has seen that the stream is wanted, and it stays    *)
(* wanted, as Stop needs the mutex; a wanted stream has a pump that does   *)
(* not end, and a media is there only beside a pump.                       *)
HeldInv ==
  /\ cntrl = "media" <=> mpc \in {"get", "lock", "copying"}
  /\ cntrl = "media" => using
  /\ ppc = "kill" => ~using
  /\ ppc = "off" /\ mpc # "none" => ~using
  /\ alive <=> ppc # "off"

LEMMA HeldStep == TypeOK /\ HeldInv /\ [Next]_vars => HeldInv'
<1> SUFFICES ASSUME TypeOK, HeldInv, [Next]_vars PROVE HeldInv'
  OBVIOUS
<1> USE DEF HeldInv, queue, media
<1>1. CASE Start \/ Stop
  BY <1>1 DEF Start, Stop, StopFree
<1>2. CASE Launch \/ Wanted \/ Kill
  BY <1>2 DEF Launch, Wanted, Kill
<1>3. ASSUME NEW n \in Units \cup {0}, Fill(n) PROVE HeldInv'
  BY <1>3 DEF Fill
<1>4. CASE MediaBegin \/ MediaEnd \/ Look
  BY <1>4 DEF MediaBegin, MediaEnd, Look
<1>5. CASE Control
  BY <1>5 DEF Control
<1>6. CASE Get \/ Lock \/ Take
  BY <1>6 DEF Get, Lock, Take, Return
<1>7. CASE UNCHANGED vars
  BY <1>7 DEF vars
<1>8. QED
  BY <1>1, <1>2, <1>3, <1>4, <1>5, <1>6, <1>7 DEF Next, Pump, Media

(* Whatever the user does, the media never copies from a buffer that the   *)
(* pump has freed (Get_RcvIpDta, ClrVariables_OnKillIpTask).               *)
THEOREM CopiesLiveCorrect == Spec => []CopiesLive
<1>1. Init => HeldInv
  BY DEF Init, HeldInv
<1>2. HeldInv => CopiesLive
  BY DEF HeldInv, CopiesLive
<1>3. QED
  BY <1>1, <1>2, HeldStep, TypeCorrect, PTL DEF Spec

-----------------------------------------------------------------------------
(* A buffer that ran low is waited for until it holds Bfp bytes, and the   *)
(* media copies only from one that is not waited for.                      *)
DryInv ==
  /\ dry => sta = "underover" /\ count < Bfp
  /\ mpc = "copying" => sta # "underover"

LEMMA DryStep == TypeOK /\ DryInv /\ [Next]_vars => DryInv'
<1> SUFFICES ASSUME TypeOK, DryInv, [Next]_vars PROVE DryInv'
  OBVIOUS
<1>0. Bfp \in Nat /\ Low \in Int /\ Low <= Bfp
  BY IpBufferAssumption DEF Low
<1> USE DEF DryInv, queue, media
<1>1. CASE Start \/ Stop \/ Wanted \/ Kill
  BY <1>1 DEF Start, Stop, Wanted, Kill
<1>2. CASE Launch
  BY <1>2 DEF Launch
<1>3. ASSUME NEW n \in Units \cup {0}, Fill(n) PROVE DryInv'
  <2>1. count' = count + n /\ mpc' = mpc /\ mpc # "copying"
    BY <1>3 DEF Fill
  <2>2. dry' => dry /\ count' < Bfp
    BY <1>3, <2>1 DEF Fill
  <2>3. sta = "underover" => sta' = "underover"
    BY <1>3 DEF Fill
  <2>4. QED
    BY <2>1, <2>2, <2>3
<1>4. CASE MediaBegin \/ MediaEnd \/ Control \/ Get
  BY <1>4 DEF MediaBegin, MediaEnd, Control, Get, Return
<1>5. CASE Look \/ Lock
  <2>1. count \in Int /\ count' = count /\ sta' = NextSta /\ dry' = NextDry
    BY <1>5 DEF Look, Lock, TypeOK
  <2>2. CASE sta # "underover" /\ count < Low
    <3>1. sta' = "underover" /\ count' < Bfp /\ mpc' # "copying"
      BY <1>0, <1>5, <2>1, <2>2 DEF NextSta, Look, Lock, Stable, Return
    <3>2. QED
      BY <3>1
  <2>3. CASE sta # "underover" /\ ~(count < Low)
    <3>1. (dry' => dry) /\ sta' = sta
      <4>1. dry' <=> dry
        BY <2>1, <2>3 DEF NextDry
      <4>2. sta' = sta
        BY <1>0, <2>1, <2>3 DEF NextSta
      <4>3. QED
        BY <4>1, <4>2
    <3>2. QED
      BY <2>3, <3>1
  <2>4. CASE sta = "underover"
    <3>1. (dry' => dry) /\ mpc' # "copying"
      <4>1. dry' <=> dry
        BY <2>1, <2>4 DEF NextDry
      <4>2. mpc' # "copying"
        BY <1>5, <2>4 DEF Look, Lock, Stable, Return
      <4>3. QED
        BY <4>1, <4>2
    <3>2. dry => sta' = "underover"
      BY <1>0, <2>1, <2>4 DEF NextSta, High
    <3>3. QED
      BY <2>1, <3>1, <3>2
  <2>5. QED
    BY <2>2, <2>3, <2>4
<1>6. CASE Take
  <2>1. count' <= count /\ count \in Int /\ count' \in Int
    BY <1>6, IpBufferAssumption DEF Take, TypeOK
  <2>2. dry' = dry /\ mpc' = "look" /\ mpc = "copying"
    BY <1>6 DEF Take, Return
  <2>3. QED
    BY <2>2
<1>7. CASE UNCHANGED vars
  BY <1>7 DEF vars
<1>8. QED
  BY <1>1, <1>2, <1>3, <1>4, <1>5, <1>6, <1>7 DEF Next, Pump, Media

(* After an underrun nothing is handed out until the buffer has held Bfp   *)
(* bytes again (IsBufStableCond), whatever bank size and level.            *)
THEOREM RefillsAfterUnderrunCorrect == Spec => RefillsAfterUnderrun
<1> DEFINE Full == taken' > taken => ~dry
<1>1. Init => DryInv
  BY DEF Init, DryInv
<1>2. TypeOK /\ DryInv /\ [Next]_vars => [Full]_vars
  <2> SUFFICES ASSUME TypeOK, DryInv, Next, taken' > taken PROVE ~dry
    OBVIOUS
  <2>1. taken \in Nat /\ ~(0 > taken) /\ ~(taken > taken)
    BY DEF TypeOK
  <2>2. CASE Take
    BY <2>2 DEF Take, DryInv
  <2>3. CASE Launch
    BY <2>1, <2>3 DEF Launch
  <2>4. CASE ~Take /\ ~Launch
    BY <2>1, <2>4 DEF Next, Start, Stop, Pump, Wanted, Fill, Kill, Media, MediaBegin, MediaEnd, Look,
                      Control, Get, Lock, Return, queue, media
  <2>5. QED
    BY <2>2, <2>3, <2>4
<1>3. QED
  BY <1>1, <1>2, DryStep, TypeCorrect, PTL DEF Spec, RefillsAfterUnderrun

-----------------------------------------------------------------------------
LEMMA Remainder ==
  ASSUME NEW q \in Int, NEW r \in Cells
  PROVE  (Size * q + r) % Size = r
<1>1. Size \in Nat \ {0} /\ r \in 0 .. Size - 1
  BY IpBufferAssumption DEF Cells
<1>2. QED
  BY <1>1

(* Going at most once around the buffer: the place of the byte n further   *)
(* on is n places further on, or that less the size.                       *)
LEMMA Around ==
  ASSUME NEW x \in Nat, NEW n \in 0 .. Size
  PROVE  /\ x % Size \in Cells
         /\ (x % Size) + n < Size => (x + n) % Size = (x % Size) + n
         /\ (x % Size) + n >= Size => (x + n) % Size = (x % Size) + n - Size
<1> USE IpBufferAssumption
<1>1. PICK q, r : q = x \div Size /\ r = x % Size
  OBVIOUS
<1>2. q \in Nat /\ r \in 0 .. Size - 1 /\ x = Size * q + r
  BY <1>1
<1>3. x % Size \in Cells
  BY <1>1, <1>2 DEF Cells
<1>4. ASSUME r + n < Size PROVE (x + n) % Size = r + n
  BY <1>1, <1>2, <1>4
<1>5. ASSUME r + n >= Size PROVE (x + n) % Size = r + n - Size
  <2>1. x + n = Size * (q + 1) + (r + n - Size)
    BY <1>2
  <2>2. r + n - Size \in Cells /\ q + 1 \in Int
    BY <1>2, <1>5 DEF Cells
  <2>3. (Size * (q + 1) + (r + n - Size)) % Size = r + n - Size
    BY <2>2, Remainder
  <2>4. QED
    BY <2>1, <2>3
<1>6. QED
  BY <1>1, <1>2, <1>3, <1>4, <1>5

(* Where the bytes are.  Each of the last Size bytes that were put in is in*)
(* its place, also when the pump has gone past the media, and the two      *)
(* places are those of the next byte to take and of the next to put in.    *)
InPlace(b) == b < written /\ b + Size >= written => TL_ip_buffer[b % Size] = b

BytesInv ==
  /\ count >= 0 /\ written = taken + count
  /\ \A b \in Nat : InPlace(b)
  /\ rd = taken % Size /\ Wrap(wr) = written % Size
  /\ mpc \in {"lock", "copying"} => count >= want

(* What the pump puts in is in its place, and it writes over nothing else. *)
LEMMA FilledInPlace ==
  ASSUME TypeOK, BytesInv, NEW n \in 0 .. Size, NEW b \in Nat,
         b < written + n, b + Size >= written + n
  PROVE  Filled(n)[b % Size] = b
<1> USE IpBufferAssumption
<1>1. written \in Nat /\ wr \in 0 .. Size /\ b % Size \in Cells
  <2>1. b % Size \in Cells
    BY Around
  <2>2. QED
    BY <2>1 DEF TypeOK, Cells
<1>2. Wrap(wr) = written % Size /\ InPlace(b)
  BY DEF BytesInv
<1> DEFINE i == b % Size
           k == IF i >= wr THEN i - wr ELSE i - wr + Size
<1>3. Filled(n)[i] = IF k < n THEN written + k ELSE TL_ip_buffer[i]
  BY <1>1 DEF Filled
<1>4. i \in 0 .. Size - 1
  BY <1>1 DEF Cells
<1>5. CASE b >= written
  <2> DEFINE d == b - written
  <2>1. d \in 0 .. Size - 1 /\ d < n /\ b = written + d
    BY <1>1, <1>5
  <2>2. i = IF Wrap(wr) + d >= Size THEN Wrap(wr) + d - Size ELSE Wrap(wr) + d
    <3>1. i = (written + d) % Size
      BY <2>1
    <3>2. d \in 0 .. Size
      BY <2>1
    <3>3. /\ (written % Size) + d < Size => (written + d) % Size = (written % Size) + d
          /\ (written % Size) + d >= Size => (written + d) % Size = (written % Size) + d - Size
      <4> HIDE DEF d
      <4>1. QED
        BY <1>1, <3>2, Around
    <3>4. Wrap(wr) + d \in Int
      BY <1>1, <2>1 DEF Wrap
    <3> HIDE DEF d, i
    <3>5. QED
      BY <1>2, <3>1, <3>3, <3>4
  <2>3. k = d
    <3> HIDE DEF i, d
    <3>1. QED
      BY <1>1, <1>4, <2>1, <2>2 DEF Wrap
  <2>4. QED
    BY <1>3, <2>1, <2>3
<1>6. CASE b < written
  <2> DEFINE d == written - b
  <2>1. d \in 1 .. Size - n /\ written = b + d
    BY <1>1, <1>6
  <2>2. Wrap(wr) = IF i + d >= Size THEN i + d - Size ELSE i + d
    <3>1. Wrap(wr) = (b + d) % Size
      BY <1>2, <2>1
    <3>2. d \in 0 .. Size
      BY <2>1
    <3>3. i + d < Size => (b + d) % Size = i + d
      <4> HIDE DEF d
      <4>1. QED
        BY <3>2, Around
    <3>4. i + d >= Size => (b + d) % Size = i + d - Size
      <4> HIDE DEF d
      <4>1. QED
        BY <3>2, Around
    <3> HIDE DEF d, i
    <3>5. QED
      BY <1>4, <2>1, <3>1, <3>3, <3>4
  <2>3. k >= n
    <3> HIDE DEF i, d
    <3>1. QED
      BY <1>1, <1>4, <2>1, <2>2 DEF Wrap
  <2>4. TL_ip_buffer[i] = b
    BY <1>1, <1>2, <1>6 DEF InPlace
  <2>5. ~(k < n)
    <3> HIDE DEF k
    <3>1. k \in Int
      BY <1>1, <1>4 DEF k
    <3>2. QED
      BY <2>3, <3>1
  <2>6. QED
    BY <1>3, <2>4, <2>5
<1>7. QED
  BY <1>1, <1>5, <1>6

LEMMA BytesStep == TypeOK /\ HeldInv /\ BytesInv /\ [Next]_vars => BytesInv'
<1> SUFFICES ASSUME TypeOK, HeldInv, BytesInv, [Next]_vars PROVE BytesInv'
  OBVIOUS
<1>0. /\ Size \in Nat \ {0} /\ count \in Int /\ written \in Nat /\ taken \in Nat
      /\ want \in 0 .. Size /\ rd \in Cells
  BY IpBufferAssumption DEF TypeOK
<1> DEFINE Same == UNCHANGED <<TL_ip_buffer, rd, wr, count, written, taken>>
           Sure == mpc' \in {"lock", "copying"} => count' >= want'
<1>1. ASSUME Same, Sure PROVE BytesInv'
  BY <1>1 DEF BytesInv, InPlace
<1>2. CASE Start \/ Stop \/ Wanted \/ Kill
  <2>1. Same /\ UNCHANGED media
    BY <1>2 DEF Start, Stop, Wanted, Kill, queue
  <2>2. QED
    BY <1>1, <2>1 DEF media, BytesInv
<1>3. CASE Launch
  <2>1. mpc' \notin {"lock", "copying"}
    BY <1>3 DEF Launch, HeldInv, media
  <2>2. count' = 0 /\ written' = 0 /\ taken' = 0 /\ rd' = 0 /\ wr' = 0
    BY <1>3 DEF Launch
  <2>3. 0 % Size = 0 /\ Wrap(0) = 0
    BY <1>0 DEF Wrap
  <2>4. \A b \in Nat : InPlace(b)'
    BY <2>2 DEF InPlace
  <2>5. rd' = taken' % Size /\ Wrap(wr)' = written' % Size
    BY <2>2, <2>3 DEF Wrap
  <2>6. QED
    BY <2>1, <2>2, <2>4, <2>5 DEF BytesInv
<1>4. ASSUME NEW n \in Units \cup {0}, Fill(n) PROVE BytesInv'
  <2>1. n \in 0 .. Size
    BY IpBufferAssumption
  <2>2. /\ TL_ip_buffer' = Filled(n) /\ count' = count + n /\ written' = written + n
        /\ rd' = rd /\ taken' = taken /\ mpc' = mpc /\ want' = want
    BY <1>4 DEF Fill, media
  <2>3. \A b \in Nat : InPlace(b)'
    BY <2>1, <2>2, FilledInPlace DEF InPlace
  <2>4. Wrap(wr)' = written' % Size
    <3>1. wr \in 0 .. Size /\ Wrap(wr) = written % Size
      BY <1>0 DEF TypeOK, Cells, BytesInv
    <3>2. /\ Wrap(wr) + n < Size => written' % Size = Wrap(wr) + n
          /\ Wrap(wr) + n >= Size => written' % Size = Wrap(wr) + n - Size
      BY <1>0, <2>1, <2>2, <3>1, Around
    <3>3. wr' = IF wr + n <= Size THEN wr + n ELSE Wrap(wr + n)
      BY <1>4 DEF Fill
    <3>4. Wrap(wr') = IF Wrap(wr) + n < Size THEN Wrap(wr) + n ELSE Wrap(wr) + n - Size
      BY <1>0, <2>1, <3>1, <3>3 DEF Wrap
    <3>5. Wrap(wr) + n \in Int
      BY <1>0, <2>1, <3>1 DEF Wrap
    <3>6. QED
      BY <1>0, <3>2, <3>4, <3>5 DEF Wrap
  <2>5. count' >= 0 /\ written' = taken' + count' /\ Sure
    BY <1>0, <2>1, <2>2 DEF BytesInv
  <2>6. QED
    BY <2>2, <2>3, <2>4, <2>5 DEF BytesInv
<1>5. CASE MediaBegin \/ MediaEnd \/ Look \/ Control
  <2>1. Same /\ mpc' \notin {"lock", "copying"}
    BY <1>5 DEF MediaBegin, MediaEnd, Look, Control, queue
  <2>2. QED
    BY <1>1, <2>1
<1>6. CASE Get
  <2>1. Same /\ want' = want /\ (mpc' \in {"lock", "copying"} => count >= want)
    BY <1>6 DEF Get, Enough, Return, queue
  <2>2. QED
    BY <1>1, <2>1
<1>7. CASE Lock
  <2>1. Same /\ want' = want /\ mpc = "lock"
    BY <1>7 DEF Lock, queue
  <2>2. QED
    BY <1>1, <2>1 DEF BytesInv
<1>8. CASE Take
  <2>1. /\ rd' = Wrap(rd + want) /\ count' = count - want /\ taken' = taken + want
        /\ TL_ip_buffer' = TL_ip_buffer /\ wr' = wr /\ written' = written /\ want' = want
    BY <1>8 DEF Take
  <2>2. count >= want /\ mpc' = "look"
    BY <1>8 DEF Take, Return, BytesInv
  <2>3. rd' = taken' % Size
    <3>1. rd = taken % Size
      BY DEF BytesInv
    <3>2. /\ rd + want < Size => (taken + want) % Size = rd + want
          /\ rd + want >= Size => (taken + want) % Size = rd + want - Size
      BY <1>0, <3>1, Around
    <3>3. rd + want \in Int
      BY <1>0 DEF Cells
    <3>4. rd' = IF rd + want >= Size THEN (rd + want) - Size ELSE rd + want
      BY <2>1 DEF Wrap
    <3>5. taken' % Size = (taken + want) % Size
      BY <2>1
    <3>6. QED
      BY <1>0, <3>2, <3>3, <3>4, <3>5 DEF Cells
  <2>4. count' >= 0 /\ written' = taken' + count'
    BY <1>0, <2>1, <2>2 DEF BytesInv
  <2>5. QED
    BY <2>1, <2>2, <2>3, <2>4 DEF BytesInv, InPlace
<1>9. CASE UNCHANGED vars
  <2>1. Same /\ UNCHANGED media
    BY <1>9 DEF vars, queue
  <2>2. QED
    BY <1>1, <2>1 DEF media, BytesInv
<1>10. QED
  BY <1>2, <1>3, <1>4, <1>5, <1>6, <1>7, <1>8, <1>9 DEF Next, Pump, Media

(* What waits in the buffer are the bytes that follow the last one taken,  *)
(* in their order and around its end (FillOnePacketToQueue,                *)
(* ReadOnePacketFromeQueue), for any size of the buffer, of what the pump  *)
(* gets and of what the media wants, and however many bytes go through it. *)
THEOREM IntactCorrect == Spec => []Intact
<1>1. Init => BytesInv
  <2> SUFFICES ASSUME Init PROVE BytesInv
    OBVIOUS
  <2>1. Size \in Nat \ {0}
    BY IpBufferAssumption
  <2>2. 0 % Size = 0 /\ Wrap(0) = 0
    BY <2>1 DEF Wrap
  <2>3. count = 0 /\ written = 0 /\ taken = 0 /\ rd = 0 /\ wr = 0 /\ mpc = "none"
    BY DEF Init
  <2>4. \A b \in Nat : InPlace(b)
    BY <2>3 DEF InPlace
  <2>5. QED
    BY <2>2, <2>3, <2>4 DEF BytesInv
<1>2. Init => HeldInv
  BY DEF Init, HeldInv
<1>3. TypeOK /\ BytesInv => Intact
  <2> SUFFICES ASSUME TypeOK, BytesInv PROVE Intact
    OBVIOUS
  <2>1. Size \in Nat \ {0} /\ count \in Nat /\ taken \in Nat /\ written = taken + count
    BY IpBufferAssumption DEF TypeOK, BytesInv
  <2>2. ASSUME count <= Size, NEW i \in 0 .. count - 1
        PROVE  TL_ip_buffer[(rd + i) % Size] = taken + i
    <3>1. i \in 0 .. Size /\ taken + i \in Nat /\ rd = taken % Size /\ InPlace(taken + i)
      BY <2>1, <2>2 DEF BytesInv
    <3>2. rd \in Cells /\ rd \in Nat
      BY DEF TypeOK, Cells
    <3>3. rd % Size = rd
      BY <2>1, <3>2 DEF Cells
    <3>4. /\ rd + i < Size => (rd + i) % Size = rd + i /\ (taken + i) % Size = rd + i
          /\ rd + i >= Size => (rd + i) % Size = rd + i - Size /\ (taken + i) % Size = rd + i - Size
      BY <2>1, <3>1, <3>2, <3>3, Around
    <3>5. (rd + i) % Size = (taken + i) % Size
      BY <2>1, <3>1, <3>2, <3>4
    <3>6. taken + i < written /\ taken + i + Size >= written
      BY <2>1, <2>2
    <3>7. QED
      BY <3>1, <3>5, <3>6 DEF InPlace
  <2>3. QED
    BY <2>1, <2>2 DEF Intact
<1>4. QED
  BY <1>1, <1>2, <1>3, HeldStep, BytesStep, TypeCorrect, PTL DEF Spec
=============================================================================
