--------------------------- MODULE PlaybackProofs ---------------------------
(***************************************************************************)
(* Playback for any medias, buffer sizes and callers.  TypeOK is inductive *)
(* by itself, and Lifecycle on top of it: where the command thread is in   *)
(* play() and stop() decides which threads run and in what state, and the  *)
(* shutdown properties are read off it.  The properties of the multiplexed *)
(* buffer and of the sleeping threads are inductive on top of both.        *)
(* Each step lemma has one step per action, and under it one per part of   *)
(* the invariant that the action can disturb.  The last part shows that a  *)
(* session implements Stream: StreamInv says what the buffers hold and     *)
(* when, and under it each step of a thread is a step of Stream or none.   *)
(***************************************************************************)
EXTENDS Playback, FiniteSetTheorems, WellFoundedInduction, TLAPS

(* What the operators on sequences that the session uses give.             *)

LEMMA SequenceFacts ==
  ASSUME NEW T, NEW q \in Seq(T), NEW r \in Seq(T), NEW x \in T, NEW n \in Nat
  PROVE  /\ q # <<>> => Tail(q) \in Seq(T) /\ Len(Tail(q)) = Len(q) - 1 /\ Head(q) \in T
                        /\ Len(q) > 0
         /\ Append(q, x) \in Seq(T) /\ Len(Append(q, x)) = Len(q) + 1
         /\ q \o r \in Seq(T) /\ Len(q \o r) = Len(q) + Len(r)
         /\ n <= Len(q) => SubSeq(q, 1, n) \in Seq(T) /\ Len(SubSeq(q, 1, n)) = n
         /\ n <= Len(q) => SubSeq(q, n + 1, Len(q)) \in Seq(T) /\ Len(SubSeq(q, n + 1, Len(q))) = Len(q) - n
         /\ <<>> \in Seq(T) /\ Len(<<>>) = 0
         /\ Len(q) \in Nat
  OBVIOUS

(* The numbers of the packets stay below Seqs.                             *)
LEMMA ModType == ASSUME NEW a \in Int, NEW b \in Nat \ {0} PROVE a % b \in 0 .. b - 1
  OBVIOUS

(* tlv_mq_send never fills the queue beyond its capacity.                  *)
LEMMA SentType ==
  ASSUME NEW q \in Seq(Messages), Len(q) <= QueueCap, NEW message \in Messages
  PROVE  Sent(q, message) \in Seq(Messages) /\ Len(Sent(q, message)) <= QueueCap
  BY PlaybackAssumption DEF Sent

(* A caller makes a sequence of requests.                                  *)
LEMMA CallsType == \A c \in Callers : Calls[c] \in Seq(Steps)
<1>1. <<"TAKE", "FINISH_ASI_0", "INIT", "PLAY">> \in Seq(Steps)
  BY DEF Steps, Requests
<1>2. <<"TAKE", "FINISH_ASI_1", "STOP", "QUIT">> \in Seq(Steps)
  BY DEF Steps, Requests
<1>3. <<"PAUSE">> \in Seq(Steps) /\ <<"RESUME">> \in Seq(Steps)
  BY DEF Steps, Requests
<1>4. Calls["start_play"] \in Seq(Steps)
  BY <1>1 DEF Calls
<1>5. Calls["start_mon"] \in Seq(Steps)
  BY <1>2 DEF Calls
<1>6. Calls["pause"] \in Seq(Steps) /\ Calls["resume"] \in Seq(Steps)
  BY <1>3 DEF Calls
<1>7. QED
  BY <1>4, <1>5, <1>6, PlaybackAssumption

-----------------------------------------------------------------------------

(* The types depend on the variables of each part alone.                   *)
LEMMA TypesFrame ==
  /\ CommandTypes /\ UNCHANGED cmdVars => CommandTypes'
  /\ MediaTypes /\ UNCHANGED mediaVars => MediaTypes'
  /\ ProducerTypes /\ UNCHANGED producerVars => ProducerTypes'
  /\ ConsumerTypes /\ UNCHANGED consumerVars => ConsumerTypes'
  /\ ObserverTypes /\ UNCHANGED observerVars => ObserverTypes'
<1>1. CommandTypes /\ UNCHANGED cmdVars => CommandTypes'
  BY DEF CommandTypes, cmdVars
<1>2. MediaTypes /\ UNCHANGED mediaVars => MediaTypes'
  BY DEF MediaTypes, mediaVars
<1>3. ProducerTypes /\ UNCHANGED producerVars => ProducerTypes'
  BY DEF ProducerTypes, producerVars
<1>4. ConsumerTypes /\ UNCHANGED consumerVars => ConsumerTypes'
  BY DEF ConsumerTypes, consumerVars
<1>5. ObserverTypes /\ UNCHANGED observerVars => ObserverTypes'
  BY DEF ObserverTypes, observerVars
<1>6. QED
  BY <1>1, <1>2, <1>3, <1>4, <1>5

(* Types, one lemma per thread.                                            *)
LEMMA RequestTypes ==
  ASSUME TypeOK, Request PROVE TypeOK'
<1>1. /\ CommandTypes /\ MediaTypes /\ ProducerTypes /\ ConsumerTypes /\ ObserverTypes
      /\ script \in Seq(Steps)
  BY DEF TypeOK, CommandTypes
<1>2. ASSUME NEW step, Dispatch(step) PROVE script' \in Seq(Steps)
  BY <1>1, <1>2, SequenceFacts DEF Dispatch, Pending
<1>3. CASE \E c \in Callers : Call(c)
  <2>1. CommandTypes'
    BY <1>1, <1>3, CallsType DEF Call, CommandTypes
  <2>2. QED
    BY <1>1, <1>3, <2>1, TypesFrame DEF Call, TypeOK
<1>4. CASE Take \/ \E v \in {0, 1} : SetFinishAsi(v)
  <2>1. script' \in Seq(Steps)
    BY <1>2, <1>4 DEF Take, SetFinishAsi
  <2>2. CommandTypes'
    BY <1>1, <1>4, <2>1 DEF Take, SetFinishAsi, CommandTypes
  <2>3. QED
    BY <1>1, <1>4, <2>2, TypesFrame DEF Take, SetFinishAsi, TypeOK
<1>5. CASE init \/ quit
  <2>1. script' \in Seq(Steps)
    BY <1>2, <1>5 DEF init, quit
  <2>2. CommandTypes'
    BY <1>1, <1>5, <2>1 DEF init, quit, CommandTypes
  <2>3. mux' \in Seq(Packet) /\ Len(mux') <= MuxCap
    <3>1. mux' = <<>>
      BY <1>5 DEF init, quit
    <3>2. QED
      BY <3>1, PlaybackAssumption
  <2>4. ProducerTypes'
    BY <1>1, <1>5, <2>3 DEF init, quit, ProducerTypes
  <2>5. QED
    BY <1>1, <1>5, <2>2, <2>4, TypesFrame DEF init, quit, TypeOK
<1>6. CASE play
  <2>1. script' \in Seq(Steps)
    BY <1>2, <1>6 DEF play
  <2>2. CommandTypes'
    BY <1>1, <1>6, <2>1 DEF play, CommandTypes, Controls
  <2>3. mux' \in Seq(Packet) /\ Len(mux') <= MuxCap
    BY <1>6, PlaybackAssumption DEF play
  <2>4. ProducerTypes'
    BY <1>1, <1>6, <2>3 DEF play, ProducerTypes
  <2>5. queue' \in Seq(Messages) /\ Len(queue') <= QueueCap
    BY <1>6, PlaybackAssumption DEF play
  <2>6. ObserverTypes'
    BY <1>1, <1>6, <2>5 DEF play, ObserverTypes, ThreadState
  <2>7. QED
    BY <1>1, <1>6, <2>2, <2>4, <2>6, TypesFrame DEF play, TypeOK
<1>7. CASE pause \/ resume \/ stop \/ Ignored
  <2>1. script' \in Seq(Steps)
    BY <1>2, <1>7 DEF pause, resume, stop, Ignored
  <2>2. CommandTypes'
    BY <1>1, <1>7, <2>1 DEF pause, resume, stop, Ignored, CommandTypes, Controls
  <2>3. QED
    BY <1>1, <1>7, <2>2, TypesFrame DEF pause, resume, stop, Ignored, TypeOK
<1>8. QED
  BY <1>3, <1>4, <1>5, <1>6, <1>7 DEF Request

LEMMA CommandStepTypes ==
  ASSUME TypeOK, CommandStep PROVE TypeOK'
<1>1. CommandTypes /\ MediaTypes /\ ProducerTypes /\ ConsumerTypes /\ ObserverTypes
  BY DEF TypeOK
<1>2. CASE \E m \in Media : CreateMedia(m)
  <2>1. PICK m \in Media : CreateMedia(m)
    BY <1>2
  <2>2. CommandTypes'
    BY <1>1, <2>1 DEF CreateMedia, CommandTypes
  <2>3. MediaTypes'
    BY <1>1, <2>1, PlaybackAssumption DEF CreateMedia, MediaTypes, ThreadState
  <2>4. ConsumerTypes'
    BY <1>1, <2>1, PlaybackAssumption DEF CreateMedia, ConsumerTypes
  <2>5. QED
    BY <1>1, <2>1, <2>2, <2>3, <2>4, TypesFrame DEF CreateMedia, TypeOK
<1>3. CASE CreateProducer
  <2>1. CommandTypes' /\ ProducerTypes'
    BY <1>1, <1>3 DEF CreateProducer, CommandTypes, ProducerTypes, ThreadState
  <2>2. QED
    BY <1>1, <1>3, <2>1, TypesFrame DEF CreateProducer, TypeOK
<1>4. CASE CreateConsumer
  <2>1. CommandTypes' /\ ConsumerTypes'
    BY <1>1, <1>4 DEF CreateConsumer, CommandTypes, ConsumerTypes, ThreadState
  <2>2. QED
    BY <1>1, <1>4, <2>1, TypesFrame DEF CreateConsumer, TypeOK
<1>5. CASE StopObserver
  <2>1. CommandTypes'
    BY <1>1, <1>5 DEF StopObserver, CommandTypes, Controls
  <2>2. queue' \in Seq(Messages) /\ Len(queue') <= QueueCap
    BY <1>1, <1>5, SentType DEF StopObserver, ObserverTypes, Messages
  <2>3. ObserverTypes'
    BY <1>1, <1>5, <2>2 DEF StopObserver, ObserverTypes
  <2>4. QED
    BY <1>1, <1>5, <2>1, <2>3, TypesFrame DEF StopObserver, TypeOK
<1>6. CASE StopOutput
  <2>1. CommandTypes' /\ ConsumerTypes'
    BY <1>1, <1>6 DEF StopOutput, ConsumerAfterOut, CommandTypes, ConsumerTypes, Controls
  <2>2. QED
    BY <1>1, <1>6, <2>1, TypesFrame DEF StopOutput, TypeOK
<1>7. CASE StopMultiplexer
  <2>1. CommandTypes'
    BY <1>1, <1>7 DEF StopMultiplexer, CommandTypes, Controls
  <2>2. ProducerTypes'
    BY <1>1, <1>7 DEF StopMultiplexer, ProducerAfterIn, ProducerTypes
  <2>3. QED
    BY <1>1, <1>7, <2>1, <2>2, TypesFrame DEF StopMultiplexer, TypeOK
<1>8. CASE \E m \in Media : StopSignalInput(m)
  <2>1. PICK m \in Media : StopSignalInput(m)
    BY <1>8
  <2>2. CommandTypes'
    BY <1>1, <2>1 DEF StopSignalInput, CommandTypes
  <2>3. MediaTypes'
    BY <1>1, <2>1 DEF StopSignalInput, MediaAfterIn, MediaTypes
  <2>4. QED
    BY <1>1, <2>1, <2>2, <2>3, TypesFrame DEF StopSignalInput, TypeOK
<1>9. CASE StopInput
  <2>1. CommandTypes'
    BY <1>1, <1>9 DEF StopInput, CommandTypes
  <2>2. queue' \in Seq(Messages) /\ Len(queue') <= QueueCap
    BY <1>9, PlaybackAssumption DEF StopInput
  <2>3. ObserverTypes'
    BY <1>1, <1>9, <2>2 DEF StopInput, ObserverTypes
  <2>4. QED
    BY <1>1, <1>9, <2>1, <2>3, TypesFrame DEF StopInput, TypeOK
<1>10. QED
  BY <1>2, <1>3, <1>4, <1>5, <1>6, <1>7, <1>8, <1>9 DEF CommandStep

LEMMA MediaStepTypes ==
  ASSUME TypeOK, NEW m \in Media, MediaStep(m) PROVE TypeOK'
<1>1. CommandTypes /\ MediaTypes /\ ProducerTypes /\ ConsumerTypes /\ ObserverTypes
  BY DEF TypeOK
<1>2. queue \in Seq(Messages) /\ Len(queue) <= QueueCap /\ buf[m] \in Seq(Packet)
      /\ Len(buf[m]) \in Nat /\ room[m] \in Nat /\ Len(buf[m]) + room[m] <= InCap
      /\ InCap \in Nat /\ src[m] \in 0 .. Seqs - 1 /\ Seqs \in Nat \ {0}
  BY <1>1, PlaybackAssumption DEF ObserverTypes, MediaTypes
<1>3. CASE MediaOpen(m)
  <2>1. queue' \in Seq(Messages) /\ Len(queue') <= QueueCap
    BY <1>2, <1>3, SentType DEF MediaOpen, Messages
  <2>2. ObserverTypes'
    BY <1>1, <1>3, <2>1 DEF MediaOpen, ObserverTypes
  <2>3. buf' \in [Media -> Seq(Packet)] /\ \A n \in Media : Len(buf'[n]) + room'[n] <= InCap
    <3>1. buf' = [buf EXCEPT ![m] = <<>>] /\ room' = room
      BY <1>3 DEF MediaOpen
    <3>2. buf \in [Media -> Seq(Packet)] /\ \A n \in Media : Len(buf[n]) + room[n] <= InCap
      BY <1>1 DEF MediaTypes
    <3>3. <<>> \in Seq(Packet) /\ Len(<<>>) + room[m] <= InCap
      BY <1>2
    <3>4. QED
      BY <3>1, <3>2, <3>3
  <2>4. MediaTypes'
    BY <1>1, <1>3, <2>3 DEF MediaOpen, Goto, MediaTypes
  <2>5. QED
    BY <1>1, <1>3, <2>2, <2>4, TypesFrame DEF MediaOpen, TypeOK
<1>4. CASE MediaReady(m) \/ MediaFinish(m)
  <2>1. MediaTypes'
    BY <1>1, <1>4 DEF MediaReady, MediaFinish, Goto, MediaTypes, ThreadState
  <2>2. QED
    BY <1>1, <1>4, <2>1, TypesFrame DEF MediaReady, MediaFinish, TypeOK
<1>5. CASE MediaWaiting(m) \/ MediaPaused(m)
  <2>1. MediaTypes'
    BY <1>1, <1>5 DEF MediaWaiting, MediaPaused, MediaTypes
  <2>2. QED
    BY <1>1, <1>5, <2>1, TypesFrame DEF MediaWaiting, MediaPaused, TypeOK
<1>6. CASE MediaTest(m)
  <2>1. InCap - Len(buf[m]) \in Nat /\ Len(buf[m]) + (InCap - Len(buf[m])) <= InCap
    BY <1>2
  <2>2. MediaTypes'
    BY <1>1, <1>6, <2>1 DEF MediaTest, MediaTypes
  <2>3. QED
    BY <1>1, <1>6, <2>2, TypesFrame DEF MediaTest, TypeOK
<1>7. CASE MediaFull(m) \/ MediaSignal(m)
  <2>1. MediaTypes'
    BY <1>1, <1>7 DEF MediaFull, MediaSignal, Goto, MediaTypes
  <2>2. ProducerTypes'
    BY <1>1, <1>7 DEF MediaFull, MediaSignal, ProducerAfterOut, ProducerTypes
  <2>3. QED
    BY <1>1, <1>7, <2>1, <2>2, TypesFrame DEF MediaFull, MediaSignal, TypeOK
<1>8. CASE MediaRead(m)
  <2>1. queue' \in Seq(Messages) /\ Len(queue') <= QueueCap
    BY <1>2, <1>8, SentType DEF MediaRead, Messages
  <2>2. ObserverTypes'
    BY <1>1, <1>8, <2>1 DEF MediaRead, ObserverTypes
  <2>3. MediaTypes'
    BY <1>1, <1>8 DEF MediaRead, MediaTypes
  <2>4. QED
    BY <1>1, <1>8, <2>2, <2>3, TypesFrame DEF MediaRead, TypeOK
<1>9. CASE MediaStore(m)
  <2>1. PICK k \in 1 .. room[m] :
          /\ buf' = [buf EXCEPT ![m] = @ \o [i \in 1 .. k |->
                       [media |-> m, seq |-> (src[m] + i - 1) % Seqs]]]
          /\ src' = [src EXCEPT ![m] = (@ + k) % Seqs]
    BY <1>9 DEF MediaStore
  <2> DEFINE got == [i \in 1 .. k |-> [media |-> m, seq |-> (src[m] + i - 1) % Seqs]]
  <2>2. got \in Seq(Packet) /\ Len(got) = k
    <3>1. \A i \in 1 .. k : src[m] + i - 1 \in Int
      BY <1>2
    <3>4. \A i \in 1 .. k : (src[m] + i - 1) % Seqs \in 0 .. Seqs - 1
      BY <3>1, PlaybackAssumption, ModType
    <3>2. \A i \in 1 .. k : [media |-> m, seq |-> (src[m] + i - 1) % Seqs] \in Packet
      BY <3>4 DEF Packet
    <3>3. QED
      BY <3>2
  <2>3. buf[m] \o got \in Seq(Packet) /\ Len(buf[m] \o got) <= InCap
    BY <1>2, <2>1, <2>2, SequenceFacts
  <2>4. buf' \in [Media -> Seq(Packet)] /\ \A n \in Media : Len(buf'[n]) + room'[n] <= InCap
    <3> HIDE DEF got
    <3>1. buf' = [buf EXCEPT ![m] = buf[m] \o got] /\ room' = [room EXCEPT ![m] = 0]
      BY <1>9, <2>1 DEF MediaStore, got
    <3>2. /\ buf \in [Media -> Seq(Packet)] /\ room \in [Media -> Nat]
          /\ \A n \in Media : Len(buf[n]) + room[n] <= InCap
      BY <1>1 DEF MediaTypes
    <3>3. Len(buf[m] \o got) + 0 <= InCap
      BY <2>3, SequenceFacts
    <3>4. QED
      BY <2>3, <3>1, <3>2, <3>3
  <2>5. (src[m] + k) % Seqs \in 0 .. Seqs - 1
    <3>1. src[m] \in Int /\ k \in Int
      BY <1>2
    <3>2. src[m] + k \in Int
      BY <3>1
    <3>3. QED
      BY ONLY <3>2, PlaybackAssumption, ModType
  <2>6. MediaTypes'
    BY <1>1, <1>9, <2>1, <2>4, <2>5 DEF MediaStore, MediaTypes
  <2>7. ProducerTypes'
    BY <1>1, <1>9 DEF MediaStore, ProducerAfterOut, ProducerTypes
  <2>8. QED
    BY <1>1, <1>9, <2>6, <2>7, TypesFrame DEF MediaStore, TypeOK
<1>10. CASE MediaClose(m)
  <2>1. buf' \in [Media -> Seq(Packet)] /\ \A n \in Media : Len(buf'[n]) + room'[n] <= InCap
    <3>1. buf' = [buf EXCEPT ![m] = <<>>] /\ room' = [room EXCEPT ![m] = 0]
      BY <1>10 DEF MediaClose
    <3>2. /\ buf \in [Media -> Seq(Packet)] /\ room \in [Media -> Nat]
          /\ \A n \in Media : Len(buf[n]) + room[n] <= InCap
      BY <1>1 DEF MediaTypes
    <3>3. <<>> \in Seq(Packet) /\ Len(<<>>) + 0 <= InCap
      BY <1>2
    <3>4. QED
      BY <3>1, <3>2, <3>3
  <2>2. MediaTypes'
    BY <1>1, <1>10, <2>1 DEF MediaClose, Goto, MediaTypes
  <2>3. QED
    BY <1>1, <1>10, <2>2, TypesFrame DEF MediaClose, TypeOK
<1>11. QED
  BY <1>3, <1>4, <1>5, <1>6, <1>7, <1>8, <1>9, <1>10 DEF MediaStep

LEMMA ProducerStepTypes ==
  ASSUME TypeOK, ProducerStep PROVE TypeOK'
<1>1. CommandTypes /\ MediaTypes /\ ProducerTypes /\ ConsumerTypes /\ ObserverTypes
  BY DEF TypeOK
<1>2. /\ pm \in Media /\ buf[pm] \in Seq(Packet) /\ item \in Seq(Packet) /\ mux \in Seq(Packet)
      /\ Len(item) \in Nat /\ Len(mux) \in Nat /\ ItemUnits \in Nat /\ MuxCap \in Nat
      /\ Len(item) <= ItemUnits /\ Len(mux) <= MuxCap
  BY <1>1, PlaybackAssumption DEF MediaTypes, ProducerTypes
<1>3. CASE \/ ProducerBuffering \/ ProducerOpen \/ ProducerWaiting \/ ProducerTest
           \/ ProducerCheck \/ ProducerRecheck
  <2>1. ProducerTypes'
    BY <1>1, <1>3 DEF ProducerBuffering, ProducerOpen, ProducerWaiting, ProducerTest,
       ProducerCheck, ProducerRecheck, ProducerMove, ProducerTypes
  <2>2. QED
    BY <1>1, <1>3, <2>1, TypesFrame DEF ProducerBuffering, ProducerOpen, ProducerWaiting,
       ProducerTest, ProducerCheck, ProducerRecheck, ProducerMove, TypeOK
<1>4. CASE ProducerScan
  <2>1. ProducerTypes'
    BY <1>1, <1>4 DEF ProducerScan, ProducerTypes, ThreadState
  <2>2. QED
    BY <1>1, <1>4, <2>1, TypesFrame DEF ProducerScan, TypeOK
<1>5. CASE ProducerGather
  <2>1. ProducerTypes'
    BY <1>1, <1>5 DEF ProducerGather, ProducerTypes
  <2>2. QED
    BY <1>1, <1>5, <2>1, TypesFrame DEF ProducerGather, TypeOK
<1>6. CASE ProducerPacket /\ buf[pm] = <<>>
  <2>1. MediaTypes'
    BY <1>1, <1>2, <1>6 DEF ProducerPacket, MediaAfterIn, MediaTypes
  <2>2. ProducerTypes'
    BY <1>1, <1>6 DEF ProducerPacket, ProducerTypes
  <2>3. QED
    BY <1>1, <1>6, <2>1, <2>2, TypesFrame DEF ProducerPacket, TypeOK
<1>7. CASE ProducerPacket /\ buf[pm] # <<>>
  <2>1. /\ Tail(buf[pm]) \in Seq(Packet) /\ Len(Tail(buf[pm])) = Len(buf[pm]) - 1
        /\ Head(buf[pm]) \in Packet /\ Len(buf[pm]) \in Nat
    BY <1>2, <1>7, SequenceFacts
  <2>2. Append(item, Head(buf[pm])) \in Seq(Packet)
        /\ Len(Append(item, Head(buf[pm]))) = Len(item) + 1
    BY <1>2, <2>1, SequenceFacts
  <2>3. MediaTypes'
    <3>1. /\ buf \in [Media -> Seq(Packet)] /\ room \in [Media -> Nat]
          /\ \A n \in Media : Len(buf[n]) + room[n] <= InCap
      BY <1>1 DEF MediaTypes
    <3>2. buf' = [buf EXCEPT ![pm] = Tail(buf[pm])] /\ room' = room
      BY <1>7 DEF ProducerPacket
    <3>3. Len(Tail(buf[pm])) + room[pm] <= InCap
      BY <1>2, <2>1, <3>1, PlaybackAssumption
    <3>4. buf' \in [Media -> Seq(Packet)] /\ \A n \in Media : Len(buf'[n]) + room'[n] <= InCap
      BY <1>2, <2>1, <3>1, <3>2, <3>3
    <3>5. QED
      BY <1>1, <1>7, <3>4 DEF ProducerPacket, MediaTypes
  <2>4. ProducerTypes'
    BY <1>1, <1>2, <1>7, <2>2 DEF ProducerPacket, ProducerTypes
  <2>5. QED
    BY <1>1, <1>7, <2>3, <2>4, TypesFrame DEF ProducerPacket, TypeOK
<1>8. CASE ProducerStore
  <2> DEFINE n == Least(MuxCap - Len(mux), Len(item))
  <2>1. n \in Nat /\ n <= Len(item) /\ n <= MuxCap - Len(mux)
    BY <1>2 DEF Least
  <2>2. SubSeq(item, 1, n) \in Seq(Packet) /\ Len(SubSeq(item, 1, n)) = n
    BY <1>2, <2>1, SequenceFacts
  <2>3. mux' = mux \o SubSeq(item, 1, n) /\ item' = <<>>
    BY <1>8 DEF ProducerStore
  <2> HIDE DEF n
  <2>4. mux' \in Seq(Packet) /\ Len(mux') = Len(mux) + n
    BY <1>2, <2>2, <2>3, SequenceFacts
  <2>5. item' \in Seq(Packet) /\ Len(item') <= ItemUnits
    BY <1>2, <2>3
  <2>6. ProducerTypes'
    BY <1>1, <1>2, <1>8, <2>1, <2>4, <2>5 DEF ProducerStore, ProducerTypes
  <2>7. QED
    BY <1>1, <1>8, <2>6, TypesFrame DEF ProducerStore, TypeOK
<1>9. CASE ProducerSignal
  <2>1. ProducerTypes' /\ ConsumerTypes'
    BY <1>1, <1>9 DEF ProducerSignal, ConsumerAfterOut, ProducerTypes, ConsumerTypes
  <2>2. QED
    BY <1>1, <1>9, <2>1, TypesFrame DEF ProducerSignal, TypeOK
<1>10. CASE ProducerFinish
  <2>1. item' \in Seq(Packet) /\ Len(item') <= ItemUnits
    BY <1>2, <1>10 DEF ProducerFinish
  <2>2. ProducerTypes'
    BY <1>1, <1>10, <2>1 DEF ProducerFinish, ProducerTypes, ThreadState
  <2>3. QED
    BY <1>1, <1>10, <2>2, TypesFrame DEF ProducerFinish, TypeOK
<1>11. QED
  BY <1>3, <1>4, <1>5, <1>6, <1>7, <1>8, <1>9, <1>10 DEF ProducerStep, ProducerPacket

LEMMA ConsumerStepTypes ==
  ASSUME TypeOK, ConsumerStep \/ BoardStep PROVE TypeOK'
<1>1. CommandTypes /\ MediaTypes /\ ProducerTypes /\ ConsumerTypes /\ ObserverTypes
  BY DEF TypeOK
<1>2. mux \in Seq(Packet) /\ Len(mux) \in Nat /\ BlockUnits \in Nat /\ Len(mux) <= MuxCap
      /\ MuxCap \in Nat /\ Seqs \in Nat \ {0}
  BY <1>1, PlaybackAssumption DEF ProducerTypes
<1>3. CASE \/ ConsumerMultiplexing \/ ConsumerLoop \/ ConsumerRead \/ ConsumerBlock
           \/ ConsumerRoom \/ ConsumerDma \/ BoardStep
  <2>1. ConsumerTypes'
    BY <1>1, <1>3 DEF ConsumerMultiplexing, ConsumerLoop, ConsumerRead, ConsumerBlock,
       ConsumerRoom, ConsumerDma, BoardStep, BoardRoom, BoardDma, ConsumerMove, ConsumerTypes
  <2>2. QED
    BY <1>1, <1>3, <2>1, TypesFrame DEF ConsumerMultiplexing, ConsumerLoop, ConsumerRead,
       ConsumerBlock, ConsumerRoom, ConsumerDma, BoardStep, BoardRoom, BoardDma, ConsumerMove, TypeOK
<1>4. CASE ConsumerAwait \/ ConsumerFinish
  <2>1. ConsumerTypes'
    BY <1>1, <1>4 DEF ConsumerAwait, ConsumerFinish, ConsumerTypes, ThreadState
  <2>2. QED
    BY <1>1, <1>4, <2>1, TypesFrame DEF ConsumerAwait, ConsumerFinish, TypeOK
<1>5. CASE ConsumerLock /\ Len(mux) < BlockUnits
  <2>1. ConsumerTypes' /\ ProducerTypes'
    BY <1>1, <1>5 DEF ConsumerLock, ProducerAfterIn, ConsumerTypes, ProducerTypes
  <2>2. QED
    BY <1>1, <1>5, <2>1, TypesFrame DEF ConsumerLock, TypeOK
<1>6. CASE ConsumerLock /\ ~(Len(mux) < BlockUnits)
  <2>1. /\ SubSeq(mux, 1, BlockUnits) \in Seq(Packet)
        /\ Len(SubSeq(mux, 1, BlockUnits)) = BlockUnits
        /\ SubSeq(mux, BlockUnits + 1, Len(mux)) \in Seq(Packet)
        /\ Len(SubSeq(mux, BlockUnits + 1, Len(mux))) = Len(mux) - BlockUnits
    BY <1>2, <1>6, SequenceFacts
  <2>2. dma' = SubSeq(mux, 1, BlockUnits) /\ mux' = SubSeq(mux, BlockUnits + 1, Len(mux))
    BY <1>6 DEF ConsumerLock
  <2>3. ConsumerTypes'
    BY <1>1, <1>2, <1>6, <2>1, <2>2 DEF ConsumerLock, ConsumerTypes
  <2>4. ProducerTypes'
    BY <1>1, <1>2, <1>6, <2>1, <2>2 DEF ConsumerLock, ProducerTypes
  <2>5. QED
    BY <1>1, <1>6, <2>3, <2>4, TypesFrame DEF ConsumerLock, TypeOK
<1>7. CASE ConsumerWrite
  <2>1. ASSUME NEW m \in Media PROVE Count(m, dma) \in Nat
    <3>1. DOMAIN dma = 1 .. Len(dma) /\ Len(dma) \in Nat
      BY <1>1 DEF ConsumerTypes
    <3>2. IsFiniteSet(1 .. Len(dma))
      BY <3>1, FS_Interval
    <3>3. IsFiniteSet({i \in DOMAIN dma : dma[i].media = m})
      BY <3>1, <3>2, FS_Subset
    <3>4. QED
      BY <3>3, FS_CardinalityType DEF Count
  <2>2. ASSUME NEW m \in Media PROVE (board[m] + Count(m, dma)) % Seqs \in 0 .. Seqs - 1
    <3>1. board[m] \in Int /\ Count(m, dma) \in Int
      BY <1>1, <1>2, <2>1 DEF ConsumerTypes
    <3>2. board[m] + Count(m, dma) \in Int
      BY <3>1
    <3>3. QED
      BY ONLY <3>2, PlaybackAssumption, ModType
  <2>3. ConsumerTypes'
    BY <1>1, <1>7, <2>2 DEF ConsumerWrite, ConsumerTypes
  <2>4. QED
    BY <1>1, <1>7, <2>3, TypesFrame DEF ConsumerWrite, TypeOK
<1>8. QED
  BY <1>3, <1>4, <1>5, <1>6, <1>7 DEF ConsumerStep

LEMMA ObserverStepTypes ==
  ASSUME TypeOK, ObserverStep PROVE TypeOK'
<1>1. CommandTypes /\ MediaTypes /\ ProducerTypes /\ ConsumerTypes /\ ObserverTypes
  BY DEF TypeOK
<1>2. CASE ObserverReceive
  <2>1. Tail(queue) \in Seq(Messages) /\ Len(Tail(queue)) = Len(queue) - 1 /\ Len(queue) \in Nat
    BY <1>1, <1>2, SequenceFacts DEF ObserverReceive, ObserverTypes
  <2>2. ObserverTypes'
    BY <1>1, <1>2, <2>1, PlaybackAssumption DEF ObserverReceive, ObserverTypes
  <2>3. QED
    BY <1>1, <1>2, <2>2, TypesFrame DEF ObserverReceive, TypeOK
<1>3. CASE ObserverFinish
  <2>1. ObserverTypes'
    BY <1>1, <1>3 DEF ObserverFinish, ObserverTypes, ThreadState
  <2>2. QED
    BY <1>1, <1>3, <2>1, TypesFrame DEF ObserverFinish, TypeOK
<1>4. QED
  BY <1>2, <1>3 DEF ObserverStep

LEMMA SpuriousWakeupTypes ==
  ASSUME TypeOK, SpuriousWakeup PROVE TypeOK'
<1>1. CommandTypes /\ MediaTypes /\ ProducerTypes /\ ConsumerTypes /\ ObserverTypes
  BY DEF TypeOK
<1>2. CASE /\ \E m \in Media : Goto(m, "wait", "loop")
           /\ UNCHANGED <<cmdVars, media_state, live, buf, src, room, producerVars, consumerVars,
                          observerVars>>
  <2>1. MediaTypes'
    BY <1>1, <1>2 DEF Goto, MediaTypes
  <2>2. QED
    BY <1>1, <1>2, <2>1, TypesFrame DEF TypeOK
<1>3. CASE ProducerMove("wait_out", "recheck") \/ ProducerMove("wait_mux", "loop")
  <2>1. ProducerTypes'
    BY <1>1, <1>3 DEF ProducerMove, ProducerTypes
  <2>2. QED
    BY <1>1, <1>3, <2>1, TypesFrame DEF ProducerMove, TypeOK
<1>4. CASE ConsumerMove("wait_mux", "read")
  <2>1. ConsumerTypes'
    BY <1>1, <1>4 DEF ConsumerMove, ConsumerTypes
  <2>2. QED
    BY <1>1, <1>4, <2>1, TypesFrame DEF ConsumerMove, TypeOK
<1>5. QED
  BY <1>2, <1>3, <1>4 DEF SpuriousWakeup

LEMMA InitTypes == Init => TypeOK
<1> SUFFICES ASSUME Init PROVE TypeOK
  OBVIOUS
<1>1. <<>> \in Seq(Steps) /\ <<>> \in Seq(Packet) /\ <<>> \in Seq(Messages) /\ Len(<<>>) = 0
  OBVIOUS
<1>2. CommandTypes
  BY <1>1 DEF Init, CommandTypes, Controls
<1>3. MediaTypes
  <2>1. buf = [m \in Media |-> <<>>] /\ room = [m \in Media |-> 0]
    BY DEF Init
  <2>2. buf \in [Media -> Seq(Packet)] /\ \A m \in Media : Len(buf[m]) + room[m] <= InCap
    BY <1>1, <2>1, PlaybackAssumption
  <2>3. QED
    BY <2>2, PlaybackAssumption DEF Init, MediaTypes, ThreadState
<1>4. ProducerTypes
  <2>1. item = <<>> /\ mux = <<>> /\ ppc = "off" /\ producer_state = "FINISH" /\ pm \in Media
    BY DEF Init
  <2>2. Len(item) <= ItemUnits /\ Len(mux) <= MuxCap
    BY <1>1, <2>1, PlaybackAssumption
  <2>3. QED
    BY <1>1, <2>1, <2>2 DEF ProducerTypes, ThreadState
<1>5. ConsumerTypes
  BY <1>1, PlaybackAssumption DEF Init, ConsumerTypes, ThreadState
<1>6. ObserverTypes
  <2>1. queue = <<>> /\ opc = "off" /\ observer_state = "FINISH" /\ queue_live = FALSE
    BY DEF Init
  <2>2. Len(queue) <= QueueCap
    BY <1>1, <2>1, PlaybackAssumption
  <2>3. QED
    BY <1>1, <2>1, <2>2 DEF ObserverTypes, ThreadState
<1>7. QED
  BY <1>2, <1>3, <1>4, <1>5, <1>6 DEF TypeOK

LEMMA StutterTypes == TypeOK /\ UNCHANGED vars => TypeOK'
  BY TypesFrame DEF TypeOK, vars

(* TypeOK is inductive.                                                    *)
LEMMA TypeStep == TypeOK /\ [Next]_vars => TypeOK'
  BY RequestTypes, CommandStepTypes, MediaStepTypes, ProducerStepTypes, ConsumerStepTypes,
     ObserverStepTypes, SpuriousWakeupTypes, StutterTypes DEF Next

(* Every variable keeps its type and every buffer its capacity, for any    *)
(* number of medias and any sizes: BufferItem and BufferNItem never write  *)
(* past the end, the observer's queue never holds more than it can.        *)
THEOREM TypeCorrect == Spec => []TypeOK
<1>1. Init => TypeOK
  BY InitTypes
<1>2. TypeOK /\ [Next]_vars => TypeOK'
  BY TypeStep
<1>3. QED
  BY <1>1, <1>2, PTL DEF Spec

-----------------------------------------------------------------------------

USE DEF PLAYBACK_CONTROL_NONE, PLAYBACK_CONTROL_END_INPUT, PLAYBACK_CONTROL_END_MULTIPLEXER,
        PLAYBACK_CONTROL_END_OUTPUT, PLAYBACK_CONTROL_PAUSE

(* Lifecycle looks at the program counters and the states alone.           *)
LEMMA LifecycleFrame ==
  ASSUME UNCHANGED <<playback_state, playback_control, cmd, todo, media_state, mpc, live,
                     producer_state, ppc, consumer_state, cpc, observer_state, opc, queue_live>>,
         Lifecycle
  PROVE  Lifecycle'
  BY DEF Lifecycle, CommandPhase, ObserverPhase, ConsumerPhase, ProducerPhase, MediaPhase,
         Creating, Stopping, Session, EndingInput, Ending

(* The order of the threads, one lemma per thread that takes a step.       *)
LEMMA RequestLifecycle ==
  ASSUME TypeOK, Lifecycle, Request PROVE Lifecycle'
<1>1. CASE \/ \E c \in Callers : Call(c)
           \/ Take \/ (\E v \in {0, 1} : SetFinishAsi(v)) \/ Ignored
  BY <1>1, LifecycleFrame DEF Call, Take, SetFinishAsi, Ignored, mediaVars, producerVars,
     consumerVars, observerVars
<1>2. CASE init \/ quit
  BY <1>2 DEF init, quit, Dispatch, mediaVars, consumerVars, observerVars,
     Lifecycle, CommandPhase, ObserverPhase, ConsumerPhase, ProducerPhase, MediaPhase,
     Creating, Stopping, Session, EndingInput, Ending
<1>3. CASE play
  BY <1>3, PlaybackAssumption DEF play, Dispatch, mediaVars, consumerVars, observerVars,
     Lifecycle, CommandPhase, ObserverPhase, ConsumerPhase, ProducerPhase, MediaPhase,
     Creating, Stopping, Session, EndingInput, Ending
<1>4. CASE pause \/ resume
  BY <1>4 DEF pause, resume, Dispatch, mediaVars, producerVars, consumerVars, observerVars,
     Lifecycle, CommandPhase, ObserverPhase, ConsumerPhase, ProducerPhase, MediaPhase,
     Creating, Stopping, Session, EndingInput, Ending
<1>5. CASE stop
  BY <1>5 DEF stop, Dispatch, mediaVars, producerVars, consumerVars, observerVars,
     Lifecycle, CommandPhase, ObserverPhase, ConsumerPhase, ProducerPhase, MediaPhase,
     Creating, Stopping, Session, EndingInput, Ending
<1>6. QED
  BY <1>1, <1>2, <1>3, <1>4, <1>5 DEF Request

LEMMA CommandStepLifecycle ==
  ASSUME TypeOK, Lifecycle, CommandStep PROVE Lifecycle'
<1> USE DEF CommandPhase, ObserverPhase, ConsumerPhase, ProducerPhase, MediaPhase,
            Creating, Stopping, Session, EndingInput, Ending,
            mediaVars, producerVars, consumerVars, observerVars
<1>0. /\ CommandPhase /\ ObserverPhase /\ ConsumerPhase /\ ProducerPhase
      /\ \A m \in Media : MediaPhase(m)
      /\ media_state \in [Media -> ThreadState] /\ DOMAIN mpc = Media /\ todo \in SUBSET Media
      /\ playback_state \in {"NONE", "INIT", "PLAY", "PAUSE"}
      /\ cmd \in {"idle", "create_media", "create_producer", "create_consumer", "stop_observer",
                  "stop_output", "stop_multiplexer", "stop_signal", "stop_input"}
  BY DEF Lifecycle, TypeOK, CommandTypes, MediaTypes
<1>1. CASE \E m \in Media : CreateMedia(m)
  <2>1. PICK m \in Media : CreateMedia(m)
    BY <1>1
  <2>2. CommandPhase' /\ ObserverPhase' /\ ConsumerPhase' /\ ProducerPhase'
    BY <1>0, <2>1 DEF CreateMedia
  <2>3. ASSUME NEW n \in Media PROVE MediaPhase(n)'
    BY <1>0, <2>1 DEF CreateMedia
  <2>4. QED
    BY <2>2, <2>3 DEF Lifecycle
<1>2. CASE CreateProducer \/ CreateConsumer
  <2>2. CommandPhase' /\ ObserverPhase' /\ ConsumerPhase' /\ ProducerPhase'
    BY <1>0, <1>2 DEF CreateProducer, CreateConsumer
  <2>3. ASSUME NEW n \in Media PROVE MediaPhase(n)'
    BY <1>0, <1>2 DEF CreateProducer, CreateConsumer
  <2>4. QED
    BY <2>2, <2>3 DEF Lifecycle
<1>3. CASE StopObserver \/ StopOutput \/ StopMultiplexer
  <2>2. CommandPhase' /\ ObserverPhase' /\ ConsumerPhase' /\ ProducerPhase'
    BY <1>0, <1>3 DEF StopObserver, StopOutput, StopMultiplexer, ConsumerAfterOut, ProducerAfterIn
  <2>3. ASSUME NEW n \in Media PROVE MediaPhase(n)'
    BY <1>0, <1>3 DEF StopObserver, StopOutput, StopMultiplexer
  <2>4. QED
    BY <2>2, <2>3 DEF Lifecycle
<1>4. CASE \E m \in Media : StopSignalInput(m)
  <2>1. PICK m \in Media : StopSignalInput(m)
    BY <1>4
  <2>2. CommandPhase' /\ ObserverPhase' /\ ConsumerPhase' /\ ProducerPhase'
    BY <1>0, <2>1 DEF StopSignalInput
  <2>3. ASSUME NEW n \in Media PROVE MediaPhase(n)'
    BY <1>0, <2>1 DEF StopSignalInput, MediaAfterIn
  <2>4. QED
    BY <2>2, <2>3 DEF Lifecycle
<1>5. CASE StopInput
  <2>2. CommandPhase' /\ ObserverPhase' /\ ConsumerPhase' /\ ProducerPhase'
    BY <1>0, <1>5 DEF StopInput
  <2>3. ASSUME NEW n \in Media PROVE MediaPhase(n)'
    BY <1>0, <1>5 DEF StopInput, InputsFinished
  <2>4. QED
    BY <2>2, <2>3 DEF Lifecycle
<1>6. QED
  BY <1>1, <1>2, <1>3, <1>4, <1>5 DEF CommandStep

LEMMA MediaStepLifecycle ==
  ASSUME TypeOK, Lifecycle, NEW m \in Media, MediaStep(m) PROVE Lifecycle'
<1> USE DEF CommandPhase, ObserverPhase, ConsumerPhase, ProducerPhase, MediaPhase,
            Creating, Stopping, Session, EndingInput, Ending,
            cmdVars, producerVars, consumerVars, observerVars
<1>0. /\ CommandPhase /\ ObserverPhase /\ ConsumerPhase /\ ProducerPhase
      /\ \A n \in Media : MediaPhase(n)
      /\ DOMAIN media_state = Media /\ DOMAIN mpc = Media /\ DOMAIN live = Media
  BY DEF Lifecycle, TypeOK, MediaTypes
<1>1. CASE MediaOpen(m) \/ MediaReady(m) \/ MediaWaiting(m) \/ MediaPaused(m)
  <2>1. CommandPhase' /\ ObserverPhase' /\ ConsumerPhase' /\ ProducerPhase'
    BY <1>0, <1>1 DEF MediaOpen, MediaReady, MediaWaiting, MediaPaused, Goto
  <2>2. ASSUME NEW n \in Media PROVE MediaPhase(n)'
    BY <1>0, <1>1 DEF MediaOpen, MediaReady, MediaWaiting, MediaPaused, Goto
  <2>3. QED
    BY <2>1, <2>2 DEF Lifecycle
<1>2. CASE MediaTest(m) \/ MediaFull(m) \/ MediaRead(m) \/ MediaStore(m) \/ MediaSignal(m)
  <2>1. /\ UNCHANGED <<cmdVars, media_state, live, producer_state, observer_state, opc, queue_live>>
        /\ UNCHANGED consumerVars
        /\ \/ ppc' = ppc
           \/ ppc = "wait_out" /\ ppc' = "recheck"
        /\ mpc[m] \notin {"off", "open", "ready", "close", "finish"}
    BY <1>2 DEF MediaTest, MediaFull, MediaRead, MediaStore, MediaSignal, Goto, ProducerAfterOut
  <2>2. \E to \in {"loop", "full", "wait", "paused", "store", "signal"} :
          mpc' = [mpc EXCEPT ![m] = to]
    BY <1>2 DEF MediaTest, MediaFull, MediaRead, MediaStore, MediaSignal, Goto
  <2>3. CommandPhase' /\ ObserverPhase' /\ ConsumerPhase' /\ ProducerPhase'
    BY <1>0, <2>1, <2>2
  <2>4. ASSUME NEW n \in Media PROVE MediaPhase(n)'
    BY <1>0, <2>1, <2>2
  <2>5. QED
    BY <2>3, <2>4 DEF Lifecycle
<1>3. CASE MediaClose(m) \/ MediaFinish(m)
  <2>1. CommandPhase' /\ ObserverPhase' /\ ConsumerPhase' /\ ProducerPhase'
    BY <1>0, <1>3 DEF MediaClose, MediaFinish, Goto
  <2>2. ASSUME NEW n \in Media PROVE MediaPhase(n)'
    BY <1>0, <1>3 DEF MediaClose, MediaFinish, Goto
  <2>3. QED
    BY <2>1, <2>2 DEF Lifecycle
<1>4. QED
  BY <1>1, <1>2, <1>3 DEF MediaStep

LEMMA ProducerStepLifecycle ==
  ASSUME TypeOK, Lifecycle, ProducerStep PROVE Lifecycle'
<1> USE DEF CommandPhase, ObserverPhase, ConsumerPhase, ProducerPhase, MediaPhase,
            Creating, Stopping, Session, EndingInput, Ending,
            cmdVars, mediaVars, consumerVars, observerVars
<1>0. /\ CommandPhase /\ ObserverPhase /\ ConsumerPhase /\ ProducerPhase
      /\ \A n \in Media : MediaPhase(n)
      /\ DOMAIN mpc = Media /\ producer_state \in ThreadState
  BY DEF Lifecycle, TypeOK, MediaTypes, ProducerTypes
<1>1. CASE ProducerScan
  <2>1. CommandPhase' /\ ObserverPhase' /\ ConsumerPhase' /\ ProducerPhase'
    BY <1>0, <1>1 DEF ProducerScan, InputsReading
  <2>2. ASSUME NEW n \in Media PROVE MediaPhase(n)'
    BY <1>0, <1>1 DEF ProducerScan
  <2>3. QED
    BY <2>1, <2>2 DEF Lifecycle
<1>2. CASE \/ ProducerBuffering \/ ProducerOpen \/ ProducerWaiting \/ ProducerTest
           \/ ProducerCheck \/ ProducerRecheck \/ ProducerGather \/ ProducerStore
  <2>1. /\ UNCHANGED <<cmdVars, mediaVars, producer_state, consumerVars, observerVars>>
        /\ ppc # "off" /\ ppc' # "off"
        /\ ppc \in {"buffering", "scan", "finish"} => ppc' \in {"buffering", "scan", "finish"}
    BY <1>2 DEF ProducerBuffering, ProducerOpen, ProducerWaiting, ProducerTest, ProducerCheck,
       ProducerRecheck, ProducerGather, ProducerStore, ProducerMove
  <2>2. CommandPhase' /\ ObserverPhase' /\ ConsumerPhase' /\ ProducerPhase'
    BY <1>0, <2>1
  <2>3. ASSUME NEW n \in Media PROVE MediaPhase(n)'
    BY <1>0, <2>1
  <2>4. QED
    BY <2>2, <2>3 DEF Lifecycle
<1>3. CASE ProducerPacket
  <2>1. CommandPhase' /\ ObserverPhase' /\ ConsumerPhase' /\ ProducerPhase'
    BY <1>0, <1>3 DEF ProducerPacket
  <2>2. ASSUME NEW n \in Media PROVE MediaPhase(n)'
    BY <1>0, <1>3 DEF ProducerPacket, MediaAfterIn
  <2>3. QED
    BY <2>1, <2>2 DEF Lifecycle
<1>4. CASE ProducerSignal \/ ProducerFinish
  <2>1. CommandPhase' /\ ObserverPhase' /\ ConsumerPhase' /\ ProducerPhase'
    BY <1>0, <1>4 DEF ProducerSignal, ProducerFinish, ConsumerAfterOut
  <2>2. ASSUME NEW n \in Media PROVE MediaPhase(n)'
    BY <1>0, <1>4 DEF ProducerSignal, ProducerFinish
  <2>3. QED
    BY <2>1, <2>2 DEF Lifecycle
<1>5. QED
  BY <1>1, <1>2, <1>3, <1>4 DEF ProducerStep

LEMMA ConsumerStepLifecycle ==
  ASSUME TypeOK, Lifecycle, ConsumerStep \/ BoardStep PROVE Lifecycle'
<1> USE DEF CommandPhase, ObserverPhase, ConsumerPhase, ProducerPhase, MediaPhase,
            Creating, Stopping, Session, EndingInput, Ending,
            cmdVars, mediaVars, producerVars, observerVars
<1>0. /\ CommandPhase /\ ObserverPhase /\ ConsumerPhase /\ ProducerPhase
      /\ \A n \in Media : MediaPhase(n)
  BY DEF Lifecycle
<1>1. CASE ConsumerAwait \/ ConsumerFinish
  BY <1>0, <1>1 DEF ConsumerAwait, ConsumerFinish, Lifecycle
<1>2. CASE \/ ConsumerMultiplexing \/ ConsumerLoop \/ ConsumerRead \/ ConsumerBlock
           \/ ConsumerRoom \/ ConsumerDma \/ ConsumerWrite \/ BoardStep
  <2>1. /\ UNCHANGED <<cmdVars, mediaVars, producerVars, consumer_state, observerVars>>
        /\ cpc # "off" /\ cpc' # "off"
    BY <1>2 DEF ConsumerMultiplexing, ConsumerLoop, ConsumerRead, ConsumerBlock, ConsumerRoom,
       ConsumerDma, ConsumerWrite, BoardStep, BoardRoom, BoardDma, ConsumerMove
  <2>2. QED
    BY <1>0, <2>1 DEF Lifecycle
<1>3. CASE ConsumerLock
  BY <1>0, <1>3 DEF ConsumerLock, ProducerAfterIn, Lifecycle
<1>4. QED
  BY <1>1, <1>2, <1>3 DEF ConsumerStep

LEMMA OtherStepLifecycle ==
  ASSUME TypeOK, Lifecycle, ObserverStep \/ SpuriousWakeup PROVE Lifecycle'
<1> USE DEF CommandPhase, ObserverPhase, ConsumerPhase, ProducerPhase, MediaPhase,
            Creating, Stopping, Session, EndingInput, Ending,
            cmdVars, mediaVars, producerVars, consumerVars, observerVars
<1>0. /\ CommandPhase /\ ObserverPhase /\ ConsumerPhase /\ ProducerPhase
      /\ \A n \in Media : MediaPhase(n)
      /\ DOMAIN mpc = Media
  BY DEF Lifecycle, TypeOK, MediaTypes
<1>1. CASE ObserverStep
  BY <1>0, <1>1 DEF ObserverStep, ObserverReceive, ObserverFinish, Lifecycle
<1>2. CASE SpuriousWakeup
  <2>1. CommandPhase' /\ ObserverPhase' /\ ConsumerPhase' /\ ProducerPhase'
    BY <1>0, <1>2 DEF SpuriousWakeup, ProducerMove, ConsumerMove
  <2>2. ASSUME NEW n \in Media PROVE MediaPhase(n)'
    BY <1>0, <1>2 DEF SpuriousWakeup, ProducerMove, ConsumerMove, Goto
  <2>3. QED
    BY <2>1, <2>2 DEF Lifecycle
<1>3. QED
  BY <1>1, <1>2

(* Lifecycle is inductive, given the types.                                *)
LEMMA LifecycleStep == TypeOK /\ Lifecycle /\ [Next]_vars => Lifecycle'
<1>1. ASSUME Lifecycle, UNCHANGED vars PROVE Lifecycle'
  BY <1>1, LifecycleFrame DEF vars, cmdVars, mediaVars, producerVars, consumerVars, observerVars
<1>2. QED
  BY <1>1, RequestLifecycle, CommandStepLifecycle, MediaStepLifecycle, ProducerStepLifecycle,
     ConsumerStepLifecycle, OtherStepLifecycle DEF Next

(* Where the command thread is in play() and stop() says which threads run *)
(* and in what state each of them may be, for any number of medias and any *)
(* interleaving of them.                                                   *)
THEOREM LifecycleCorrect == Spec => []Lifecycle
<1>1. Init => Lifecycle
  BY DEF Init, Lifecycle, CommandPhase, ObserverPhase, ConsumerPhase, ProducerPhase, MediaPhase,
     Creating, Stopping, Session, EndingInput, Ending
<1>2. TypeOK /\ Lifecycle /\ [Next]_vars => Lifecycle'
  BY LifecycleStep
<1>3. QED
  BY <1>1, <1>2, TypeCorrect, PTL DEF Spec

(* No media is told to end, or closes its buffer, while a thread           *)
(* downstream of it still runs.                                            *)
THEOREM OrderedShutdownCorrect == Spec => []OrderedShutdown
<1>1. TypeOK /\ Lifecycle => OrderedShutdown
  BY DEF TypeOK, CommandTypes, Lifecycle, CommandPhase, ObserverPhase, ConsumerPhase, ProducerPhase,
     MediaPhase, OrderedShutdown, Creating, Stopping, Session, EndingInput, Ending
<1>2. QED
  BY <1>1, TypeCorrect, LifecycleCorrect, PTL

(* The producer never asks a media for a packet outside its open() and     *)
(* close(), and nobody uses the observer's queue once it is destroyed.     *)
THEOREM TouchesLiveCorrect == Spec => []TouchesLive
<1>1. TypeOK /\ Lifecycle /\ OrderedShutdown => TouchesLive
  <2> SUFFICES ASSUME TypeOK, Lifecycle, OrderedShutdown PROVE TouchesLive
    OBVIOUS
  <2> USE DEF Creating, Stopping, Session, EndingInput, Ending
  <2>1. CommandTypes /\ CommandPhase /\ ObserverPhase /\ ProducerPhase /\ pm \in Media
        /\ \A m \in Media : MediaPhase(m)
    BY DEF TypeOK, ProducerTypes, Lifecycle
  <2>2. ASSUME ppc \in {"recheck", "packet", "wait_out"} PROVE live[pm]
    BY <2>1, <2>2 DEF CommandTypes, CommandPhase, ProducerPhase, MediaPhase, OrderedShutdown
  <2>3. QED
    BY <2>1, <2>2 DEF ObserverPhase, MediaPhase, TouchesLive
<1>2. QED
  BY <1>1, TypeCorrect, LifecycleCorrect, OrderedShutdownCorrect, PTL

(* Between requests, a session that is not playing has no thread left.     *)
THEOREM QuiescentCorrect == Spec => []Quiescent
<1>1. TypeOK /\ Lifecycle => Quiescent
  BY DEF TypeOK, CommandTypes, Lifecycle, CommandPhase, ObserverPhase, ConsumerPhase, ProducerPhase,
     MediaPhase, Quiescent, Creating, Stopping, Session, EndingInput, Ending
<1>2. QED
  BY <1>1, TypeCorrect, LifecycleCorrect, PTL

-----------------------------------------------------------------------------

(* The producer and the thread it would have to wake never sleep both.     *)
LEMMA MediaWaitStep ==
  ASSUME TypeOK, ppc = "wait_out" => mpc[pm] # "wait", [Next]_vars
  PROVE  (ppc = "wait_out" => mpc[pm] # "wait")'
<1> USE DEF cmdVars, mediaVars, producerVars, consumerVars, observerVars
<1>0. DOMAIN mpc = Media /\ pm \in Media
  BY DEF TypeOK, MediaTypes, ProducerTypes
<1>1. CASE Request \/ BoardStep \/ ObserverStep \/ UNCHANGED vars
  <2>1. UNCHANGED <<ppc, pm, mpc>>
    BY <1>1 DEF Request, Call, Take, SetFinishAsi, init, quit, play, pause, resume, stop, Ignored,
       BoardStep, BoardRoom, BoardDma, ConsumerMove, ObserverStep, ObserverReceive, ObserverFinish, vars
  <2>2. QED
    BY <2>1
<1>2. CASE CommandStep
  BY <1>0, <1>2 DEF CommandStep, CreateMedia, CreateProducer, CreateConsumer, StopObserver, StopOutput,
     StopMultiplexer, StopSignalInput, StopInput, MediaAfterIn, ProducerAfterIn
<1>3. ASSUME NEW m \in Media, MediaStep(m) PROVE (ppc = "wait_out" => mpc[pm] # "wait")'
  BY <1>0, <1>3 DEF MediaStep, MediaOpen, MediaReady, MediaWaiting, MediaTest, MediaFull, MediaPaused,
     MediaRead, MediaStore, MediaSignal, MediaClose, MediaFinish, Goto, ProducerAfterOut
<1>4. CASE ProducerStep
  BY <1>0, <1>4 DEF ProducerStep, ProducerBuffering, ProducerScan, ProducerOpen, ProducerWaiting,
     ProducerTest, ProducerCheck, ProducerGather, ProducerRecheck, ProducerPacket, ProducerStore,
     ProducerSignal, ProducerFinish, ProducerMove, MediaAfterIn
<1>5. CASE ConsumerStep
  BY <1>5 DEF ConsumerStep, ConsumerMultiplexing, ConsumerAwait, ConsumerLoop, ConsumerRead,
     ConsumerLock, ConsumerBlock, ConsumerRoom, ConsumerWrite, ConsumerDma, ConsumerFinish,
     ConsumerMove, ProducerAfterIn
<1>6. CASE SpuriousWakeup
  BY <1>0, <1>6 DEF SpuriousWakeup, Goto, ProducerMove, ConsumerMove
<1>7. QED
  BY <1>1, <1>2, <1>3, <1>4, <1>5, <1>6 DEF Next

(* What a media can do to the other threads: wake the producer.            *)
LEMMA MediaStepFrame ==
  ASSUME NEW m \in Media, MediaStep(m)
  PROVE  /\ UNCHANGED <<playback_control, mux, cpc>>
         /\ ppc' = ppc \/ (ppc = "wait_out" /\ ppc' = "recheck")
<1> USE DEF cmdVars, mediaVars, producerVars, consumerVars, observerVars, ProducerAfterOut
<1>1. CASE MediaStore(m)
  <2>1. UNCHANGED cmdVars /\ UNCHANGED mux /\ UNCHANGED consumerVars
    BY <1>1 DEF MediaStore
  <2>2. ppc' = ppc \/ ppc' = ProducerAfterOut(m)
    BY <1>1 DEF MediaStore
  <2>3. QED
    BY <2>1, <2>2
<1>2. CASE MediaFull(m) \/ MediaSignal(m)
  BY <1>2 DEF MediaFull, MediaSignal
<1>3. CASE \/ MediaOpen(m) \/ MediaReady(m) \/ MediaWaiting(m) \/ MediaTest(m)
           \/ MediaPaused(m) \/ MediaRead(m) \/ MediaClose(m) \/ MediaFinish(m)
  BY <1>3 DEF MediaOpen, MediaReady, MediaWaiting, MediaTest, MediaPaused, MediaRead, MediaClose,
     MediaFinish
<1>4. QED
  BY <1>1, <1>2, <1>3 DEF MediaStep

(* What main_loop saw of the multiplexed buffer stays true of it: only the *)
(* producer fills it.                                                      *)
LEMMA RoomForItemStep ==
  ASSUME TypeOK, Lifecycle, RoomForItem, [Next]_vars PROVE RoomForItem'
<1> USE DEF cmdVars, mediaVars, producerVars, consumerVars, observerVars, RoomForItem, MuxFull, Ending
<1>0. /\ MuxCap \in Nat /\ BlockUnits \in Nat /\ mux \in Seq(Packet) /\ Len(mux) \in Nat
      /\ CommandPhase /\ ProducerPhase /\ CommandTypes
  BY PlaybackAssumption DEF TypeOK, ProducerTypes, Lifecycle
<1>1. CASE init \/ quit \/ play
  <2>1. ppc = "off" /\ ppc' = "off"
    BY <1>0, <1>1 DEF init, quit, play, Dispatch, ProducerPhase, Session, Creating
  <2>2. QED
    BY <2>1
<1>2. CASE pause \/ resume
  <2>1. ~Ending
    BY <1>0, <1>2 DEF pause, resume, Dispatch, CommandPhase, Session
  <2>2. QED
    BY <2>1, <1>2 DEF pause, resume
<1>3. CASE \/ \E c \in Callers : Call(c)
           \/ Take \/ (\E v \in {0, 1} : SetFinishAsi(v)) \/ stop \/ Ignored
           \/ BoardStep \/ ObserverStep \/ UNCHANGED vars
  <2>1. UNCHANGED <<ppc, mux, playback_control>>
    BY <1>3 DEF Call, Take, SetFinishAsi, stop, Ignored, BoardStep, BoardRoom, BoardDma, ConsumerMove,
       ObserverStep, ObserverReceive, ObserverFinish, vars
  <2>2. QED
    BY <2>1
<1>4. CASE CommandStep
  <2>1. CASE StopMultiplexer
    BY <1>0, <2>1 DEF StopMultiplexer, ProducerAfterIn, ProducerPhase
  <2>2. CASE CreateProducer
    BY <2>2 DEF CreateProducer
  <2>3. CASE \/ CreateConsumer \/ StopObserver \/ StopOutput \/ StopInput
             \/ (\E m \in Media : CreateMedia(m)) \/ (\E m \in Media : StopSignalInput(m))
    <3>1. UNCHANGED <<ppc, mux>> /\ (Ending => Ending')
      BY <1>0, <2>3 DEF CreateConsumer, StopObserver, StopOutput, StopInput, CreateMedia, StopSignalInput
    <3>2. QED
      BY <3>1
  <2>4. QED
    BY <1>4, <2>1, <2>2, <2>3 DEF CommandStep
<1>5. ASSUME NEW m \in Media, MediaStep(m) PROVE RoomForItem'
  <2>1. UNCHANGED <<mux, playback_control>> /\ (ppc' = ppc \/ (ppc = "wait_out" /\ ppc' = "recheck"))
    BY <1>5, MediaStepFrame
  <2>2. QED
    BY <2>1
<1>6. CASE ProducerStep
  BY <1>0, <1>6 DEF ProducerStep, ProducerBuffering, ProducerScan, ProducerOpen, ProducerWaiting,
     ProducerTest, ProducerCheck, ProducerGather, ProducerRecheck, ProducerPacket, ProducerStore,
     ProducerSignal, ProducerFinish, ProducerMove
<1>7. CASE ConsumerLock
  <2>1. CASE Len(mux) < BlockUnits
    BY <1>7, <2>1 DEF ConsumerLock, ProducerAfterIn
  <2>2. CASE ~(Len(mux) < BlockUnits)
    <3>1. mux' = SubSeq(mux, BlockUnits + 1, Len(mux)) /\ UNCHANGED <<ppc, playback_control>>
      BY <1>7, <2>2 DEF ConsumerLock
    <3>2. Len(mux') = Len(mux) - BlockUnits
      BY <1>0, <2>2, <3>1, SequenceFacts
    <3>3. QED
      BY <1>0, <3>1, <3>2
  <2>3. QED
    BY <2>1, <2>2
<1>8. CASE \/ ConsumerMultiplexing \/ ConsumerAwait \/ ConsumerLoop \/ ConsumerRead \/ ConsumerBlock
           \/ ConsumerRoom \/ ConsumerWrite \/ ConsumerDma \/ ConsumerFinish
  <2>1. UNCHANGED <<ppc, mux, playback_control>>
    BY <1>8 DEF ConsumerMultiplexing, ConsumerAwait, ConsumerLoop, ConsumerRead, ConsumerBlock,
       ConsumerRoom, ConsumerWrite, ConsumerDma, ConsumerFinish, ConsumerMove
  <2>2. QED
    BY <2>1
<1>9. CASE SpuriousWakeup
  BY <1>9 DEF SpuriousWakeup, ProducerMove, ConsumerMove
<1>10. QED
  BY <1>1, <1>2, <1>3, <1>4, <1>5, <1>6, <1>7, <1>8, <1>9 DEF Next, Request, ConsumerStep

(* Only the producer makes a block complete, and it signals next.          *)
LEMMA NoLostMuxSignalStep ==
  ASSUME TypeOK, Lifecycle, NoLostMuxSignal, [Next]_vars PROVE NoLostMuxSignal'
<1> USE DEF cmdVars, mediaVars, producerVars, consumerVars, observerVars, NoLostMuxSignal
<1>0. /\ MuxCap \in Nat /\ BlockUnits \in Nat \ {0} /\ mux \in Seq(Packet) /\ Len(mux) \in Nat
      /\ ProducerPhase /\ ConsumerPhase
  BY PlaybackAssumption DEF TypeOK, ProducerTypes, Lifecycle
<1>1. CASE init \/ quit \/ play
  <2>1. Len(mux') = 0 /\ UNCHANGED cpc
    BY <1>1 DEF init, quit, play
  <2>2. QED
    BY <1>0, <2>1
<1>2. CASE \/ (\E c \in Callers : Call(c)) \/ Take \/ (\E v \in {0, 1} : SetFinishAsi(v))
           \/ pause \/ resume \/ stop \/ Ignored \/ ObserverStep \/ UNCHANGED vars
  <2>1. UNCHANGED <<ppc, mux, cpc>>
    BY <1>2 DEF Call, Take, SetFinishAsi, pause, resume, stop, Ignored, ObserverStep, ObserverReceive,
       ObserverFinish, vars
  <2>2. QED
    BY <2>1
<1>3. CASE CommandStep
  <2>1. CASE CreateProducer \/ CreateConsumer \/ StopMultiplexer \/ StopOutput
    BY <1>0, <2>1 DEF CreateProducer, CreateConsumer, StopMultiplexer, StopOutput, ProducerAfterIn,
       ConsumerAfterOut, ConsumerPhase, Creating
  <2>2. CASE \/ StopObserver \/ StopInput
             \/ (\E m \in Media : CreateMedia(m)) \/ (\E m \in Media : StopSignalInput(m))
    BY <2>2 DEF StopObserver, StopInput, CreateMedia, StopSignalInput
  <2>3. QED
    BY <1>3, <2>1, <2>2 DEF CommandStep
<1>4. ASSUME NEW m \in Media, MediaStep(m) PROVE NoLostMuxSignal'
  <2>1. UNCHANGED <<mux, cpc>> /\ (ppc' = ppc \/ (ppc = "wait_out" /\ ppc' = "recheck"))
    BY <1>4, MediaStepFrame
  <2>2. QED
    BY <2>1
<1>5. CASE ProducerStep
  BY <1>5 DEF ProducerStep, ProducerBuffering, ProducerScan, ProducerOpen, ProducerWaiting,
     ProducerTest, ProducerCheck, ProducerGather, ProducerRecheck, ProducerPacket, ProducerStore,
     ProducerSignal, ProducerFinish, ProducerMove, BlockReady, ConsumerAfterOut
<1>6. CASE ConsumerLock
  <2>1. CASE Len(mux) < BlockUnits
    <3>1. mux' = mux
      BY <1>6, <2>1 DEF ConsumerLock
    <3>2. QED
      BY <1>0, <2>1, <3>1
  <2>2. CASE ~(Len(mux) < BlockUnits)
    <3>1. cpc' = "block"
      BY <1>6, <2>2 DEF ConsumerLock
    <3>2. QED
      BY <3>1
  <2>3. QED
    BY <2>1, <2>2
<1>7. CASE \/ ConsumerMultiplexing \/ ConsumerAwait \/ ConsumerLoop \/ ConsumerRead \/ ConsumerBlock
           \/ ConsumerRoom \/ ConsumerWrite \/ ConsumerDma \/ ConsumerFinish \/ BoardStep
  <2>1. UNCHANGED <<ppc, mux>> /\ cpc' # "wait_mux"
    BY <1>7 DEF ConsumerMultiplexing, ConsumerAwait, ConsumerLoop, ConsumerRead, ConsumerBlock,
       ConsumerRoom, ConsumerWrite, ConsumerDma, ConsumerFinish, ConsumerMove, BoardStep, BoardRoom,
       BoardDma
  <2>2. QED
    BY <2>1
<1>8. CASE SpuriousWakeup
  BY <1>8 DEF SpuriousWakeup, ProducerMove, ConsumerMove
<1>9. QED
  BY <1>1, <1>2, <1>3, <1>4, <1>5, <1>6, <1>7, <1>8 DEF Next, Request, ConsumerStep

(* The producer sleeps only on a full buffer, the output on a short one.   *)
LEMMA MuxWaitStep ==
  ASSUME TypeOK, Lifecycle, NoLostMuxSignal, ppc = "wait_mux" => cpc # "wait_mux", [Next]_vars
  PROVE  (ppc = "wait_mux" => cpc # "wait_mux")'
<1> USE DEF cmdVars, mediaVars, producerVars, consumerVars, observerVars
<1>0. /\ MuxCap \in Nat /\ BlockUnits \in Nat /\ MuxCap >= 2 * BlockUnits /\ Len(mux) \in Nat
      /\ ConsumerPhase
  BY PlaybackAssumption DEF TypeOK, ProducerTypes, Lifecycle
<1>1. CASE Request \/ ObserverStep \/ UNCHANGED vars
  <2>1. UNCHANGED <<ppc, cpc>>
    BY <1>1 DEF Request, Call, Take, SetFinishAsi, init, quit, play, pause, resume, stop, Ignored,
       ObserverStep, ObserverReceive, ObserverFinish, vars
  <2>2. QED
    BY <2>1
<1>2. CASE CommandStep
  BY <1>2 DEF CommandStep, CreateMedia, CreateProducer, CreateConsumer, StopObserver, StopOutput,
     StopMultiplexer, StopSignalInput, StopInput, ProducerAfterIn, ConsumerAfterOut
<1>3. ASSUME NEW m \in Media, MediaStep(m) PROVE (ppc = "wait_mux" => cpc # "wait_mux")'
  BY <1>3, MediaStepFrame
<1>4. CASE ProducerTest
  <2>1. CASE MuxFull /\ ~Ending
    <3>1. Len(mux) >= BlockUnits /\ ppc = "test" /\ UNCHANGED cpc
      BY <1>0, <1>4, <2>1 DEF MuxFull, ProducerTest, ProducerMove
    <3>2. QED
      BY <3>1 DEF NoLostMuxSignal
  <2>2. CASE ~(MuxFull /\ ~Ending)
    BY <1>4, <2>2 DEF ProducerTest, ProducerMove
  <2>3. QED
    BY <2>1, <2>2
<1>5. CASE \/ ProducerBuffering \/ ProducerScan \/ ProducerOpen \/ ProducerWaiting \/ ProducerCheck
           \/ ProducerGather \/ ProducerRecheck \/ ProducerPacket \/ ProducerStore \/ ProducerSignal
           \/ ProducerFinish
  <2>1. ppc' # "wait_mux"
    BY <1>5 DEF ProducerBuffering, ProducerScan, ProducerOpen, ProducerWaiting, ProducerCheck,
       ProducerGather, ProducerRecheck, ProducerPacket, ProducerStore, ProducerSignal, ProducerFinish,
       ProducerMove
  <2>2. QED
    BY <2>1
<1>6. CASE ConsumerStep \/ BoardStep
  BY <1>6 DEF ConsumerStep, ConsumerMultiplexing, ConsumerAwait, ConsumerLoop, ConsumerRead,
     ConsumerLock, ConsumerBlock, ConsumerRoom, ConsumerWrite, ConsumerDma, ConsumerFinish,
     ConsumerMove, BoardStep, BoardRoom, BoardDma, ProducerAfterIn
<1>7. CASE SpuriousWakeup
  BY <1>7 DEF SpuriousWakeup, ProducerMove, ConsumerMove
<1>8. QED
  BY <1>1, <1>2, <1>3, <1>4, <1>5, <1>6, <1>7 DEF Next, ProducerStep

(* A block that is there is not waited for: the producer that completed it *)
(* has not sent its signal yet.                                            *)
THEOREM NoLostMuxSignalCorrect == Spec => []NoLostMuxSignal
<1>1. Init => NoLostMuxSignal
  BY DEF Init, NoLostMuxSignal
<1>2. TypeOK /\ Lifecycle /\ NoLostMuxSignal /\ [Next]_vars => NoLostMuxSignal'
  BY NoLostMuxSignalStep
<1>3. QED
  BY <1>1, <1>2, TypeCorrect, LifecycleCorrect, PTL DEF Spec

(* The producer and the thread it would have to wake never sleep both.     *)
THEOREM NoCircularWaitCorrect == Spec => []NoCircularWait
<1>1. Init => NoCircularWait
  BY DEF Init, NoCircularWait
<1>2. TypeOK /\ Lifecycle /\ NoLostMuxSignal /\ NoCircularWait /\ [Next]_vars => NoCircularWait'
  BY MediaWaitStep, MuxWaitStep DEF NoCircularWait
<1>3. QED
  BY <1>1, <1>2, TypeCorrect, LifecycleCorrect, NoLostMuxSignalCorrect, PTL DEF Spec

(* An item that main_loop let the producer gather fits into the multiplexed*)
(* buffer when it is stored: BufferNItem drops nothing.                    *)
THEOREM ItemFitsCorrect == Spec => []ItemFits
<1>1. Init => RoomForItem
  BY DEF Init, RoomForItem
<1>2. TypeOK /\ Lifecycle /\ RoomForItem /\ [Next]_vars => RoomForItem'
  BY RoomForItemStep
<1>3. TypeOK /\ RoomForItem => ItemFits
  <2> SUFFICES ASSUME TypeOK, RoomForItem, ppc = "store" PROVE Len(mux) + Len(item) <= MuxCap
    BY DEF ItemFits
  <2>1. /\ MuxCap \in Nat /\ BlockUnits \in Nat /\ ItemUnits \in Nat /\ BlockUnits >= ItemUnits
        /\ Len(mux) \in Nat /\ Len(item) \in Nat /\ Len(item) <= ItemUnits
    BY PlaybackAssumption DEF TypeOK, ProducerTypes
  <2>2. ~MuxFull
    BY DEF RoomForItem
  <2>3. QED
    BY <2>1, <2>2 DEF MuxFull
<1>4. QED
  BY <1>1, <1>2, <1>3, TypeCorrect, LifecycleCorrect, PTL DEF Spec

-----------------------------------------------------------------------------
(* The requests a caller still has to make are the rest of one of Calls.   *)
Rests ==
  {<<>>, <<"QUIT">>, <<"STOP", "QUIT">>, <<"FINISH_ASI_1", "STOP", "QUIT">>,
   <<"TAKE", "FINISH_ASI_1", "STOP", "QUIT">>, <<"PLAY">>, <<"INIT", "PLAY">>,
   <<"FINISH_ASI_0", "INIT", "PLAY">>, <<"TAKE", "FINISH_ASI_0", "INIT", "PLAY">>,
   <<"PAUSE">>, <<"RESUME">>}

LEMMA RestsFacts ==
  ASSUME NEW q \in Rests, q # <<>>
  PROVE  /\ Tail(q) \in Rests
         /\ Head(q) = "PLAY" => Tail(q) = <<>>
         /\ Tail(q) = <<"QUIT">> => Head(q) = "STOP"
         /\ q = <<"QUIT">> => Head(q) = "QUIT"
<1>1. CASE q = <<"QUIT">>
  BY <1>1 DEF Rests
<1>2. CASE q = <<"STOP", "QUIT">>
  <2>1. Tail(q) = <<"QUIT">> /\ Head(q) = "STOP"
    BY <1>2
  <2>2. QED
    BY <2>1 DEF Rests
<1>3. CASE q = <<"FINISH_ASI_1", "STOP", "QUIT">>
  <2>1. Tail(q) = <<"STOP", "QUIT">> /\ Head(q) = "FINISH_ASI_1"
    BY <1>3
  <2>2. QED
    BY <2>1, <1>3 DEF Rests
<1>4. CASE q = <<"TAKE", "FINISH_ASI_1", "STOP", "QUIT">>
  <2>1. Tail(q) = <<"FINISH_ASI_1", "STOP", "QUIT">> /\ Head(q) = "TAKE"
    BY <1>4
  <2>2. QED
    BY <2>1, <1>4 DEF Rests
<1>5. CASE q = <<"INIT", "PLAY">>
  <2>1. Tail(q) = <<"PLAY">> /\ Head(q) = "INIT"
    BY <1>5
  <2>2. QED
    BY <2>1, <1>5 DEF Rests
<1>6. CASE q = <<"FINISH_ASI_0", "INIT", "PLAY">>
  <2>1. Tail(q) = <<"INIT", "PLAY">> /\ Head(q) = "FINISH_ASI_0"
    BY <1>6
  <2>2. QED
    BY <2>1, <1>6 DEF Rests
<1>7. CASE q = <<"TAKE", "FINISH_ASI_0", "INIT", "PLAY">>
  <2>1. Tail(q) = <<"FINISH_ASI_0", "INIT", "PLAY">> /\ Head(q) = "TAKE"
    BY <1>7
  <2>2. QED
    BY <2>1, <1>7 DEF Rests
<1>8. CASE q = <<"PLAY">>
  <2>1. Tail(q) = <<>> /\ Head(q) = "PLAY"
    BY <1>8
  <2>2. QED
    BY <2>1, <1>8 DEF Rests
<1>9. CASE q = <<"PAUSE">>
  <2>1. Tail(q) = <<>> /\ Head(q) = "PAUSE"
    BY <1>9
  <2>2. QED
    BY <2>1, <1>9 DEF Rests
<1>10. CASE q = <<"RESUME">>
  <2>1. Tail(q) = <<>> /\ Head(q) = "RESUME"
    BY <1>10
  <2>2. QED
    BY <2>1, <1>10 DEF Rests
<1>11. QED
  BY <1>1, <1>2, <1>3, <1>4, <1>5, <1>6, <1>7, <1>8, <1>9, <1>10 DEF Rests

LEMMA CallsRests == \A c \in Callers : Calls[c] \in Rests /\ Calls[c] # <<"QUIT">>
<1>1. Calls["start_play"] \in Rests /\ Calls["start_play"] # <<"QUIT">>
  BY DEF Calls, Rests
<1>2. Calls["start_mon"] \in Rests /\ Calls["start_mon"] # <<"QUIT">>
  BY DEF Calls, Rests
<1>3. Calls["pause"] \in Rests /\ Calls["pause"] # <<"QUIT">>
  BY DEF Calls, Rests
<1>4. Calls["resume"] \in Rests /\ Calls["resume"] # <<"QUIT">>
  BY DEF Calls, Rests
<1>5. QED
  BY <1>1, <1>2, <1>3, <1>4, PlaybackAssumption

(* Only the command thread works on the requests and the control word.     *)
LEMMA ThreadsLeaveRequests ==
  ASSUME \/ \E m \in Media : MediaStep(m)
         \/ ProducerStep \/ ConsumerStep \/ BoardStep \/ ObserverStep \/ SpuriousWakeup
         \/ UNCHANGED vars
  PROVE  UNCHANGED cmdVars
BY DEF MediaStep, MediaOpen, MediaReady, MediaWaiting, MediaTest, MediaFull, MediaPaused,
   MediaRead, MediaStore, MediaSignal, MediaClose, MediaFinish, ProducerStep, ProducerBuffering,
   ProducerScan, ProducerOpen, ProducerWaiting, ProducerTest, ProducerCheck, ProducerGather,
   ProducerRecheck, ProducerPacket, ProducerStore, ProducerSignal, ProducerFinish, ProducerMove,
   ConsumerStep, ConsumerMultiplexing, ConsumerAwait, ConsumerLoop, ConsumerRead, ConsumerLock,
   ConsumerBlock, ConsumerRoom, ConsumerWrite, ConsumerDma, ConsumerFinish, ConsumerMove,
   BoardStep, BoardRoom, BoardDma, ObserverStep, ObserverReceive, ObserverFinish, SpuriousWakeup, vars

(* play() ends the requests of its caller, and between STOP and QUIT the   *)
(* session is being stopped or does not play.                              *)
RequestsInv ==
  /\ script \in Rests
  /\ Creating => script = <<>>
  /\ script = <<"QUIT">> => Stopping \/ (cmd = "idle" /\ playback_state # "PLAY")

LEMMA RequestsStep ==
  TypeOK /\ RequestsInv /\ [Next]_vars => RequestsInv'
<1> SUFFICES ASSUME TypeOK, RequestsInv, [Next]_vars PROVE RequestsInv'
  OBVIOUS
<1> USE DEF RequestsInv
<1>1. CASE UNCHANGED <<script, cmd, playback_state>>
  BY <1>1 DEF Creating, Stopping
<1>2. CASE \E c \in Callers : Call(c)
  <2>1. script' \in Rests /\ script' # <<"QUIT">> /\ cmd = "idle" /\ cmd' = cmd
    BY <1>2, CallsRests DEF Call
  <2>2. QED
    BY <2>1 DEF Creating
<1>3. ASSUME NEW step, Dispatch(step)
      PROVE  /\ cmd = "idle" /\ script' \in Rests
             /\ step = "PLAY" => script' = <<>>
             /\ script' = <<"QUIT">> => step = "STOP"
  BY <1>3, RestsFacts DEF Dispatch, Pending
<1>4. CASE Take \/ (\E v \in {0, 1} : SetFinishAsi(v)) \/ init \/ quit \/ pause \/ resume
  <2>1. cmd = "idle" /\ script' \in Rests /\ script' # <<"QUIT">> /\ cmd' = cmd
    BY <1>3, <1>4 DEF Take, SetFinishAsi, init, quit, pause, resume
  <2>2. QED
    BY <2>1 DEF Creating
<1>5. CASE play
  <2>1. script' = <<>>
    BY <1>3, <1>5 DEF play
  <2>2. QED
    BY <2>1 DEF Rests
<1>6. CASE stop
  <2>1. script' \in Rests /\ cmd' = "stop_observer"
    BY <1>3, <1>6 DEF stop
  <2>2. QED
    BY <2>1 DEF Creating, Stopping
<1>7. CASE Ignored
  <2>1. PICK request \in Requests \ Handled(playback_state) : Dispatch(request)
    BY <1>7 DEF Ignored
  <2>2. /\ cmd = "idle" /\ cmd' = cmd /\ playback_state' = playback_state
        /\ script' \in Rests /\ (script' = <<"QUIT">> => request = "STOP")
    BY <1>3, <1>7, <2>1 DEF Ignored
  <2>3. request = "STOP" => playback_state # "PLAY"
    BY <2>1 DEF Handled
  <2>4. QED
    BY <2>2, <2>3 DEF Creating
<1>8. CASE CommandStep
  <2>1. script' = script
    BY <1>8 DEF CommandStep, CreateMedia, CreateProducer, CreateConsumer, StopObserver, StopOutput,
       StopMultiplexer, StopSignalInput, StopInput
  <2>2. CASE CreateProducer \/ CreateConsumer \/ \E m \in Media : CreateMedia(m)
    <3>1. Creating
      BY <2>2 DEF CreateMedia, CreateProducer, CreateConsumer, Creating
    <3>2. script' = <<>>
      BY <2>1, <3>1
    <3>3. QED
      BY <3>2 DEF Rests
  <2>3. CASE StopInput
    BY <2>1, <2>3 DEF StopInput, Creating
  <2>4. CASE StopObserver \/ StopOutput \/ StopMultiplexer \/ \E m \in Media : StopSignalInput(m)
    <3>1. cmd' \in {"stop_observer", "stop_output", "stop_multiplexer", "stop_signal", "stop_input"}
      BY <2>4 DEF StopObserver, StopOutput, StopMultiplexer, StopSignalInput
    <3>2. QED
      BY <2>1, <3>1 DEF Creating, Stopping
  <2>5. QED
    BY <1>8, <2>2, <2>3, <2>4 DEF CommandStep
<1>9. CASE \/ \E m \in Media : MediaStep(m)
           \/ ProducerStep \/ ConsumerStep \/ BoardStep \/ ObserverStep \/ SpuriousWakeup
           \/ UNCHANGED vars
  <2>1. UNCHANGED cmdVars
    BY <1>9, ThreadsLeaveRequests
  <2>2. QED
    BY <1>1, <2>1 DEF cmdVars
<1>10. QED
  BY <1>2, <1>4, <1>5, <1>6, <1>7, <1>8, <1>9 DEF Next, Request

(* After HLD_TH_START_MON's last request nothing is left of the session,   *)
(* unless it was paused: by then stop() has run to its end, whatever the   *)
(* threads and the other callers did in between.                           *)
THEOREM MonitorReleasesCorrect == Spec => MonitorReleases
<1>1. Init => RequestsInv
  BY DEF Init, RequestsInv, Rests, Creating
<1>2. TypeOK /\ RequestsInv /\ [Next]_vars => RequestsInv'
  BY RequestsStep
<1>3. TypeOK /\ RequestsInv /\ [Next]_vars
        => [script = <<"QUIT">> /\ script' = <<>> => playback_state' \in {"NONE", "PAUSE"}]_vars
  <2> SUFFICES ASSUME TypeOK, RequestsInv, Next, script = <<"QUIT">>, script' = <<>>
               PROVE  playback_state' \in {"NONE", "PAUSE"}
    OBVIOUS
  <2>1. script # script' /\ script # <<>> /\ Head(script) = "QUIT"
    OBVIOUS
  <2>2. CASE quit
    BY <2>2 DEF quit
  <2>3. CASE Ignored
    <3>1. PICK request \in Requests \ Handled(playback_state) : Dispatch(request)
      BY <2>3 DEF Ignored
    <3>2. request = "QUIT" /\ cmd = "idle"
      BY <2>1, <3>1 DEF Dispatch, Pending
    <3>3. playback_state \in {"NONE", "INIT", "PLAY", "PAUSE"} /\ playback_state # "PLAY"
      BY <3>2 DEF TypeOK, CommandTypes, RequestsInv, Stopping
    <3>4. playback_state # "INIT"
      BY <3>1, <3>2 DEF Handled
    <3>5. QED
      BY <2>3, <3>3, <3>4 DEF Ignored
  <2>4. ~(\E c \in Callers : Call(c)) /\ ~Take /\ ~(\E v \in {0, 1} : SetFinishAsi(v))
    BY <2>1 DEF Call, Take, SetFinishAsi, Dispatch, Pending
  <2>5. ~init /\ ~play /\ ~pause /\ ~resume /\ ~stop
    BY <2>1 DEF init, play, pause, resume, stop, Dispatch, Pending
  <2>6. ~CommandStep
    BY <2>1 DEF CommandStep, CreateMedia, CreateProducer, CreateConsumer, StopObserver, StopOutput,
       StopMultiplexer, StopSignalInput, StopInput
  <2>7. CASE \/ \E m \in Media : MediaStep(m)
             \/ ProducerStep \/ ConsumerStep \/ BoardStep \/ ObserverStep \/ SpuriousWakeup
    BY <2>1, <2>7, ThreadsLeaveRequests DEF cmdVars
  <2>8. QED
    BY <2>2, <2>3, <2>4, <2>5, <2>6, <2>7 DEF Next, Request
<1>4. QED
  BY <1>1, <1>2, <1>3, TypeCorrect, PTL DEF Spec, MonitorReleases

-----------------------------------------------------------------------------
(* A session implements Stream.                                            *)

NatLess == {p \in Nat \X Nat : p[1] < p[2]}

(* A set of naturals that is not empty has a least one.                    *)
LEMMA LeastNat ==
  ASSUME NEW T \in SUBSET Nat, T # {}
  PROVE  \E x \in T : \A y \in T : x <= y
<1>1. NatLess = OpToRel(<, Nat)
  BY Zenon DEF NatLess, OpToRel
<1>2. IsWellFoundedOn(NatLess, Nat)
  BY <1>1, NatLessThanWellFounded
<1>3. PICK x \in T : \A y \in T : ~(<<y, x>> \in NatLess)
  BY <1>2, WFMin
<1>4. ASSUME NEW y \in T PROVE x <= y
  <2>1. ~(<<y, x>> \in NatLess) /\ x \in Nat /\ y \in Nat
    BY <1>3
  <2>2. QED
    BY <2>1 DEF NatLess
<1>5. QED
  BY <1>4

(* So what holds of 0 and of n + 1 with n holds of every natural number,   *)
(* and what holds of the empty sequence and of every extension of one of   *)
(* which it holds, holds of every sequence.                                *)
LEMMA NatsReached ==
  ASSUME NEW T, 0 \in T, \A n \in Nat : n \in T => n + 1 \in T
  PROVE  Nat \subseteq T
<1> SUFFICES ASSUME Nat \ T # {} PROVE FALSE
  OBVIOUS
<1>1. PICK n \in Nat \ T : \A k \in Nat \ T : n <= k
  BY LeastNat
<1>2. n # 0 /\ n - 1 \in Nat /\ (n - 1) + 1 = n /\ ~(n <= n - 1)
  BY <1>1
<1>3. QED
  BY <1>1, <1>2

LEMMA SequencesReached ==
  ASSUME NEW A, NEW T, <<>> \in T, \A s \in Seq(A), a \in A : s \in T => Append(s, a) \in T
  PROVE  Seq(A) \subseteq T
<1> SUFFICES ASSUME NEW s \in Seq(A) PROVE s \in T
  OBVIOUS
<1> DEFINE N == {n \in Nat : n <= Len(s) => SubSeq(s, 1, n) \in T}
<1>1. 0 \in N
  <2>1. SubSeq(s, 1, 0) = <<>>
    OBVIOUS
  <2>2. QED
    BY <2>1
<1>2. ASSUME NEW n \in Nat, n \in N PROVE n + 1 \in N
  <2> SUFFICES ASSUME n + 1 <= Len(s) PROVE SubSeq(s, 1, n + 1) \in T
    OBVIOUS
  <2>1. SubSeq(s, 1, n) \in Seq(A) /\ s[n + 1] \in A /\ SubSeq(s, 1, n) \in T
    BY <1>2
  <2>2. SubSeq(s, 1, n + 1) = Append(SubSeq(s, 1, n), s[n + 1])
    OBVIOUS
  <2>3. QED
    BY <2>1, <2>2
<1> HIDE DEF N
<1>3. Nat \subseteq N
  BY <1>1, <1>2, NatsReached
<1>4. Len(s) \in Nat /\ Len(s) <= Len(s) /\ SubSeq(s, 1, Len(s)) = s
  OBVIOUS
<1>5. Len(s) \in N
  BY <1>3, <1>4
<1>6. SubSeq(s, 1, Len(s)) \in T
  BY <1>4, <1>5 DEF N
<1>7. QED
  BY <1>4, <1>6

-----------------------------------------------------------------------------
(* The packets of a media among others.                                    *)

(* f[n] is what is of m among the first n packets of s.                    *)
Picks(m, s, f) ==
  f = [n \in 0 .. Len(s) |->
         IF n = 0 THEN <<>>
         ELSE IF s[n].media = m THEN Append(f[n - 1], s[n].seq) ELSE f[n - 1]]

(* Only one function picks.                                                *)
LEMMA PicksOnce ==
  ASSUME NEW m, NEW s \in Seq(Packet), NEW f, NEW g, Picks(m, s, f), Picks(m, s, g)
  PROVE  f[Len(s)] = g[Len(s)]
<1> DEFINE N == {n \in Nat : n <= Len(s) => f[n] = g[n]}
<1>1. 0 \in N
  BY DEF Picks
<1>2. ASSUME NEW n \in Nat, n \in N PROVE n + 1 \in N
  <2> SUFFICES ASSUME n + 1 <= Len(s) PROVE f[n + 1] = g[n + 1]
    OBVIOUS
  <2>1. n + 1 \in 0 .. Len(s) /\ n + 1 # 0 /\ (n + 1) - 1 = n /\ f[n] = g[n]
    BY <1>2
  <2>2. /\ f[n + 1] = IF s[n + 1].media = m THEN Append(f[n], s[n + 1].seq) ELSE f[n]
        /\ g[n + 1] = IF s[n + 1].media = m THEN Append(g[n], s[n + 1].seq) ELSE g[n]
    BY <2>1 DEF Picks
  <2>3. QED
    BY <2>1, <2>2
<1> HIDE DEF N
<1>3. Nat \subseteq N
  BY <1>1, <1>2, NatsReached
<1>4. QED
  BY <1>3 DEF N

(* Picking from a longer sequence picks one element more, or none.         *)
LEMMA PicksExtended ==
  ASSUME NEW m, NEW s \in Seq(Packet), NEW p \in Packet, NEW f, Picks(m, s, f)
  PROVE  \E g : /\ Picks(m, Append(s, p), g)
                /\ g[Len(s) + 1] = IF p.media = m THEN Append(f[Len(s)], p.seq) ELSE f[Len(s)]
<1> DEFINE last == IF p.media = m THEN Append(f[Len(s)], p.seq) ELSE f[Len(s)]
           t == Append(s, p)
           g == [n \in 0 .. Len(t) |-> IF n = Len(s) + 1 THEN last ELSE f[n]]
<1>0. /\ Len(s) \in Nat /\ Len(t) = Len(s) + 1 /\ t[Len(s) + 1] = p
      /\ \A n \in 1 .. Len(s) : t[n] = s[n]
  OBVIOUS
<1> HIDE DEF last, t
<1>1. g[Len(s) + 1] = last
  BY <1>0
<1>2. ASSUME NEW n \in 0 .. Len(t)
      PROVE  g[n] = IF n = 0 THEN <<>>
                    ELSE IF t[n].media = m THEN Append(g[n - 1], t[n].seq) ELSE g[n - 1]
  <2>1. CASE n = Len(s) + 1
    <3>1. n # 0 /\ n - 1 = Len(s) /\ n - 1 \in 0 .. Len(t) /\ n - 1 # Len(s) + 1 /\ t[n] = p
      BY <1>0, <2>1
    <3>2. g[n - 1] = f[Len(s)]
      BY <3>1
    <3>3. QED
      BY <1>1, <2>1, <3>1, <3>2 DEF last
  <2>2. CASE n = 0
    <3>1. 0 # Len(s) + 1 /\ 0 \in 0 .. Len(s)
      BY <1>0
    <3>2. f[0] = <<>>
      BY <3>1 DEF Picks
    <3>3. QED
      BY <2>2, <3>1, <3>2
  <2>3. CASE n # 0 /\ n # Len(s) + 1
    <3>1. /\ n \in 1 .. Len(s) /\ n \in 0 .. Len(s) /\ n - 1 \in 0 .. Len(t)
          /\ n - 1 # Len(s) + 1 /\ t[n] = s[n]
      BY <1>0, <2>3
    <3>2. g[n] = f[n] /\ g[n - 1] = f[n - 1]
      BY <2>3, <3>1
    <3>3. f[n] = IF s[n].media = m THEN Append(f[n - 1], s[n].seq) ELSE f[n - 1]
      BY <2>3, <3>1 DEF Picks
    <3>4. QED
      BY <2>3, <3>1, <3>2, <3>3
  <2>4. QED
    BY <2>1, <2>2, <2>3
<1>3. Picks(m, t, g)
  <2>1. g = [n \in 0 .. Len(t) |-> g[n]]
    OBVIOUS
  <2> HIDE DEF g
  <2>2. QED
    BY <1>2, <2>1 DEF Picks
<1> HIDE DEF g
<1>4. QED
  BY <1>1, <1>3 DEF last, t

(* There is a function that picks.                                         *)
LEMMA PicksExist ==
  ASSUME NEW m, NEW s \in Seq(Packet)
  PROVE  \E f : Picks(m, s, f)
<1> DEFINE T == {r \in Seq(Packet) : \E f : Picks(m, r, f)}
<1>1. <<>> \in T
  <2>1. <<>> \in Seq(Packet) /\ Len(<<>>) = 0
    OBVIOUS
  <2>2. Picks(m, <<>>, [n \in 0 .. Len(<<>>) |-> <<>>])
    BY <2>1 DEF Picks
  <2>3. QED
    BY <2>1, <2>2
<1>2. ASSUME NEW r \in Seq(Packet), NEW p \in Packet, r \in T PROVE Append(r, p) \in T
  <2>1. PICK f : Picks(m, r, f)
    BY <1>2
  <2>2. Append(r, p) \in Seq(Packet)
    OBVIOUS
  <2>3. QED
    BY <2>1, <2>2, PicksExtended
<1> HIDE DEF T
<1>3. Seq(Packet) \subseteq T
  BY <1>1, <1>2, SequencesReached
<1>4. QED
  BY <1>3 DEF T

(* Of is what it picks.                                                    *)
LEMMA OfPicks ==
  ASSUME NEW m, NEW s \in Seq(Packet), NEW f, Picks(m, s, f)
  PROVE  Of(m, s) = f[Len(s)]
<1> DEFINE g == CHOOSE h : Picks(m, s, h)
<1>1. Picks(m, s, g)
  OBVIOUS
<1>2. Of(m, s) = g[Len(s)]
  BY Zenon DEF Of, Picks
<1> HIDE DEF g
<1>3. QED
  BY <1>1, <1>2, PicksOnce

(* Of, by its two cases.                                                   *)
LEMMA OfEmpty == ASSUME NEW m PROVE Of(m, <<>>) = <<>>
<1>1. <<>> \in Seq(Packet) /\ Len(<<>>) = 0
  OBVIOUS
<1>2. PICK f : Picks(m, <<>>, f)
  BY <1>1, PicksExist
<1>3. f[0] = <<>>
  BY <1>1, <1>2 DEF Picks
<1>4. QED
  BY <1>1, <1>2, <1>3, OfPicks

(* What Of gives with one packet more.                                     *)
LEMMA OfAppend ==
  ASSUME NEW m, NEW s \in Seq(Packet), NEW p \in Packet
  PROVE  Of(m, Append(s, p)) = IF p.media = m THEN Append(Of(m, s), p.seq) ELSE Of(m, s)
<1>1. PICK f : Picks(m, s, f)
  BY PicksExist
<1>2. PICK g : /\ Picks(m, Append(s, p), g)
               /\ g[Len(s) + 1] = IF p.media = m THEN Append(f[Len(s)], p.seq) ELSE f[Len(s)]
  BY <1>1, PicksExtended
<1>3. Append(s, p) \in Seq(Packet) /\ Len(Append(s, p)) = Len(s) + 1
  OBVIOUS
<1>4. Of(m, s) = f[Len(s)] /\ Of(m, Append(s, p)) = g[Len(s) + 1]
  BY <1>1, <1>2, <1>3, OfPicks
<1>5. QED
  BY <1>2, <1>4

(* Sequences are equal that agree at every place.                          *)
LEMMA SameSequence ==
  ASSUME NEW A, NEW s \in Seq(A), NEW t \in Seq(A), Len(s) = Len(t), \A i \in 1 .. Len(s) : s[i] = t[i]
  PROVE  s = t
  OBVIOUS

(* What joining and cutting sequences gives.                               *)
LEMMA ConcatFacts ==
  ASSUME NEW A, NEW a \in Seq(A), NEW b \in Seq(A)
  PROVE  /\ a \o b \in Seq(A) /\ Len(a \o b) = Len(a) + Len(b)
         /\ a \o <<>> = a /\ <<>> \o a = a
         /\ SubSeq(a \o b, Len(a) + 1, Len(a \o b)) = b
         /\ SubSeq(a, 1, Len(a)) = a
<1>1. a \o b \in Seq(A) /\ Len(a \o b) = Len(a) + Len(b)
  OBVIOUS
<1>2. a \o <<>> = a /\ <<>> \o a = a
  OBVIOUS
<1>3. SubSeq(a \o b, Len(a) + 1, Len(a \o b)) = b
  OBVIOUS
<1>4. SubSeq(a, 1, Len(a)) = a
  OBVIOUS
<1>5. QED
  BY <1>1, <1>2, <1>3, <1>4

(* A sequence cut in two is the first part joined to the second.           *)
LEMMA CutConcat ==
  ASSUME NEW A, NEW a \in Seq(A), NEW n \in 0 .. Len(a)
  PROVE  SubSeq(a, 1, n) \o SubSeq(a, n + 1, Len(a)) = a
<1> DEFINE p == SubSeq(a, 1, n)
           q == SubSeq(a, n + 1, Len(a))
<1>1. /\ p \in Seq(A) /\ q \in Seq(A) /\ Len(p) = n /\ Len(q) = Len(a) - n
      /\ \A i \in 1 .. n : p[i] = a[i]
      /\ \A i \in 1 .. Len(a) - n : q[i] = a[n + i]
  OBVIOUS
<1> HIDE DEF p, q
<1>2. p \o q \in Seq(A) /\ Len(p \o q) = Len(p) + Len(q) /\ Len(a) \in Nat /\ n \in Nat
  BY <1>1
<1>3. ASSUME NEW i \in 1 .. Len(a) PROVE (p \o q)[i] = a[i]
  <2>1. CASE i <= n
    BY <1>1, <2>1
  <2>2. CASE i > n
    <3>1. i - n \in 1 .. Len(a) - n /\ n + (i - n) = i
      BY <2>2
    <3>2. (p \o q)[i] = q[i - n]
      BY <1>1, <2>2
    <3>3. QED
      BY <1>1, <3>1, <3>2
  <2>3. i <= n \/ i > n
    BY <1>2
  <2>4. QED
    BY <2>1, <2>2, <2>3
<1>4. Len(p \o q) = Len(a)
  BY <1>1, <1>2
<1>5. p \o q = a
  BY <1>2, <1>3, <1>4, SameSequence
<1>6. QED
  BY <1>5 DEF p, q

Seqnos == 0 .. Seqs - 1

(* The numbers of the packets of a media.                                  *)
LEMMA OfType ==
  ASSUME NEW m, NEW s \in Seq(Packet)
  PROVE  Of(m, s) \in Seq(Seqnos)
<1> DEFINE T == {r \in Seq(Packet) : Of(m, r) \in Seq(Seqnos)}
<1>1. <<>> \in T
  <2>1. <<>> \in Seq(Packet) /\ <<>> \in Seq(Seqnos)
    OBVIOUS
  <2>2. QED
    BY <2>1, OfEmpty
<1>2. ASSUME NEW r \in Seq(Packet), NEW p \in Packet, r \in T PROVE Append(r, p) \in T
  <2>1. Append(r, p) \in Seq(Packet) /\ p.seq \in Seqnos /\ Of(m, r) \in Seq(Seqnos)
    BY <1>2 DEF Packet, Seqnos
  <2>2. Of(m, Append(r, p)) = IF p.media = m THEN Append(Of(m, r), p.seq) ELSE Of(m, r)
    BY OfAppend
  <2>3. QED
    BY <2>1, <2>2
<1> HIDE DEF T
<1>3. Seq(Packet) \subseteq T
  BY <1>1, <1>2, SequencesReached
<1>4. QED
  BY <1>3 DEF T

(* Appending to a joined sequence is appending to its second part.         *)
LEMMA AppendConcat ==
  ASSUME NEW a \in Seq(Seqnos), NEW b \in Seq(Seqnos), NEW x \in Seqnos
  PROVE  Append(a \o b, x) = a \o Append(b, x)
  OBVIOUS

(* Of and joining, with one packet more.                                   *)
LEMMA OfConcatAppend ==
  ASSUME NEW m, NEW s \in Seq(Packet), NEW r \in Seq(Packet), NEW p \in Packet,
         Of(m, s \o r) = Of(m, s) \o Of(m, r)
  PROVE  Of(m, s \o Append(r, p)) = Of(m, s) \o Of(m, Append(r, p))
<1>0. s \o r \in Seq(Packet)
  OBVIOUS
<1>1. Append(s \o r, p) = s \o Append(r, p)
  BY ONLY s \in Seq(Packet), r \in Seq(Packet), p \in Packet
<1>2. p.seq \in Seqnos
  BY DEF Packet, Seqnos
<1>3. /\ Of(m, Append(r, p)) = IF p.media = m THEN Append(Of(m, r), p.seq) ELSE Of(m, r)
      /\ Of(m, Append(s \o r, p))
           = IF p.media = m THEN Append(Of(m, s \o r), p.seq) ELSE Of(m, s \o r)
  BY <1>0, OfAppend
<1>4. Of(m, s) \in Seq(Seqnos) /\ Of(m, r) \in Seq(Seqnos)
  BY OfType
<1>5. Append(Of(m, s) \o Of(m, r), p.seq) = Of(m, s) \o Append(Of(m, r), p.seq)
  BY <1>2, <1>4, AppendConcat, Zenon
<1>6. QED
  BY <1>1, <1>3, <1>5

(* What Of picks from two buffers, it picks from one and then the other.   *)
LEMMA OfConcat ==
  ASSUME NEW m, NEW s \in Seq(Packet), NEW t \in Seq(Packet)
  PROVE  Of(m, s \o t) = Of(m, s) \o Of(m, t)
<1> DEFINE T == {r \in Seq(Packet) : Of(m, s \o r) = Of(m, s) \o Of(m, r)}
<1>0. Of(m, s) \in Seq(Seqnos)
  BY OfType
<1>1. <<>> \in T
  <2>1. s \o <<>> = s /\ Of(m, s) \o <<>> = Of(m, s) /\ <<>> \in Seq(Packet)
    BY <1>0
  <2>2. QED
    BY <2>1, OfEmpty
<1>2. ASSUME NEW r \in Seq(Packet), NEW p \in Packet, r \in T PROVE Append(r, p) \in T
  <2>1. Append(r, p) \in Seq(Packet)
    OBVIOUS
  <2>2. QED
    BY <1>2, <2>1, OfConcatAppend
<1> HIDE DEF T
<1>3. Seq(Packet) \subseteq T
  BY <1>1, <1>2, SequencesReached
<1>4. QED
  BY <1>3 DEF T

(* What Count gives with one packet more.                                  *)
LEMMA CountAppend ==
  ASSUME NEW m, NEW s \in Seq(Packet), NEW p \in Packet
  PROVE  /\ Count(m, s) \in Nat
         /\ Count(m, Append(s, p)) = IF p.media = m THEN Count(m, s) + 1 ELSE Count(m, s)
<1> DEFINE I == {i \in DOMAIN s : s[i].media = m}
           t == Append(s, p)
           J == {i \in DOMAIN t : t[i].media = m}
<1>1. /\ Len(s) \in Nat /\ DOMAIN s = 1 .. Len(s) /\ DOMAIN t = 1 .. Len(s) + 1
      /\ t[Len(s) + 1] = p /\ \A i \in 1 .. Len(s) : t[i] = s[i]
  OBVIOUS
<1>2. IsFiniteSet(1 .. Len(s))
  BY <1>1, FS_Interval
<1>3. IsFiniteSet(I)
  BY <1>1, <1>2, FS_Subset
<1>4. Cardinality(I) \in Nat
  BY <1>3, FS_CardinalityType
<1>5. Len(s) + 1 \notin I
  BY <1>1
<1>6. J = IF p.media = m THEN I \cup {Len(s) + 1} ELSE I
  <2>1. CASE p.media = m
    <3>1. J = I \cup {Len(s) + 1}
      BY <1>1, <2>1
    <3>2. QED
      BY <2>1, <3>1
  <2>2. CASE p.media # m
    <3>1. J = I
      BY <1>1, <2>2
    <3>2. QED
      BY <2>2, <3>1
  <2>3. QED
    BY <2>1, <2>2
<1>7. Cardinality(I \cup {Len(s) + 1}) = Cardinality(I) + 1
  BY <1>3, <1>5, FS_AddElement
<1>8. Count(m, s) = Cardinality(I) /\ Count(m, t) = Cardinality(J)
  BY DEF Count
<1> HIDE DEF I, J, t
<1>9. Count(m, s) \in Nat /\ Count(m, t) = IF p.media = m THEN Count(m, s) + 1 ELSE Count(m, s)
  BY <1>4, <1>6, <1>7, <1>8
<1>10. QED
  BY <1>9 DEF t

(* ConsumerWrite counts the packets that Of picks.                         *)
LEMMA OfLength ==
  ASSUME NEW m, NEW s \in Seq(Packet)
  PROVE  Len(Of(m, s)) = Count(m, s)
<1> DEFINE T == {r \in Seq(Packet) : Len(Of(m, r)) = Count(m, r)}
<1>1. <<>> \in T
  <2>1. {i \in DOMAIN <<>> : <<>>[i].media = m} = {}
    OBVIOUS
  <2>2. Count(m, <<>>) = 0
    BY <2>1, FS_EmptySet DEF Count
  <2>3. Len(Of(m, <<>>)) = 0 /\ <<>> \in Seq(Packet)
    BY OfEmpty
  <2>4. QED
    BY <2>2, <2>3
<1>2. ASSUME NEW r \in Seq(Packet), NEW p \in Packet, r \in T PROVE Append(r, p) \in T
  <2>1. /\ Append(r, p) \in Seq(Packet) /\ p.seq \in Seqnos /\ Len(Of(m, r)) = Count(m, r)
        /\ Of(m, r) \in Seq(Seqnos)
    <3>1. Append(r, p) \in Seq(Packet)
      OBVIOUS
    <3>2. p.seq \in Seqnos
      BY DEF Packet, Seqnos
    <3>3. QED
      BY <1>2, <3>1, <3>2, OfType
  <2>2. Of(m, Append(r, p)) = IF p.media = m THEN Append(Of(m, r), p.seq) ELSE Of(m, r)
    BY OfAppend
  <2>3. Count(m, Append(r, p)) = IF p.media = m THEN Count(m, r) + 1 ELSE Count(m, r)
    BY CountAppend
  <2>4. Len(Append(Of(m, r), p.seq)) = Len(Of(m, r)) + 1
    BY <2>1
  <2>5. QED
    BY <2>1, <2>2, <2>3, <2>4
<1> HIDE DEF T
<1>3. Seq(Packet) \subseteq T
  BY <1>1, <1>2, SequencesReached
<1>4. QED
  BY <1>3 DEF T

-----------------------------------------------------------------------------
(* The refinement needs to know more of the session.                       *)

Playing == playback_control \in {PLAYBACK_CONTROL_NONE, PLAYBACK_CONTROL_PAUSE}
Own(m) == [media : {m}, seq : Seqnos]

(* A media buffers its own packets alone.                                  *)
OwnPackets == \A m \in Media : buf[m] \in Seq(Own(m))

(* The producer starts with nothing gathered, and leaves an item behind    *)
(* only when it is told to end.                                            *)
NoItemYet ==
  /\ ppc \in {"off", "buffering", "scan", "open"} => item = <<>>
  /\ ppc = "finish" => Ending \/ item = <<>>

(* Until every media of a session is open, nothing is on its way.          *)
NothingYet ==
  Session /\ Playing /\ (\E m \in Media : mpc[m] \in {"off", "open"}) =>
    item = <<>> /\ mux = <<>> /\ cpc \notin {"block", "room", "put"}

(* A session numbers the packets of a media from 0, on both ends.          *)
FromZero == \A m \in Media : mpc[m] = "open" => src[m] = 0 /\ board[m] = 0

StreamInv == OwnPackets /\ NoItemYet /\ NothingYet /\ FromZero

(* A media touches neither the command thread nor the output, and of the   *)
(* producer only where it sleeps.                                          *)
LEMMA MediaStepKeeps ==
  ASSUME NEW m \in Media, MediaStep(m)
  PROVE  UNCHANGED cmdVars /\ UNCHANGED consumerVars /\ UNCHANGED <<item, mux, pm>>
<1> USE DEF producerVars
<1>1. CASE MediaStore(m)
  BY <1>1 DEF MediaStore
<1>2. CASE MediaFull(m) \/ MediaSignal(m)
  BY <1>2 DEF MediaFull, MediaSignal
<1>3. CASE MediaOpen(m) \/ MediaReady(m) \/ MediaWaiting(m) \/ MediaTest(m)
  BY <1>3 DEF MediaOpen, MediaReady, MediaWaiting, MediaTest
<1>4. CASE MediaPaused(m) \/ MediaRead(m) \/ MediaClose(m) \/ MediaFinish(m)
  BY <1>4 DEF MediaPaused, MediaRead, MediaClose, MediaFinish
<1>5. QED
  BY <1>1, <1>2, <1>3, <1>4 DEF MediaStep

(* What BufferNItem stores of a media is of that media.                    *)
LEMMA StoredOwn ==
  ASSUME TypeOK, NEW m \in Media, NEW k \in Nat
  PROVE  /\ [i \in 1 .. k |-> [media |-> m, seq |-> (src[m] + i - 1) % Seqs]] \in Seq(Own(m))
         /\ Len([i \in 1 .. k |-> [media |-> m, seq |-> (src[m] + i - 1) % Seqs]]) = k
<1>1. ASSUME NEW i \in 1 .. k PROVE (src[m] + i - 1) % Seqs \in Seqnos
  <2>1. src[m] + i - 1 \in Int
    BY PlaybackAssumption DEF TypeOK, MediaTypes
  <2>2. QED
    BY <2>1, PlaybackAssumption, ModType DEF Seqnos
<1>2. \A i \in 1 .. k : [media |-> m, seq |-> (src[m] + i - 1) % Seqs] \in Own(m)
  BY <1>1 DEF Own
<1>3. QED
  BY <1>2

(* Every step keeps the packets of a media in its own buffer.              *)
LEMMA OwnPacketsStep ==
  ASSUME TypeOK, OwnPackets, [Next]_vars PROVE OwnPackets'
<1> USE DEF cmdVars, producerVars, consumerVars, observerVars
<1>0. DOMAIN buf = Media /\ pm \in Media /\ \A m \in Media : room[m] \in Nat
  BY DEF TypeOK, MediaTypes, ProducerTypes
<1>1. CASE Request \/ BoardStep \/ ObserverStep \/ UNCHANGED vars
  <2>1. UNCHANGED buf
    BY <1>1 DEF Request, Call, Take, SetFinishAsi, init, quit, play, pause, resume, stop, Ignored,
       BoardStep, BoardRoom, BoardDma, ConsumerMove, ObserverStep, ObserverReceive, ObserverFinish,
       mediaVars, vars
  <2>2. QED
    BY <2>1 DEF OwnPackets
<1>2. CASE CommandStep \/ ConsumerStep \/ SpuriousWakeup
  <2>1. UNCHANGED buf
    BY <1>2 DEF CommandStep, CreateMedia, CreateProducer, CreateConsumer, StopObserver, StopOutput,
       StopMultiplexer, StopSignalInput, StopInput, ConsumerStep, ConsumerMultiplexing, ConsumerAwait,
       ConsumerLoop, ConsumerRead, ConsumerLock, ConsumerBlock, ConsumerRoom, ConsumerWrite,
       ConsumerDma, ConsumerFinish, ConsumerMove, SpuriousWakeup, ProducerMove, mediaVars
  <2>2. QED
    BY <2>1 DEF OwnPackets
<1>3. ASSUME NEW m \in Media, MediaStep(m) PROVE OwnPackets'
  <2>1. CASE MediaOpen(m) \/ MediaClose(m)
    <3>1. buf' = [buf EXCEPT ![m] = <<>>] /\ <<>> \in Seq(Own(m))
      BY <2>1 DEF MediaOpen, MediaClose
    <3>2. QED
      BY <1>0, <3>1 DEF OwnPackets
  <2>2. CASE MediaStore(m)
    <3>1. PICK k \in 1 .. room[m] :
            buf' = [buf EXCEPT ![m] = @ \o [i \in 1 .. k |->
                         [media |-> m, seq |-> (src[m] + i - 1) % Seqs]]]
      BY <2>2 DEF MediaStore
    <3> DEFINE more == [i \in 1 .. k |-> [media |-> m, seq |-> (src[m] + i - 1) % Seqs]]
    <3>2. k \in Nat
      BY <1>0
    <3>3. more \in Seq(Own(m))
      BY <3>2, StoredOwn
    <3>4. buf' = [buf EXCEPT ![m] = buf[m] \o more]
      BY <3>1
    <3> HIDE DEF more
    <3>5. buf[m] \o more \in Seq(Own(m))
      BY <3>3 DEF OwnPackets
    <3>6. QED
      BY <1>0, <3>4, <3>5 DEF OwnPackets
  <2>3. CASE \/ MediaReady(m) \/ MediaWaiting(m) \/ MediaTest(m) \/ MediaFull(m)
             \/ MediaPaused(m) \/ MediaRead(m) \/ MediaSignal(m) \/ MediaFinish(m)
    <3>1. UNCHANGED buf
      BY <2>3 DEF MediaReady, MediaWaiting, MediaTest, MediaFull, MediaPaused, MediaRead, MediaSignal,
         MediaFinish
    <3>2. QED
      BY <3>1 DEF OwnPackets
  <2>4. QED
    BY <1>3, <2>1, <2>2, <2>3 DEF MediaStep
<1>4. CASE ProducerPacket /\ buf[pm] # <<>>
  <2>1. buf' = [buf EXCEPT ![pm] = Tail(buf[pm])]
    BY <1>4 DEF ProducerPacket
  <2>2. Tail(buf[pm]) \in Seq(Own(pm))
    BY <1>0, <1>4 DEF OwnPackets
  <2>3. QED
    BY <1>0, <2>1, <2>2 DEF OwnPackets
<1>5. CASE ProducerStep /\ ~(ProducerPacket /\ buf[pm] # <<>>)
  <2>1. UNCHANGED buf
    BY <1>5 DEF ProducerStep, ProducerBuffering, ProducerScan, ProducerOpen, ProducerWaiting,
       ProducerTest, ProducerCheck, ProducerGather, ProducerRecheck, ProducerPacket, ProducerStore,
       ProducerSignal, ProducerFinish, ProducerMove, mediaVars
  <2>2. QED
    BY <2>1 DEF OwnPackets
<1>6. QED
  BY <1>1, <1>2, <1>3, <1>4, <1>5 DEF Next

(* Every step keeps the item empty until the producer gathers.             *)
LEMMA NoItemYetStep ==
  ASSUME TypeOK, Lifecycle, NoItemYet, [Next]_vars PROVE NoItemYet'
<1> USE DEF cmdVars, mediaVars, producerVars, consumerVars, observerVars, NoItemYet, Ending
<1>0. CommandPhase /\ ProducerPhase
  BY DEF Lifecycle
<1>1. CASE play
  <2>1. ppc = "off" /\ UNCHANGED <<ppc, item>>
    BY <1>0, <1>1 DEF play, Dispatch, ProducerPhase, Session, Creating
  <2>2. QED
    BY <2>1
<1>2. CASE pause \/ resume
  <2>1. ~Ending /\ UNCHANGED <<ppc, item>>
    BY <1>0, <1>2 DEF pause, resume, Dispatch, CommandPhase, Session
  <2>2. QED
    BY <2>1
<1>3. CASE \/ (\E c \in Callers : Call(c)) \/ Take \/ (\E v \in {0, 1} : SetFinishAsi(v))
           \/ init \/ quit \/ stop \/ Ignored \/ BoardStep \/ ObserverStep \/ UNCHANGED vars
  <2>1. UNCHANGED <<ppc, item, playback_control>>
    BY <1>3 DEF Call, Take, SetFinishAsi, init, quit, stop, Ignored, BoardStep, BoardRoom, BoardDma,
       ConsumerMove, ObserverStep, ObserverReceive, ObserverFinish, vars
  <2>2. QED
    BY <2>1
<1>4. CASE CommandStep
  <2>1. CASE StopMultiplexer
    <3>1. UNCHANGED item /\ (playback_control' = playback_control \/ ppc = "off")
          /\ (ppc' = ppc \/ ppc' \in {"recheck", "loop"})
      BY <1>0, <2>1 DEF StopMultiplexer, ProducerAfterIn, ProducerPhase
    <3>2. ppc = "off" => ppc' = "off"
      BY <2>1 DEF StopMultiplexer, ProducerAfterIn
    <3>3. QED
      BY <3>1, <3>2
  <2>2. CASE CreateProducer
    BY <1>0, <2>2 DEF CreateProducer, ProducerPhase
  <2>3. CASE StopObserver \/ StopOutput
    <3>1. UNCHANGED <<ppc, item>> /\ (playback_control' = playback_control \/ Ending')
      BY <2>3 DEF StopObserver, StopOutput
    <3>2. QED
      BY <3>1
  <2>4. CASE \/ CreateConsumer \/ StopInput
             \/ (\E m \in Media : CreateMedia(m)) \/ (\E m \in Media : StopSignalInput(m))
    <3>1. UNCHANGED <<ppc, item, playback_control>>
      BY <2>4 DEF CreateConsumer, StopInput, CreateMedia, StopSignalInput
    <3>2. QED
      BY <3>1
  <2>5. QED
    BY <1>4, <2>1, <2>2, <2>3, <2>4 DEF CommandStep
<1>5. ASSUME NEW m \in Media, MediaStep(m) PROVE NoItemYet'
  BY <1>5, MediaStepFrame, MediaStepKeeps
<1>6. CASE ProducerStep
  BY <1>6 DEF ProducerStep, ProducerBuffering, ProducerScan, ProducerOpen, ProducerWaiting,
     ProducerTest, ProducerCheck, ProducerGather, ProducerRecheck, ProducerPacket, ProducerStore,
     ProducerSignal, ProducerFinish, ProducerMove
<1>7. CASE ConsumerStep
  <2>1. UNCHANGED <<item, playback_control>> /\ (ppc' = ppc \/ ppc' = ProducerAfterIn)
    BY <1>7 DEF ConsumerStep, ConsumerMultiplexing, ConsumerAwait, ConsumerLoop, ConsumerRead,
       ConsumerLock, ConsumerBlock, ConsumerRoom, ConsumerWrite, ConsumerDma, ConsumerFinish,
       ConsumerMove
  <2>2. QED
    BY <2>1 DEF ProducerAfterIn
<1>8. CASE SpuriousWakeup
  BY <1>8 DEF SpuriousWakeup, ProducerMove, ConsumerMove
<1>9. QED
  BY <1>1, <1>2, <1>3, <1>4, <1>5, <1>6, <1>7, <1>8 DEF Next, Request

(* While the producer asks for packets, every media of the session is open.*)
LEMMA AllOpen ==
  ASSUME Lifecycle, Playing, ppc \notin {"off", "buffering", "scan", "finish"}, NEW m \in Media
  PROVE  mpc[m] \notin {"off", "open"}
<1>1. ProducerPhase /\ MediaPhase(m)
  BY DEF Lifecycle
<1>2. Session /\ media_state[m] # "READING_INPUT" /\ cmd # "create_media" /\ ~EndingInput
  BY <1>1 DEF ProducerPhase, EndingInput, Playing
<1>3. QED
  BY <1>1, <1>2 DEF MediaPhase

(* Nothing is on its way before every media is open.                       *)
LEMMA NothingYetStep ==
  ASSUME TypeOK, Lifecycle, NoItemYet, NothingYet, [Next]_vars PROVE NothingYet'
<1> USE DEF cmdVars, producerVars, consumerVars, observerVars, NothingYet, Playing, Ending
<1>0. /\ CommandPhase /\ ProducerPhase /\ ConsumerPhase /\ \A m \in Media : MediaPhase(m)
      /\ DOMAIN mpc = Media /\ playback_control \in Controls
      /\ BlockUnits \in Nat \ {0} /\ mux \in Seq(Packet) /\ pm \in Media
  BY PlaybackAssumption DEF Lifecycle, TypeOK, CommandTypes, MediaTypes, ProducerTypes
<1>1. CASE play
  <2>1. /\ ppc = "off" /\ cpc = "off" /\ mux' = <<>> /\ UNCHANGED <<item, cpc>>
    BY <1>0, <1>1 DEF play, Dispatch, ProducerPhase, ConsumerPhase, Session, Creating
  <2>2. QED
    BY <2>1 DEF NoItemYet
<1>2. CASE init \/ quit
  <2>1. ~Session'
    BY <1>2 DEF init, quit, Dispatch, Session, Creating
  <2>2. QED
    BY <2>1
<1>3. CASE pause \/ resume
  <2>1. Session /\ Playing /\ UNCHANGED <<mpc, item, mux, cpc>>
    BY <1>0, <1>3 DEF pause, resume, Dispatch, CommandPhase, Session, EndingInput, Controls, mediaVars
  <2>2. QED
    BY <2>1
<1>4. CASE \/ (\E c \in Callers : Call(c)) \/ Take \/ (\E v \in {0, 1} : SetFinishAsi(v))
           \/ stop \/ Ignored \/ ObserverStep \/ UNCHANGED vars
  <2>1. (Session' => Session) /\ UNCHANGED <<playback_control, mpc, item, mux, cpc>>
    BY <1>4 DEF Call, Take, SetFinishAsi, stop, Ignored, ObserverStep, ObserverReceive, ObserverFinish,
       vars, mediaVars, Session, Creating
  <2>2. QED
    BY <2>1
<1>5. CASE CommandStep
  <2>1. ASSUME NEW m \in Media, CreateMedia(m) PROVE NothingYet'
    <3>1. Session /\ Playing /\ mpc[m] = "off" /\ UNCHANGED <<item, mux, cpc>>
      BY <1>0, <2>1 DEF CreateMedia, Session, Creating, CommandPhase, MediaPhase
    <3>2. QED
      BY <3>1
  <2>2. CASE CreateProducer \/ CreateConsumer
    <3>1. /\ Session /\ UNCHANGED <<playback_control, mpc, item, mux>>
          /\ cpc' = cpc \/ cpc' = "multiplexing"
      BY <2>2 DEF CreateProducer, CreateConsumer, Session, Creating, mediaVars
    <3>2. QED
      BY <3>1
  <2>3. CASE StopObserver
    <3>1. \/ ~Playing'
          \/ UNCHANGED <<cmd, playback_state, playback_control, mpc, item, mux, cpc>>
      BY <2>3 DEF StopObserver, mediaVars
    <3>2. QED
      BY <3>1 DEF Session, Creating
  <2>4. CASE \/ StopOutput \/ StopMultiplexer \/ StopInput
             \/ (\E m \in Media : StopSignalInput(m))
    <3>1. ~Playing'
      BY <1>0, <2>4 DEF StopOutput, StopMultiplexer, StopInput, StopSignalInput, CommandPhase,
         EndingInput
    <3>2. QED
      BY <3>1
  <2>5. QED
    BY <1>5, <2>1, <2>2, <2>3, <2>4 DEF CommandStep
<1>6. ASSUME NEW m \in Media, MediaStep(m) PROVE NothingYet'
  <2>1. UNCHANGED <<cmd, playback_state, playback_control, item, mux, cpc>>
    BY <1>6, MediaStepKeeps
  <2>2. CASE MediaFinish(m)
    <3>1. ~Playing
      BY <1>0, <2>2 DEF MediaFinish, Goto, MediaPhase, EndingInput
    <3>2. QED
      BY <2>1, <3>1
  <2>3. CASE ~MediaFinish(m)
    <3>1. \E to \in {"ready", "loop", "test", "close", "full", "paused", "wait", "read", "store",
                     "signal", "finish"} : mpc' = [mpc EXCEPT ![m] = to]
      BY <1>6, <2>3 DEF MediaStep, MediaOpen, MediaReady, MediaWaiting, MediaTest, MediaFull,
         MediaPaused, MediaRead, MediaStore, MediaSignal, MediaClose, Goto
    <3>2. \A n \in Media : mpc'[n] \in {"off", "open"} => mpc[n] \in {"off", "open"}
      BY <1>0, <3>1
    <3>3. QED
      BY <2>1, <3>2 DEF Session, Creating
  <2>4. QED
    BY <2>2, <2>3
<1>7. CASE ProducerPacket \/ ProducerStore
  <2>1. ppc \in {"packet", "store"} /\ UNCHANGED playback_control
        /\ (mpc' = mpc \/ mpc' = MediaAfterIn(pm))
    BY <1>7 DEF ProducerPacket, ProducerStore, mediaVars
  <2>2. \A m \in Media : mpc'[m] \in {"off", "open"} => mpc[m] \in {"off", "open"}
    BY <1>0, <2>1 DEF MediaAfterIn
  <2>3. QED
    BY <2>1, <2>2, AllOpen
<1>8. CASE \/ ProducerBuffering \/ ProducerScan \/ ProducerOpen \/ ProducerWaiting \/ ProducerTest
           \/ ProducerCheck \/ ProducerGather \/ ProducerRecheck \/ ProducerSignal \/ ProducerFinish
  <2>1. /\ UNCHANGED <<cmd, playback_state, playback_control, mpc, mux>>
        /\ item' = item \/ item' = <<>>
        /\ cpc' = cpc \/ cpc' = "read"
    BY <1>8 DEF ProducerBuffering, ProducerScan, ProducerOpen, ProducerWaiting, ProducerTest,
       ProducerCheck, ProducerGather, ProducerRecheck, ProducerSignal, ProducerFinish, ProducerMove,
       ConsumerAfterOut, mediaVars
  <2>2. QED
    BY <2>1 DEF Session, Creating
<1>9. CASE ConsumerLock
  <2>1. CASE Len(mux) < BlockUnits
    <3>1. UNCHANGED <<cmd, playback_state, playback_control, mpc, item, mux>> /\ cpc' = "wait_mux"
      BY <1>9, <2>1 DEF ConsumerLock, mediaVars
    <3>2. QED
      BY <3>1 DEF Session, Creating
  <2>2. CASE ~(Len(mux) < BlockUnits)
    <3>1. mux # <<>>
      BY <1>0, <2>2
    <3>2. UNCHANGED <<cmd, playback_state, playback_control, mpc>>
      BY <1>9, <2>2 DEF ConsumerLock, mediaVars
    <3>3. QED
      BY <3>1, <3>2 DEF Session, Creating
  <2>3. QED
    BY <2>1, <2>2
<1>10. CASE \/ ConsumerMultiplexing \/ ConsumerAwait \/ ConsumerLoop \/ ConsumerRead \/ ConsumerBlock
            \/ ConsumerRoom \/ ConsumerWrite \/ ConsumerDma \/ ConsumerFinish \/ BoardStep
  <2>1. /\ UNCHANGED <<cmd, playback_state, playback_control, mpc, item, mux>>
        /\ cpc' \in {"block", "room", "put"} => Ending \/ cpc \in {"block", "room", "put"}
    BY <1>10 DEF ConsumerMultiplexing, ConsumerAwait, ConsumerLoop, ConsumerRead, ConsumerBlock,
       ConsumerRoom, ConsumerWrite, ConsumerDma, ConsumerFinish, ConsumerMove, BoardStep, BoardRoom,
       BoardDma, OutputEnding, mediaVars
  <2>2. QED
    BY <2>1 DEF Session, Creating
<1>11. CASE SpuriousWakeup
  <2>1. /\ UNCHANGED <<cmd, playback_state, playback_control, item, mux>>
        /\ cpc' = cpc \/ cpc' = "read"
        /\ mpc' = mpc \/ \E m \in Media : mpc' = [mpc EXCEPT ![m] = "loop"]
    BY <1>11 DEF SpuriousWakeup, Goto, ProducerMove, ConsumerMove, mediaVars
  <2>2. \A n \in Media : mpc'[n] \in {"off", "open"} => mpc[n] \in {"off", "open"}
    BY <1>0, <2>1
  <2>3. QED
    BY <2>1, <2>2 DEF Session, Creating
<1>12. QED
  BY <1>1, <1>2, <1>3, <1>4, <1>5, <1>6, <1>7, <1>8, <1>9, <1>10, <1>11
  DEF Next, Request, ProducerStep, ConsumerStep

(* A media does not touch the numbers of a session that opens.             *)
LEMMA FromZeroStep ==
  ASSUME TypeOK, Lifecycle, NothingYet, FromZero, [Next]_vars PROVE FromZero'
<1> USE DEF cmdVars, producerVars, consumerVars, observerVars, FromZero
<1>0. /\ DOMAIN mpc = Media /\ DOMAIN src = Media /\ DOMAIN board = Media /\ pm \in Media
      /\ CommandPhase /\ ConsumerPhase /\ \A m \in Media : MediaPhase(m)
      /\ playback_control \in Controls
  BY DEF TypeOK, CommandTypes, MediaTypes, ConsumerTypes, ProducerTypes, Lifecycle
<1>1. ASSUME NEW m \in Media, CreateMedia(m) PROVE FromZero'
  BY <1>0, <1>1 DEF CreateMedia
<1>2. CASE \/ CreateProducer \/ CreateConsumer \/ StopObserver \/ StopOutput \/ StopMultiplexer
           \/ (\E m \in Media : StopSignalInput(m)) \/ StopInput
  <2>1. /\ UNCHANGED <<src, board>>
        /\ mpc' = mpc \/ \E m \in Media : mpc' = MediaAfterIn(m)
    BY <1>2 DEF CreateProducer, CreateConsumer, StopObserver, StopOutput, StopMultiplexer,
       StopSignalInput, StopInput, mediaVars
  <2>2. \A n \in Media : mpc'[n] = "open" => mpc[n] = "open"
    BY <1>0, <2>1 DEF MediaAfterIn
  <2>3. QED
    BY <2>1, <2>2
<1>3. CASE Request \/ BoardStep \/ ObserverStep \/ UNCHANGED vars
  <2>1. UNCHANGED <<mpc, src, board>>
    BY <1>3 DEF Request, Call, Take, SetFinishAsi, init, quit, play, pause, resume, stop, Ignored,
       BoardStep, BoardRoom, BoardDma, ConsumerMove, ObserverStep, ObserverReceive, ObserverFinish,
       mediaVars, vars
  <2>2. QED
    BY <2>1
<1>4. ASSUME NEW m \in Media, MediaStep(m) PROVE FromZero'
  <2>1. UNCHANGED board
    BY <1>4, MediaStepKeeps
  <2>2. \E to \in {"off", "ready", "loop", "test", "close", "full", "paused", "wait", "read", "store",
                   "signal", "finish"} : mpc' = [mpc EXCEPT ![m] = to]
    BY <1>4 DEF MediaStep, MediaOpen, MediaReady, MediaWaiting, MediaTest, MediaFull,
       MediaPaused, MediaRead, MediaStore, MediaSignal, MediaClose, MediaFinish, Goto
  <2>3. src' = src \/ \E x : src' = [src EXCEPT ![m] = x]
    BY <1>4 DEF MediaStep, MediaOpen, MediaReady, MediaWaiting, MediaTest, MediaFull,
       MediaPaused, MediaRead, MediaStore, MediaSignal, MediaClose, MediaFinish
  <2>4. ASSUME NEW n \in Media, mpc'[n] = "open" PROVE n # m /\ mpc[n] = "open" /\ src'[n] = src[n]
    <3>1. n # m /\ mpc[n] = "open"
      BY <1>0, <2>2, <2>4
    <3>2. src'[n] = src[n]
      BY <1>0, <2>3, <3>1
    <3>3. QED
      BY <3>1, <3>2
  <2>5. QED
    BY <2>1, <2>4
<1>5. CASE ProducerStep
  <2>1. UNCHANGED <<src, board>> /\ (mpc' = mpc \/ mpc' = MediaAfterIn(pm))
    BY <1>5 DEF ProducerStep, ProducerBuffering, ProducerScan, ProducerOpen, ProducerWaiting,
       ProducerTest, ProducerCheck, ProducerGather, ProducerRecheck, ProducerPacket, ProducerStore,
       ProducerSignal, ProducerFinish, ProducerMove, mediaVars
  <2>2. \A n \in Media : mpc'[n] = "open" => mpc[n] = "open"
    BY <1>0, <2>1 DEF MediaAfterIn
  <2>3. QED
    BY <2>1, <2>2
<1>6. CASE ConsumerWrite
  <2>1. cpc = "put" /\ UNCHANGED <<mpc, src>> /\ (WriteRefused => UNCHANGED board)
    BY <1>6 DEF ConsumerWrite, mediaVars
  <2>2. Session /\ (Playing => \A m \in Media : mpc[m] # "open")
    BY <1>0, <2>1 DEF ConsumerPhase, NothingYet
  <2>3. ~EndingInput
    BY <1>0, <2>1, <2>2 DEF ConsumerPhase, CommandPhase, Session, Creating, Stopping, EndingInput,
       Ending, TypeOK, CommandTypes
  <2>4. WriteRefused \/ Playing
    BY <1>0, <2>3 DEF WriteRefused, OutputEnding, EndingInput, Playing, Controls
  <2>5. QED
    BY <2>1, <2>2, <2>4
<1>7. CASE \/ ConsumerMultiplexing \/ ConsumerAwait \/ ConsumerLoop \/ ConsumerRead \/ ConsumerBlock
           \/ ConsumerRoom \/ ConsumerLock \/ ConsumerDma \/ ConsumerFinish
  <2>1. UNCHANGED <<mpc, src, board>>
    BY <1>7 DEF ConsumerMultiplexing, ConsumerAwait, ConsumerLoop, ConsumerRead, ConsumerBlock,
       ConsumerRoom, ConsumerLock, ConsumerDma, ConsumerFinish, ConsumerMove, mediaVars
  <2>2. QED
    BY <2>1
<1>8. CASE SpuriousWakeup
  <2>1. /\ UNCHANGED <<src, board>>
        /\ mpc' = mpc \/ \E m \in Media : mpc' = [mpc EXCEPT ![m] = "loop"]
    BY <1>8 DEF SpuriousWakeup, Goto, ProducerMove, ConsumerMove, mediaVars
  <2>2. \A n \in Media : mpc'[n] = "open" => mpc[n] = "open"
    BY <1>0, <2>1
  <2>3. QED
    BY <2>1, <2>2
<1>9. QED
  BY <1>1, <1>2, <1>3, <1>4, <1>5, <1>6, <1>7, <1>8 DEF Next, CommandStep, ConsumerStep

(* What the refinement needs holds of every session.                       *)
LEMMA StreamInvCorrect == Spec => []StreamInv
<1>1. Init => StreamInv
  <2> SUFFICES ASSUME Init PROVE StreamInv
    OBVIOUS
  <2>1. OwnPackets
    <3>1. \A m \in Media : buf[m] = <<>>
      BY DEF Init
    <3>2. \A m \in Media : <<>> \in Seq(Own(m))
      OBVIOUS
    <3>3. QED
      BY <3>1, <3>2 DEF OwnPackets
  <2>2. NoItemYet /\ NothingYet /\ FromZero
    BY DEF Init, NoItemYet, NothingYet, FromZero
  <2>3. QED
    BY <2>1, <2>2 DEF StreamInv
<1>2. TypeOK /\ Lifecycle /\ StreamInv /\ [Next]_vars => StreamInv'
  BY OwnPacketsStep, NoItemYetStep, NothingYetStep, FromZeroStep DEF StreamInv
<1>3. QED
  BY <1>1, <1>2, TypeCorrect, LifecycleCorrect, PTL DEF Spec

-----------------------------------------------------------------------------
(* The channel of a media, cut and joined.                                 *)

(* The numbers of a buffer, place by place.                                *)
LEMMA NumbersFacts ==
  ASSUME NEW m, NEW q \in Seq(Own(m))
  PROVE  /\ Numbers(q) \in Seq(Seqnos) /\ Len(Numbers(q)) = Len(q)
         /\ \A i \in 1 .. Len(q) : Numbers(q)[i] = q[i].seq
<1>1. ASSUME NEW i \in 1 .. Len(q) PROVE q[i].seq \in Seqnos
  <2>1. q[i] \in Own(m)
    OBVIOUS
  <2>2. QED
    BY <2>1 DEF Own
<1>2. Numbers(q) = [i \in 1 .. Len(q) |-> q[i].seq] /\ Len(q) \in Nat
  BY DEF Numbers
<1>3. QED
  BY <1>1, <1>2

(* Storing adds its numbers at the end of a buffer.                        *)
LEMMA NumbersConcat ==
  ASSUME NEW m, NEW q \in Seq(Own(m)), NEW r \in Seq(Own(m))
  PROVE  Numbers(q \o r) = Numbers(q) \o Numbers(r)
<1>1. q \o r \in Seq(Own(m)) /\ Len(q \o r) = Len(q) + Len(r) /\ Len(q) \in Nat /\ Len(r) \in Nat
  OBVIOUS
<1> DEFINE x == Numbers(q)
           y == Numbers(r)
           z == Numbers(q \o r)
<1>2. /\ x \in Seq(Seqnos) /\ Len(x) = Len(q) /\ \A i \in 1 .. Len(q) : x[i] = q[i].seq
      /\ y \in Seq(Seqnos) /\ Len(y) = Len(r) /\ \A i \in 1 .. Len(r) : y[i] = r[i].seq
      /\ z \in Seq(Seqnos) /\ Len(z) = Len(q) + Len(r)
      /\ \A i \in 1 .. Len(q) + Len(r) : z[i] = (q \o r)[i].seq
  BY <1>1, NumbersFacts
<1> HIDE DEF x, y, z
<1>3. x \o y \in Seq(Seqnos) /\ Len(x \o y) = Len(z)
  BY <1>1, <1>2
<1>4. ASSUME NEW i \in 1 .. Len(z) PROVE z[i] = (x \o y)[i]
  <2>1. CASE i <= Len(q)
    BY <1>1, <1>2, <2>1
  <2>2. CASE i > Len(q)
    <3>1. i - Len(q) \in 1 .. Len(r)
      BY <1>1, <1>2, <2>2
    <3>2. (q \o r)[i] = r[i - Len(q)] /\ (x \o y)[i] = y[i - Len(q)]
      BY <1>1, <1>2, <2>2
    <3>3. QED
      BY <1>2, <3>1, <3>2
  <2>3. i <= Len(q) \/ i > Len(q)
    BY <1>1, <1>2
  <2>4. QED
    BY <2>1, <2>2, <2>3
<1>5. z = x \o y
  BY <1>2, <1>3, <1>4, SameSequence
<1>6. QED
  BY <1>5 DEF x, y, z

(* Reading takes the first number of a buffer.                             *)
LEMMA NumbersHead ==
  ASSUME NEW m, NEW q \in Seq(Own(m)), q # <<>>
  PROVE  Numbers(q) = <<Head(q).seq>> \o Numbers(Tail(q))
<1>1. /\ <<Head(q)>> \in Seq(Own(m)) /\ Tail(q) \in Seq(Own(m)) /\ q = <<Head(q)>> \o Tail(q)
  OBVIOUS
<1>2. Numbers(<<Head(q)>> \o Tail(q)) = Numbers(<<Head(q)>>) \o Numbers(Tail(q))
  BY <1>1, NumbersConcat
<1>3. Numbers(<<Head(q)>>) = <<Head(q).seq>>
  BY DEF Numbers
<1>4. QED
  BY <1>1, <1>2, <1>3

(* Joining is associative.                                                 *)
LEMMA ConcatAssociates ==
  ASSUME NEW a \in Seq(Seqnos), NEW b \in Seq(Seqnos), NEW c \in Seq(Seqnos)
  PROVE  (a \o b) \o c = a \o (b \o c)
  OBVIOUS

(* What is on the way of a media, buffer by buffer.                        *)
InHand(m) == IF cpc \in {"block", "room", "put"} THEN Of(m, dma) ELSE <<>>

(* The parts of the channel, and the channel.                              *)
LEMMA InFlightType ==
  ASSUME TypeOK, OwnPackets, NEW m \in Media
  PROVE  /\ InHand(m) \in Seq(Seqnos) /\ Of(m, mux) \in Seq(Seqnos) /\ Of(m, item) \in Seq(Seqnos)
         /\ Numbers(buf[m]) \in Seq(Seqnos)
         /\ InFlight(m) = InHand(m) \o Of(m, mux) \o Of(m, item) \o Numbers(buf[m])
<1>1. dma \in Seq(Packet) /\ mux \in Seq(Packet) /\ item \in Seq(Packet)
  BY DEF TypeOK, ProducerTypes, ConsumerTypes
<1>2. <<>> \in Seq(Seqnos)
  OBVIOUS
<1>3. Of(m, mux) \in Seq(Seqnos) /\ Of(m, item) \in Seq(Seqnos) /\ Of(m, dma) \in Seq(Seqnos)
  BY <1>1, OfType
<1>4. InHand(m) \in Seq(Seqnos)
  BY <1>2, <1>3 DEF InHand
<1>5. Numbers(buf[m]) \in Seq(Seqnos)
  BY NumbersFacts DEF OwnPackets
<1>6. InFlight(m) = InHand(m) \o Of(m, mux) \o Of(m, item) \o Numbers(buf[m])
  BY DEF InFlight, InHand
<1>7. QED
  BY <1>3, <1>4, <1>5, <1>6

(* Joined sequences, by a name the provers leave folded.                   *)
Cat(a, b) == a \o b

(* Joined numbers are numbers.                                             *)
LEMMA CatType ==
  ASSUME NEW a \in Seq(Seqnos), NEW b \in Seq(Seqnos) PROVE Cat(a, b) \in Seq(Seqnos)
  BY DEF Cat

(* Joining is associative, in its folded form.                             *)
LEMMA CatAssociates ==
  ASSUME NEW a \in Seq(Seqnos), NEW b \in Seq(Seqnos), NEW c \in Seq(Seqnos)
  PROVE  Cat(Cat(a, b), c) = Cat(a, Cat(b, c))
  BY ConcatAssociates DEF Cat

(* A sequence of one number.                                               *)
LEMMA SingleType ==
  ASSUME NEW v \in Seqnos PROVE <<v>> \in Seq(Seqnos)
  OBVIOUS

(* Appending is joining a sequence of one.                                 *)
LEMMA AppendIsConcat ==
  ASSUME NEW y \in Seq(Seqnos), NEW v \in Seqnos PROVE Append(y, v) = Cat(y, <<v>>)
  BY DEF Cat

(* The producer takes a packet from a media's buffer into the item.        *)
LEMMA PacketKeeps ==
  ASSUME NEW x \in Seq(Seqnos), NEW y \in Seq(Seqnos), NEW w \in Seq(Seqnos), NEW z \in Seq(Seqnos)
  PROVE  Cat(Cat(x, Cat(y, w)), z) = Cat(Cat(x, y), Cat(w, z))
<1>1. Cat(Cat(x, y), w) = Cat(x, Cat(y, w))
  BY CatAssociates
<1>2. Cat(Cat(Cat(x, y), w), z) = Cat(Cat(x, y), Cat(w, z))
  BY CatType, CatAssociates
<1>3. QED
  BY <1>1, <1>2

-----------------------------------------------------------------------------
(* The values Stream's variables have in a session.                        *)
UpMap == [m \in Media |-> Up(m)]
NextMap == [m \in Media |-> IF Up(m) THEN src[m] ELSE 0]
ChanMap == [m \in Media |-> IF Up(m) THEN InFlight(m) ELSE <<>>]
GotMap == [m \in Media |-> IF Up(m) THEN board[m] ELSE 0]
FatesNow == IF finish_asi = 1 THEN {"refused"}
            ELSE IF Asked THEN {"taken", "refused"} ELSE {"taken"}

FateSet == (SUBSET {"taken", "refused"}) \ {{}}

(* Something may always become of a block.                                 *)
LEMMA FatesType == FatesNow \in FateSet /\ FatesNow' \in FateSet
<1>1. {"refused"} \in FateSet
  BY DEF FateSet
<1>2. {"taken"} \in FateSet
  BY DEF FateSet
<1>3. {"taken", "refused"} \in FateSet
  BY DEF FateSet
<1>4. QED
  BY <1>1, <1>2, <1>3 DEF FatesNow

(* A step that Stream does not see may still change the fates.             *)
LEMMA SetFatesMap ==
  ASSUME UpMap' = UpMap, NextMap' = NextMap, ChanMap' = ChanMap, GotMap' = GotMap
  PROVE  S!Next
<1>1. FatesNow' \in FateSet
  BY FatesType
<1>2. S!SetFates
  BY <1>1 DEF FateSet, S!SetFates, S!Fates, UpMap, NextMap, ChanMap, GotMap, FatesNow
<1>3. QED
  BY <1>2 DEF S!Next

(* What a media streams, its channel, the session's side of it.            *)
LEMMA SameChannels ==
  ASSUME \A m \in Media : Up(m)' = Up(m),
         \A m \in Media : Up(m) => src'[m] = src[m],
         \A m \in Media : Up(m) => board'[m] = board[m],
         \A m \in Media : Up(m) => InFlight(m)' = InFlight(m)
  PROVE  S!Next
<1>1. UpMap' = UpMap
  BY DEF UpMap
<1>2. NextMap' = NextMap
  BY DEF NextMap
<1>3. ChanMap' = ChanMap
  BY DEF ChanMap
<1>4. GotMap' = GotMap
  BY DEF GotMap
<1>5. QED
  BY <1>1, <1>2, <1>3, <1>4, SetFatesMap

Carries == cpc \in {"block", "room", "put"}

(* A step that touches no buffer, no number and no control is of this      *)
(* kind.                                                                   *)
LEMMA Quiet ==
  ASSUME UNCHANGED <<live, src, board, mux, item, buf, dma>>, Playing' = Playing, Carries' = Carries
  PROVE  S!Next
<1>1. ASSUME NEW m \in Media PROVE Up(m)' = Up(m)
  BY DEF Up, Playing
<1>2. ASSUME NEW m \in Media PROVE InFlight(m)' = InFlight(m)
  <2>1. InHand(m)' = InHand(m)
    BY DEF InHand, Carries
  <2>2. QED
    BY <2>1 DEF InFlight, InHand
<1>3. QED
  BY <1>1, <1>2, SameChannels

(* A session that does not stream is one Stream does not see.              *)
LEMMA NotStreaming ==
  ASSUME \A m \in Media : ~Up(m) /\ ~Up(m)'
  PROVE  S!Next
<1>1. ASSUME NEW m \in Media PROVE Up(m)' = Up(m)
  BY DEF Up
<1>2. \A m \in Media : ~Up(m)
  OBVIOUS
<1>3. QED
  BY <1>1, <1>2, SameChannels

(* A media whose buffer is created streams, with nothing on its way.       *)
LEMMA OpenMap ==
  ASSUME NEW m \in Media, ~Up(m), UpMap' = [UpMap EXCEPT ![m] = TRUE],
         NextMap' = NextMap, ChanMap' = ChanMap, GotMap' = GotMap, FatesNow' = FatesNow
  PROVE  S!Next
<1>1. S!Open(m)
  BY DEF S!Open, UpMap, NextMap, ChanMap, GotMap, FatesNow
<1>2. QED
  BY <1>1 DEF S!Next

(* The steps of Stream, by the values its variables have in a session:     *)
(* Give.                                                                   *)
LEMMA GiveMap ==
  ASSUME NEW m \in Media, Up(m), NEW k \in 1 .. InCap, UpMap' = UpMap,
         ChanMap' = [ChanMap EXCEPT ![m] = @ \o [i \in 1 .. k |-> (NextMap[m] + (i - 1)) % Seqs]],
         NextMap' = [NextMap EXCEPT ![m] = (@ + k) % Seqs], GotMap' = GotMap, FatesNow' = FatesNow
  PROVE  S!Next
<1>1. S!Give(m)
  BY DEF S!Give, S!Plus, UpMap, NextMap, ChanMap, GotMap, FatesNow
<1>2. QED
  BY <1>1 DEF S!Next

(* Close.                                                                  *)
LEMMA CloseMap ==
  ASSUME UpMap' = [m \in Media |-> FALSE], ChanMap' = [m \in Media |-> <<>>],
         NextMap' = [m \in Media |-> 0], GotMap' = [m \in Media |-> 0], FatesNow' = FatesNow
  PROVE  S!Next
<1>1. S!Close
  BY DEF S!Close, UpMap, NextMap, ChanMap, GotMap, FatesNow
<1>2. QED
  BY <1>1 DEF S!Next

(* Block.                                                                  *)
LEMMA BlockMap ==
  ASSUME UpMap' = UpMap, NextMap' = NextMap, FatesNow' = FatesNow,
         NEW n \in [Media -> 0 .. BlockUnits], NEW fate \in FatesNow,
         \A m \in Media : n[m] <= Len(ChanMap[m]),
         ChanMap' = [m \in Media |-> SubSeq(ChanMap[m], n[m] + 1, Len(ChanMap[m]))],
         GotMap' = IF fate = "taken" THEN [m \in Media |-> (GotMap[m] + n[m]) % Seqs] ELSE GotMap
  PROVE  S!Next
<1>1. S!Block
  BY DEF S!Block, S!Plus, UpMap, NextMap, ChanMap, GotMap, FatesNow
<1>2. QED
  BY <1>1 DEF S!Next

(* The requests: a session that does not stream, or a quiet step.          *)
LEMMA RequestMaps ==
  ASSUME TypeOK, Lifecycle, Request PROVE S!Next
<1> USE DEF mediaVars, producerVars, consumerVars, observerVars
<1>0. CommandPhase /\ \A m \in Media : MediaPhase(m)
  BY DEF Lifecycle
<1>1. CASE \/ (\E c \in Callers : Call(c)) \/ Take \/ (\E v \in {0, 1} : SetFinishAsi(v))
           \/ stop \/ Ignored
  <2>1. /\ UNCHANGED <<live, src, board, mux, item, buf, dma>>
        /\ Playing' = Playing /\ Carries' = Carries
    BY <1>1 DEF Call, Take, SetFinishAsi, stop, Ignored, Playing, Carries
  <2>2. QED
    BY <2>1, Quiet
<1>2. CASE pause \/ resume
  <2>1. UNCHANGED <<live, src, board, mux, item, buf, dma>> /\ Carries' = Carries
    BY <1>2 DEF pause, resume, Carries
  <2>2. cmd = "idle" /\ playback_state \in {"PLAY", "PAUSE"} /\ Playing'
    BY <1>2 DEF pause, resume, Dispatch, Playing
  <2>3. Playing
    BY <1>0, <2>2 DEF CommandPhase, Session, Ending, EndingInput, TypeOK, CommandTypes, Controls, Playing
  <2>4. QED
    BY <2>1, <2>2, <2>3, Quiet
<1>3. CASE init \/ quit \/ play
  <2>1. ~Session /\ UNCHANGED live
    BY <1>3 DEF init, quit, play, Dispatch, Session, Creating
  <2>2. ASSUME NEW m \in Media PROVE ~Up(m) /\ ~Up(m)'
    <3>1. ~live[m]
      BY <1>0, <2>1 DEF MediaPhase
    <3>2. QED
      BY <2>1, <3>1 DEF Up
  <2>3. QED
    BY <2>2, NotStreaming
<1>4. QED
  BY <1>1, <1>2, <1>3 DEF Request

(* play() and stop(): the END word given after the observer ends is Close. *)
LEMMA CommandMaps ==
  ASSUME TypeOK, Lifecycle, CommandStep PROVE S!Next
<1> USE DEF mediaVars, producerVars, consumerVars, observerVars
<1>0. CommandPhase /\ \A m \in Media : MediaPhase(m)
  BY DEF Lifecycle
<1>1. ASSUME NEW m \in Media, CreateMedia(m) PROVE S!Next
  <2>1. /\ UNCHANGED <<playback_control, live, mux, item, buf, dma, cpc>> /\ ~live[m]
        /\ src' = [src EXCEPT ![m] = 0] /\ board' = [board EXCEPT ![m] = 0]
    BY <1>0, <1>1 DEF CreateMedia, MediaPhase
  <2>2. ASSUME NEW o \in Media PROVE Up(o)' = Up(o) /\ (Up(o) => o # m)
    BY <2>1 DEF Up
  <2>3. ASSUME NEW o \in Media PROVE InFlight(o)' = InFlight(o)
    BY <2>1 DEF InFlight
  <2>4. ASSUME NEW o \in Media, Up(o) PROVE src'[o] = src[o] /\ board'[o] = board[o]
    BY <2>1, <2>2, <2>4 DEF TypeOK, MediaTypes, ConsumerTypes
  <2>5. QED
    BY <2>2, <2>3, <2>4, SameChannels
<1>2. CASE CreateProducer \/ CreateConsumer
  <2>1. UNCHANGED <<live, src, board, mux, item, buf, dma, playback_control>>
    BY <1>2 DEF CreateProducer, CreateConsumer
  <2>2. Carries' = Carries
    <3>1. CASE CreateProducer
      BY <3>1 DEF CreateProducer, Carries
    <3>2. CASE CreateConsumer
      <4>1. cpc = "off" /\ cpc' = "multiplexing"
        BY <3>2 DEF CreateConsumer, Lifecycle, ConsumerPhase, Creating
      <4>2. QED
        BY <4>1 DEF Carries
    <3>3. QED
      BY <1>2, <3>1, <3>2
  <2>3. QED
    BY <2>1, <2>2, Quiet DEF Playing
<1>3. CASE StopObserver /\ observer_state # "FINISH"
  <2>1. /\ UNCHANGED <<live, src, board, mux, item, buf, dma>>
        /\ Playing' = Playing /\ Carries' = Carries
    BY <1>3 DEF StopObserver, Playing, Carries
  <2>2. QED
    BY <2>1, Quiet
<1>4. CASE StopObserver /\ observer_state = "FINISH"
  <2>1. playback_control' = PLAYBACK_CONTROL_END_OUTPUT /\ UNCHANGED <<finish_asi, script>>
    BY <1>4 DEF StopObserver
  <2>2. ASSUME NEW m \in Media PROVE Up(m)' = FALSE
    BY <2>1 DEF Up
  <2>3. FatesNow' = FatesNow
    BY <2>1 DEF FatesNow, Asked, Pending
  <2>4. UpMap' = [m \in Media |-> FALSE]
    BY <2>2 DEF UpMap
  <2>5. ChanMap' = [m \in Media |-> <<>>]
    BY <2>2 DEF ChanMap
  <2>6. NextMap' = [m \in Media |-> 0] /\ GotMap' = [m \in Media |-> 0]
    BY <2>2 DEF NextMap, GotMap
  <2>7. QED
    BY <2>3, <2>4, <2>5, <2>6, CloseMap
<1>5. CASE \/ StopOutput \/ StopMultiplexer \/ (\E m \in Media : StopSignalInput(m)) \/ StopInput
  <2>1. /\ cmd \in {"stop_output", "stop_multiplexer", "stop_signal", "stop_input"}
        /\ UNCHANGED live
    BY <1>5 DEF StopOutput, StopMultiplexer, StopSignalInput, StopInput
  <2>2. ~Playing
    BY <1>0, <2>1 DEF CommandPhase, Ending, EndingInput, Playing
  <2>3. ~Playing' \/ ~(\E m \in Media : live[m])
    BY <1>0, <1>5, <2>2 DEF StopOutput, StopMultiplexer, StopSignalInput, StopInput, Playing
  <2>4. ASSUME NEW m \in Media PROVE ~Up(m) /\ ~Up(m)'
    BY <2>1, <2>2, <2>3 DEF Up, Playing
  <2>5. QED
    BY <2>4, NotStreaming
<1>6. QED
  BY <1>1, <1>2, <1>3, <1>4, <1>5 DEF CommandStep

(* Nothing streams once the control word is an END word.                   *)
LEMMA NotPlaying ==
  ASSUME ~Playing, UNCHANGED playback_control PROVE S!Next
<1>1. ASSUME NEW m \in Media PROVE ~Up(m) /\ ~Up(m)'
  BY DEF Up, Playing
<1>2. QED
  BY <1>1, NotStreaming

(* The fates change with the command thread alone.                         *)
LEMMA FatesKeep ==
  ASSUME UNCHANGED cmdVars PROVE FatesNow' = FatesNow
  BY DEF cmdVars, FatesNow, Asked, Pending

(* open() of a media is Open.                                              *)
LEMMA MediaOpenMaps ==
  ASSUME TypeOK, Lifecycle, StreamInv, Playing, NEW m \in Media, MediaOpen(m) PROVE S!Next
<1> USE DEF producerVars, consumerVars, cmdVars
<1>1. /\ mpc[m] = "open" /\ live' = [live EXCEPT ![m] = TRUE] /\ buf' = [buf EXCEPT ![m] = <<>>]
      /\ UNCHANGED <<src, board, item, mux, dma, cpc, playback_control, cmdVars>>
  BY DEF MediaOpen, Goto
<1>2. ~live[m] /\ Session
  BY <1>1 DEF Lifecycle, MediaPhase
<1>3. item = <<>> /\ mux = <<>> /\ cpc \notin {"block", "room", "put"}
  BY <1>1, <1>2 DEF StreamInv, NothingYet
<1>4. src[m] = 0 /\ board[m] = 0
  BY <1>1 DEF StreamInv, FromZero
<1>5. DOMAIN live = Media /\ DOMAIN buf = Media
  BY DEF TypeOK, MediaTypes
<1>6. ~Up(m) /\ Up(m)' = TRUE
  BY <1>1, <1>2, <1>5 DEF Up, Playing
<1>7. ASSUME NEW o \in Media, o # m PROVE Up(o)' = Up(o) /\ InFlight(o)' = InFlight(o)
  <2>1. live'[o] = live[o] /\ buf'[o] = buf[o]
    BY <1>1, <1>5, <1>7
  <2>2. Up(o)' = Up(o)
    BY <1>1, <2>1 DEF Up
  <2>3. InFlight(o)' = InFlight(o)
    BY <1>1, <2>1 DEF InFlight
  <2>4. QED
    BY <2>2, <2>3
<1>8. InFlight(m)' = <<>>
  <2>1. Of(m, mux') = <<>> /\ Of(m, item') = <<>>
    BY <1>1, <1>3, OfEmpty
  <2>2. buf'[m] = <<>> /\ Numbers(<<>>) = <<>>
    BY <1>1, <1>5 DEF Numbers
  <2>3. InFlight(m)' = <<>> \o <<>> \o <<>> \o <<>>
    BY <1>1, <1>3, <2>1, <2>2 DEF InFlight
  <2>4. <<>> \o <<>> = <<>>
    OBVIOUS
  <2>5. QED
    BY <2>3, <2>4
<1>9. UpMap' = [UpMap EXCEPT ![m] = TRUE]
  BY <1>6, <1>7 DEF UpMap
<1>10. ChanMap' = ChanMap
  <2>1. ASSUME NEW o \in Media
        PROVE  (IF Up(o) THEN InFlight(o) ELSE <<>>)' = IF Up(o) THEN InFlight(o) ELSE <<>>
    BY <1>6, <1>7, <1>8
  <2>2. QED
    BY <2>1 DEF ChanMap
<1>11. NextMap' = NextMap
  <2>1. ASSUME NEW o \in Media PROVE (IF Up(o) THEN src[o] ELSE 0)' = IF Up(o) THEN src[o] ELSE 0
    BY <1>1, <1>4, <1>6, <1>7
  <2>2. QED
    BY <2>1 DEF NextMap
<1>12. GotMap' = GotMap
  <2>1. ASSUME NEW o \in Media PROVE (IF Up(o) THEN board[o] ELSE 0)' = IF Up(o) THEN board[o] ELSE 0
    BY <1>1, <1>4, <1>6, <1>7
  <2>2. QED
    BY <2>1 DEF GotMap
<1>13. FatesNow' = FatesNow
  BY <1>1, FatesKeep
<1>14. QED
  BY <1>6, <1>9, <1>10, <1>11, <1>12, <1>13, OpenMap

(* The numbers of what BufferNItem stores.                                 *)
LEMMA StoredNumbers ==
  ASSUME TypeOK, NEW m \in Media, NEW k \in Nat
  PROVE  Numbers([i \in 1 .. k |-> [media |-> m, seq |-> (src[m] + i - 1) % Seqs]])
           = [i \in 1 .. k |-> (src[m] + (i - 1)) % Seqs]
  BY DEF Numbers, TypeOK, MediaTypes

(* BufferNItem of a media is Give.                                         *)
LEMMA MediaStoreMaps ==
  ASSUME TypeOK, Lifecycle, StreamInv, Playing, NEW m \in Media, MediaStore(m) PROVE S!Next
<1> USE DEF producerVars, consumerVars, cmdVars
<1>1. PICK k \in 1 .. room[m] :
        /\ buf' = [buf EXCEPT ![m] = @ \o [i \in 1 .. k |->
                    [media |-> m, seq |-> (src[m] + i - 1) % Seqs]]]
        /\ src' = [src EXCEPT ![m] = (@ + k) % Seqs]
  BY DEF MediaStore
<1>2. /\ mpc[m] = "store"
      /\ UNCHANGED <<live, board, item, mux, dma, cpc, playback_control, cmdVars>>
  BY DEF MediaStore
<1>3. /\ DOMAIN buf = Media /\ DOMAIN src = Media /\ src[m] \in Nat
      /\ k \in Nat /\ k \in 1 .. InCap /\ buf[m] \in Seq(Own(m))
  BY PlaybackAssumption DEF TypeOK, MediaTypes, StreamInv, OwnPackets
<1>4. live[m]
  BY <1>2 DEF Lifecycle, MediaPhase
<1>5. Up(m) /\ \A o \in Media : Up(o)' = Up(o)
  BY <1>2, <1>4 DEF Up, Playing
<1> DEFINE more == [i \in 1 .. k |-> [media |-> m, seq |-> (src[m] + i - 1) % Seqs]]
           given == [i \in 1 .. k |-> (src[m] + (i - 1)) % Seqs]
<1>6. more \in Seq(Own(m)) /\ Numbers(more) = given
  BY <1>3, StoredOwn, StoredNumbers
<1>7. buf' = [buf EXCEPT ![m] = buf[m] \o more]
  BY <1>1
<1>8. given = [i \in 1 .. k |-> (src[m] + (i - 1)) % Seqs]
  OBVIOUS
<1> HIDE DEF more, given
<1>9. InFlight(m)' = InFlight(m) \o given
  <2> DEFINE a == InHand(m) \o Of(m, mux) \o Of(m, item)
             b == Numbers(buf[m])
  <2>1. InFlight(m) = a \o b /\ b \in Seq(Seqnos) /\ a \in Seq(Seqnos)
    <3>1. /\ InHand(m) \in Seq(Seqnos) /\ Of(m, mux) \in Seq(Seqnos) /\ Of(m, item) \in Seq(Seqnos)
          /\ Numbers(buf[m]) \in Seq(Seqnos)
          /\ InFlight(m) = InHand(m) \o Of(m, mux) \o Of(m, item) \o Numbers(buf[m])
      BY InFlightType DEF StreamInv
    <3>2. QED
      BY <3>1
  <2>2. buf'[m] = buf[m] \o more
    BY <1>3, <1>7
  <2>3. Numbers(buf[m] \o more) = b \o given /\ given \in Seq(Seqnos)
    BY <1>3, <1>6, NumbersConcat, NumbersFacts
  <2>4. InFlight(m)' = a \o Numbers(buf[m] \o more)
    BY <1>2, <2>2 DEF InFlight, InHand
  <2> HIDE DEF a, b
  <2>5. (a \o b) \o given = a \o (b \o given)
    BY <2>1, <2>3, ConcatAssociates
  <2>6. QED
    BY <2>1, <2>3, <2>4, <2>5
<1>10. ASSUME NEW o \in Media, o # m PROVE InFlight(o)' = InFlight(o) /\ src'[o] = src[o]
  <2>1. src'[o] = src[o] /\ buf'[o] = buf[o]
    BY <1>1, <1>3, <1>10
  <2>2. InFlight(o)' = InFlight(o)
    BY <1>2, <2>1 DEF InFlight
  <2>3. QED
    BY <2>1, <2>2
<1>11. UpMap' = UpMap
  BY <1>5 DEF UpMap
<1>12. NextMap[m] = src[m]
  BY <1>5 DEF NextMap
<1>13. NextMap' = [NextMap EXCEPT ![m] = (@ + k) % Seqs]
  <2>1. src'[m] = (src[m] + k) % Seqs
    BY <1>1, <1>3
  <2>2. QED
    BY <1>5, <1>10, <2>1 DEF NextMap
<1>14. ChanMap' = [ChanMap EXCEPT ![m] = @ \o given]
  BY <1>5, <1>9, <1>10 DEF ChanMap
<1>15. GotMap' = GotMap
  BY <1>2, <1>5 DEF GotMap
<1>16. FatesNow' = FatesNow
  BY <1>2, FatesKeep
<1>17. given = [i \in 1 .. k |-> (NextMap[m] + (i - 1)) % Seqs]
  BY <1>8, <1>12
<1>18. QED
  BY <1>3, <1>5, <1>11, <1>13, <1>14, <1>15, <1>16, <1>17, GiveMap

(* Every step of a media.                                                  *)
LEMMA MediaMaps ==
  ASSUME TypeOK, Lifecycle, StreamInv, NEW m \in Media, MediaStep(m) PROVE S!Next
<1> USE DEF cmdVars, producerVars, consumerVars, observerVars
<1>1. CASE ~Playing
  <2>1. UNCHANGED playback_control
    BY MediaStepKeeps
  <2>2. QED
    BY <1>1, <2>1, NotPlaying
<1>2. CASE Playing /\ MediaOpen(m)
  BY <1>2, MediaOpenMaps
<1>3. CASE Playing /\ MediaStore(m)
  BY <1>3, MediaStoreMaps
<1>4. CASE MediaClose(m)
  <2>1. EndingInput
    BY <1>4 DEF MediaClose, Goto, Lifecycle, MediaPhase
  <2>2. ~Playing
    BY <2>1 DEF EndingInput, Playing
  <2>3. QED
    BY <1>1, <2>2
<1>5. CASE \/ MediaReady(m) \/ MediaWaiting(m) \/ MediaTest(m) \/ MediaFull(m)
           \/ MediaPaused(m) \/ MediaRead(m) \/ MediaSignal(m) \/ MediaFinish(m)
  <2>1. UNCHANGED <<live, src, buf>>
    BY <1>5 DEF MediaReady, MediaWaiting, MediaTest, MediaFull, MediaPaused, MediaRead, MediaSignal,
       MediaFinish
  <2>2. /\ UNCHANGED <<board, mux, item, dma>> /\ Playing' = Playing /\ Carries' = Carries
    BY MediaStepKeeps DEF Playing, Carries
  <2>3. QED
    BY <2>1, <2>2, Quiet
<1>6. QED
  BY <1>1, <1>2, <1>3, <1>4, <1>5 DEF MediaStep

(* read_one_packet moves a number along the channel.                       *)
LEMMA ProducerPacketMaps ==
  ASSUME TypeOK, OwnPackets, ProducerPacket, buf[pm] # <<>> PROVE S!Next
<1> USE DEF producerVars, consumerVars, cmdVars
<1>1. /\ buf' = [buf EXCEPT ![pm] = Tail(@)] /\ item' = Append(item, Head(buf[pm]))
      /\ UNCHANGED <<live, src, board, mux, dma, cpc, playback_control>>
  BY DEF ProducerPacket
<1>2. pm \in Media /\ DOMAIN buf = Media /\ buf[pm] \in Seq(Own(pm)) /\ item \in Seq(Packet)
  BY DEF TypeOK, MediaTypes, ProducerTypes, OwnPackets
<1>3. Head(buf[pm]) \in Own(pm) /\ Tail(buf[pm]) \in Seq(Own(pm))
  BY <1>2
<1>4. Head(buf[pm]) \in Packet /\ Head(buf[pm]).media = pm /\ Head(buf[pm]).seq \in Seqnos
  BY <1>2, <1>3 DEF Own, Packet, Seqnos
<1>5. ASSUME NEW m \in Media PROVE Up(m)' = Up(m)
  BY <1>1 DEF Up
<1>6. ASSUME NEW m \in Media, m # pm PROVE InFlight(m)' = InFlight(m)
  <2>1. buf'[m] = buf[m]
    BY <1>1, <1>2, <1>6
  <2>2. Of(m, item') = Of(m, item)
    BY <1>1, <1>2, <1>4, <1>6, OfAppend
  <2>3. QED
    BY <1>1, <2>1, <2>2 DEF InFlight
<1>7. ASSUME NEW m \in Media, m = pm PROVE InFlight(m)' = InFlight(m)
  <2> DEFINE x == InHand(m) \o Of(m, mux)
             y == Of(m, item)
             v == Head(buf[m]).seq
             w == <<v>>
             z == Numbers(Tail(buf[m]))
             u == Append(y, v)
  <2>1. /\ InHand(m) \in Seq(Seqnos) /\ Of(m, mux) \in Seq(Seqnos) /\ y \in Seq(Seqnos)
        /\ InFlight(m) = Cat(Cat(x, y), Numbers(buf[m]))
    BY <1>7, <1>2, InFlightType DEF Cat
  <2>2. x \in Seq(Seqnos)
    BY <2>1
  <2>3. Of(m, item') = u
    BY <1>7, <1>1, <1>2, <1>4, OfAppend
  <2>4. Numbers(buf[m]) = Cat(w, z)
    BY <1>7, <1>2, NumbersHead DEF Cat
  <2>5. buf'[m] = Tail(buf[m])
    BY <1>7, <1>1, <1>2
  <2>6. InFlight(m)' = Cat(Cat(x, u), z)
    BY <1>7, <1>1, <2>3, <2>5 DEF InFlight, InHand, Cat
  <2>7. z \in Seq(Seqnos)
    BY <1>7, <1>3, NumbersFacts
  <2>8. v \in Seqnos
    BY <1>7, <1>4
  <2>9. w \in Seq(Seqnos)
    BY <2>8, SingleType
  <2>10. u = Cat(y, w)
    BY <2>1, <2>8, AppendIsConcat
  <2> HIDE DEF x, y, v, w, z, u
  <2>11. Cat(Cat(x, Cat(y, w)), z) = Cat(Cat(x, y), Cat(w, z))
    BY <2>1, <2>2, <2>7, <2>9, PacketKeeps
  <2>12. QED
    BY <2>1, <2>4, <2>6, <2>10, <2>11
<1>8. QED
  BY <1>1, <1>5, <1>6, <1>7, SameChannels

(* Numbers move from the item to the multiplexed buffer.                   *)
LEMMA StoreKeeps ==
  ASSUME NEW a \in Seq(Seqnos), NEW b \in Seq(Seqnos), NEW c \in Seq(Seqnos), NEW d \in Seq(Seqnos)
  PROVE  a \o (b \o c) \o <<>> \o d = a \o b \o c \o d
<1>1. a \o (b \o c) \o <<>> = a \o b \o c
  OBVIOUS
<1>2. QED
  BY <1>1

(* BufferNItem of the producer stores the whole item: ItemFits.            *)
LEMMA ProducerStoreMaps ==
  ASSUME TypeOK, OwnPackets, ItemFits, ProducerStore PROVE S!Next
<1> USE DEF producerVars, consumerVars, cmdVars, mediaVars
<1>1. /\ mux' = mux \o SubSeq(item, 1, Least(MuxCap - Len(mux), Len(item))) /\ item' = <<>>
      /\ UNCHANGED <<live, src, board, buf, dma, cpc, playback_control>>
  BY DEF ProducerStore
<1>2. item \in Seq(Packet) /\ mux \in Seq(Packet)
  BY DEF TypeOK, ProducerTypes
<1>3. mux' = mux \o item
  <2>1. Len(mux) \in Nat /\ Len(item) \in Nat /\ MuxCap \in Nat /\ Len(mux) + Len(item) <= MuxCap
    BY <1>2, PlaybackAssumption DEF ProducerStore, ItemFits
  <2>2. Least(MuxCap - Len(mux), Len(item)) = Len(item)
    BY <2>1 DEF Least
  <2>3. SubSeq(item, 1, Len(item)) = item
    BY <1>2, ConcatFacts
  <2>4. QED
    BY <1>1, <2>2, <2>3
<1>4. ASSUME NEW m \in Media PROVE Up(m)' = Up(m)
  BY <1>1 DEF Up
<1>5. ASSUME NEW m \in Media PROVE InFlight(m)' = InFlight(m)
  <2> DEFINE a == InHand(m)
             b == Of(m, mux)
             c == Of(m, item)
             d == Numbers(buf[m])
  <2>1. /\ a \in Seq(Seqnos) /\ b \in Seq(Seqnos) /\ c \in Seq(Seqnos) /\ d \in Seq(Seqnos)
        /\ InFlight(m) = a \o b \o c \o d
    BY InFlightType
  <2>2. Of(m, mux') = b \o c
    BY <1>2, <1>3, OfConcat
  <2>3. Of(m, item') = <<>>
    BY <1>1, OfEmpty
  <2>4. InFlight(m)' = a \o (b \o c) \o <<>> \o d
    BY <1>1, <2>2, <2>3 DEF InFlight, InHand
  <2> HIDE DEF a, b, c, d
  <2>5. a \o (b \o c) \o <<>> \o d = a \o b \o c \o d
    BY <2>1, StoreKeeps
  <2>6. QED
    BY <2>1, <2>4, <2>5
<1>6. QED
  BY <1>1, <1>4, <1>5, SameChannels

(* Every step of the producer: an item is dropped only by a session that   *)
(* ends.                                                                   *)
LEMMA ProducerMaps ==
  ASSUME TypeOK, StreamInv, ItemFits, ProducerStep PROVE S!Next
<1> USE DEF cmdVars, mediaVars, producerVars, consumerVars, observerVars
<1>1. CASE ProducerPacket /\ buf[pm] # <<>>
  BY <1>1, ProducerPacketMaps DEF StreamInv
<1>2. CASE ProducerStore
  BY <1>2, ProducerStoreMaps DEF StreamInv
<1>3. CASE ProducerFinish /\ item # <<>>
  <2>1. Ending /\ UNCHANGED playback_control
    BY <1>3 DEF ProducerFinish, StreamInv, NoItemYet
  <2>2. ~Playing
    BY <2>1 DEF Ending, Playing
  <2>3. QED
    BY <2>1, <2>2, NotPlaying
<1>4. CASE ProducerFinish /\ item = <<>>
  <2>1. UNCHANGED <<live, src, board, mux, item, buf, dma, playback_control, cpc>>
    BY <1>4 DEF ProducerFinish
  <2>2. QED
    BY <2>1, Quiet DEF Playing, Carries
<1>5. CASE ProducerSignal
  <2>1. UNCHANGED <<live, src, board, mux, item, buf, dma, playback_control>>
    BY <1>5 DEF ProducerSignal
  <2>2. Carries' = Carries
    BY <1>5 DEF ProducerSignal, ConsumerAfterOut, Carries
  <2>3. QED
    BY <2>1, <2>2, Quiet DEF Playing
<1>6. CASE \/ ProducerBuffering \/ ProducerScan \/ ProducerOpen \/ ProducerWaiting \/ ProducerTest
           \/ ProducerCheck \/ ProducerGather \/ ProducerRecheck
           \/ (ProducerPacket /\ buf[pm] = <<>>)
  <2>1. UNCHANGED <<live, src, board, mux, item, buf, dma, playback_control, cpc>>
    BY <1>6 DEF ProducerBuffering, ProducerScan, ProducerOpen, ProducerWaiting, ProducerTest,
       ProducerCheck, ProducerGather, ProducerRecheck, ProducerPacket, ProducerMove
  <2>2. QED
    BY <2>1, Quiet DEF Playing, Carries
<1>7. QED
  BY <1>1, <1>2, <1>3, <1>4, <1>5, <1>6 DEF ProducerStep

(* What follows the block in hand.                                         *)
Behind(m) == Cat(Cat(Of(m, mux), Of(m, item)), Numbers(buf[m]))

(* The block in hand is the head of the channel.                           *)
LEMMA HeadApart ==
  ASSUME NEW a \in Seq(Seqnos), NEW b \in Seq(Seqnos), NEW c \in Seq(Seqnos), NEW d \in Seq(Seqnos)
  PROVE  Cat(Cat(Cat(a, b), c), d) = Cat(a, Cat(Cat(b, c), d))
<1>1. Cat(Cat(a, b), c) = Cat(a, Cat(b, c)) /\ Cat(b, c) \in Seq(Seqnos)
  BY CatAssociates, CatType
<1>2. Cat(Cat(a, Cat(b, c)), d) = Cat(a, Cat(Cat(b, c), d))
  BY <1>1, CatAssociates
<1>3. QED
  BY <1>1, <1>2

(* So is the channel of a media.                                           *)
LEMMA InFlightSplit ==
  ASSUME TypeOK, OwnPackets, NEW m \in Media
  PROVE  /\ InHand(m) \in Seq(Seqnos) /\ Behind(m) \in Seq(Seqnos)
         /\ InFlight(m) = Cat(InHand(m), Behind(m))
<1>1. /\ InHand(m) \in Seq(Seqnos) /\ Of(m, mux) \in Seq(Seqnos) /\ Of(m, item) \in Seq(Seqnos)
      /\ Numbers(buf[m]) \in Seq(Seqnos)
      /\ InFlight(m) = Cat(Cat(Cat(InHand(m), Of(m, mux)), Of(m, item)), Numbers(buf[m]))
  BY InFlightType DEF Cat
<1>2. Behind(m) \in Seq(Seqnos)
  BY <1>1, CatType DEF Behind
<1>3. InFlight(m) = Cat(InHand(m), Behind(m))
  BY <1>1, HeadApart DEF Behind
<1>4. QED
  BY <1>1, <1>2, <1>3

(* What joining gives, in its folded form.                                 *)
LEMMA CatFacts ==
  ASSUME NEW a \in Seq(Seqnos), NEW b \in Seq(Seqnos)
  PROVE  /\ Cat(<<>>, b) = b /\ Len(a) <= Len(Cat(a, b)) /\ Len(a) \in Nat
         /\ SubSeq(Cat(a, b), Len(a) + 1, Len(Cat(a, b))) = b
<1>1. Len(a) <= Len(a \o b) /\ Len(a) \in Nat /\ <<>> \o b = b
  OBVIOUS
<1>2. SubSeq(a \o b, Len(a) + 1, Len(a \o b)) = b
  BY ConcatFacts
<1>3. QED
  BY <1>1, <1>2 DEF Cat

(* The places of a sequence.                                               *)
LEMMA IntervalSize ==
  ASSUME NEW k \in Nat PROVE IsFiniteSet(1 .. k) /\ Cardinality(1 .. k) = k
<1>1. /\ IsFiniteSet(1 .. k)
      /\ Cardinality(1 .. k) = IF 1 > k THEN 0 ELSE k - 1 + 1
  BY FS_Interval
<1>2. QED
  BY <1>1

(* No more packets of a media than packets.                                *)
LEMMA CountBound ==
  ASSUME NEW m, NEW s \in Seq(Packet)
  PROVE  Count(m, s) \in 0 .. Len(s)
<1> DEFINE I == {i \in DOMAIN s : s[i].media = m}
<1>1. I \subseteq 1 .. Len(s) /\ Len(s) \in Nat
  OBVIOUS
<1>2. IsFiniteSet(1 .. Len(s)) /\ Cardinality(1 .. Len(s)) = Len(s)
  BY <1>1, IntervalSize
<1>3. IsFiniteSet(I) /\ Cardinality(I) <= Len(s)
  BY <1>1, <1>2, FS_Subset
<1>4. Cardinality(I) \in Nat
  BY <1>3, FS_CardinalityType
<1>5. Count(m, s) = Cardinality(I)
  BY DEF Count
<1> HIDE DEF I
<1>6. QED
  BY <1>1, <1>3, <1>4, <1>5

(* The output leaves consume_item with the block in hand.                  *)
LEMMA BlockMaps ==
  ASSUME TypeOK, OwnPackets, Carries, ~Carries', UNCHANGED <<live, src, mux, item, buf, cmdVars>>,
         NEW fate \in FatesNow,
         board' = IF fate = "taken" THEN [m \in Media |-> (board[m] + Count(m, dma)) % Seqs] ELSE board
  PROVE  S!Next
<1> DEFINE n == [m \in Media |-> IF Up(m) THEN Count(m, dma) ELSE 0]
<1>1. ASSUME NEW m \in Media PROVE Up(m)' = Up(m)
  BY DEF Up, cmdVars
<1>2. UpMap' = UpMap
  BY <1>1 DEF UpMap
<1>3. NextMap' = NextMap
  BY <1>1 DEF NextMap
<1>4. FatesNow' = FatesNow
  BY FatesKeep
<1>5. dma \in Seq(Packet) /\ Len(dma) \in 0 .. BlockUnits /\ BlockUnits \in Nat
  <2>1. dma \in Seq(Packet) /\ Len(dma) <= BlockUnits
    BY DEF TypeOK, ConsumerTypes
  <2>2. QED
    BY <2>1, PlaybackAssumption
<1>6. ASSUME NEW m \in Media PROVE n[m] \in 0 .. BlockUnits
  <2>1. Count(m, dma) \in 0 .. BlockUnits
    BY <1>5, CountBound
  <2>2. QED
    BY <1>5, <2>1
<1>7. ASSUME NEW m \in Media
      PROVE  /\ n[m] <= Len(ChanMap[m])
             /\ (IF Up(m) THEN InFlight(m) ELSE <<>>)' = SubSeq(ChanMap[m], n[m] + 1, Len(ChanMap[m]))
  <2>1. CASE Up(m)
    <3>1. /\ InHand(m) \in Seq(Seqnos) /\ Behind(m) \in Seq(Seqnos)
          /\ InFlight(m) = Cat(InHand(m), Behind(m))
      BY InFlightSplit
    <3>2. n[m] = Len(InHand(m))
      BY <2>1, <1>5, OfLength DEF InHand, Carries
    <3>3. ChanMap[m] = Cat(InHand(m), Behind(m))
      BY <2>1, <3>1 DEF ChanMap
    <3>4. InFlight(m)' = Behind(m)
      <4>1. InFlight(m)' = Cat(Cat(Cat(<<>>, Of(m, mux)), Of(m, item)), Numbers(buf[m]))
        BY DEF InFlight, Carries, Cat
      <4>2. Cat(<<>>, Of(m, mux)) = Of(m, mux)
        BY InFlightType, CatFacts
      <4>3. QED
        BY <4>1, <4>2 DEF Behind
    <3>5. /\ Len(InHand(m)) <= Len(ChanMap[m])
          /\ SubSeq(ChanMap[m], Len(InHand(m)) + 1, Len(ChanMap[m])) = Behind(m)
      BY <3>1, <3>3, CatFacts
    <3>6. QED
      BY <1>1, <2>1, <3>2, <3>4, <3>5
  <2>2. CASE ~Up(m)
    <3>1. n[m] = 0 /\ ChanMap[m] = <<>>
      BY <2>2 DEF ChanMap
    <3>2. Len(<<>>) = 0 /\ SubSeq(<<>>, 0 + 1, 0) = <<>>
      OBVIOUS
    <3> HIDE DEF n
    <3>3. QED
      BY <1>1, <2>2, <3>1, <3>2
  <2>3. QED
    BY <2>1, <2>2
<1>8. ChanMap' = [m \in Media |-> SubSeq(ChanMap[m], n[m] + 1, Len(ChanMap[m]))]
  <2> HIDE DEF n
  <2>1. ChanMap' = [m \in Media |-> (IF Up(m) THEN InFlight(m) ELSE <<>>)']
    BY DEF ChanMap
  <2>2. QED
    BY <1>7, <2>1
<1>9. GotMap' = IF fate = "taken" THEN [m \in Media |-> (GotMap[m] + n[m]) % Seqs] ELSE GotMap
  <2>1. CASE fate # "taken"
    BY <1>1, <2>1 DEF GotMap
  <2>2. CASE fate = "taken"
    <3>1. ASSUME NEW m \in Media
          PROVE  (IF Up(m) THEN board[m] ELSE 0)' = (GotMap[m] + n[m]) % Seqs
      <4>1. CASE Up(m)
        BY <1>1, <2>2, <4>1 DEF GotMap
      <4>2. CASE ~Up(m)
        <5>1. GotMap[m] = 0 /\ n[m] = 0
          BY <4>2 DEF GotMap
        <5>2. (0 + 0) % Seqs = 0
          BY PlaybackAssumption
        <5>3. QED
          BY <1>1, <4>2, <5>1, <5>2
      <4>3. QED
        BY <4>1, <4>2
    <3>2. GotMap' = [m \in Media |-> (IF Up(m) THEN board[m] ELSE 0)']
      BY DEF GotMap
    <3> HIDE DEF n
    <3>3. QED
      BY <2>2, <3>1, <3>2
  <2>3. QED
    BY <2>1, <2>2
<1>10. n \in [Media -> 0 .. BlockUnits]
  BY <1>6
<1> HIDE DEF n
<1>11. QED
  BY <1>2, <1>3, <1>4, <1>7, <1>8, <1>9, <1>10, BlockMap

(* read_n_byte takes a block from the multiplexed buffer.                  *)
LEMMA ConsumerLockMaps ==
  ASSUME TypeOK, OwnPackets, ConsumerLock, Len(mux) >= BlockUnits PROVE S!Next
<1> USE DEF cmdVars, mediaVars, producerVars, consumerVars, observerVars
<1>1. /\ ~Carries /\ Carries' /\ dma' = SubSeq(mux, 1, BlockUnits)
      /\ mux' = SubSeq(mux, BlockUnits + 1, Len(mux))
      /\ UNCHANGED <<live, src, board, item, buf, playback_control>>
  <2>1. ~(Len(mux) < BlockUnits)
    BY PlaybackAssumption DEF TypeOK, ProducerTypes
  <2>2. QED
    BY <2>1 DEF ConsumerLock, Carries
<1>2. mux \in Seq(Packet) /\ BlockUnits \in 0 .. Len(mux)
  BY PlaybackAssumption DEF TypeOK, ProducerTypes
<1>3. dma' \in Seq(Packet) /\ mux' \in Seq(Packet) /\ dma' \o mux' = mux
  <2>1. SubSeq(mux, 1, BlockUnits) \o SubSeq(mux, BlockUnits + 1, Len(mux)) = mux
    BY <1>2, CutConcat
  <2>2. BlockUnits \in Nat /\ BlockUnits <= Len(mux)
    BY <1>2
  <2>3. SubSeq(mux, 1, BlockUnits) \in Seq(Packet) /\ SubSeq(mux, BlockUnits + 1, Len(mux)) \in Seq(Packet)
    BY <1>2, <2>2
  <2>4. QED
    BY <1>1, <2>1, <2>3
<1>4. ASSUME NEW m \in Media PROVE Up(m)' = Up(m)
  BY <1>1 DEF Up
<1>5. ASSUME NEW m \in Media PROVE InFlight(m)' = InFlight(m)
  <2> DEFINE a == Of(m, dma')
             b == Of(m, mux')
             c == Of(m, item)
             d == Numbers(buf[m])
  <2>1. Of(m, mux) = Cat(a, b)
    BY <1>3, OfConcat DEF Cat
  <2>2. InFlight(m)' = Cat(Cat(Cat(a, b), c), d)
    BY <1>1 DEF InFlight, Carries, Cat
  <2>3. InFlight(m) = Cat(Cat(Cat(<<>>, Of(m, mux)), c), d)
    BY <1>1 DEF InFlight, Carries, Cat
  <2>4. Cat(<<>>, Of(m, mux)) = Of(m, mux)
    BY InFlightType, CatFacts
  <2> HIDE DEF a, b, c, d
  <2>5. QED
    BY <2>1, <2>2, <2>3, <2>4
<1>6. QED
  BY <1>1, <1>4, <1>5, SameChannels

(* A block is given up or refused only when Stream's fates allow it.       *)
LEMMA RefusedFate ==
  ASSUME TypeOK, Asked \/ finish_asi = 1 PROVE "refused" \in FatesNow
  BY DEF FatesNow

(* A refused block is dropped: Block with the fate "refused".              *)
LEMMA ConsumerBlockMaps ==
  ASSUME TypeOK, OwnPackets, ConsumerBlock PROVE S!Next
<1> USE DEF cmdVars, mediaVars, producerVars, consumerVars, observerVars
<1>1. UNCHANGED <<live, src, board, mux, item, buf, dma, playback_control, cmdVars>> /\ Carries
  BY DEF ConsumerBlock, ConsumerMove, Carries
<1>2. CASE cpc' \in {"put", "room"}
  <2>1. Carries' = Carries
    BY <1>1, <1>2 DEF Carries
  <2>2. QED
    BY <1>1, <2>1, Quiet DEF Playing
<1>3. CASE cpc' = "loop" /\ ~Playing
  BY <1>1, <1>3, NotPlaying
<1>4. CASE cpc' = "loop" /\ Playing
  <2>1. WriteRefused /\ ~Carries'
    BY <1>4 DEF ConsumerBlock, ConsumerMove, Carries
  <2>2. finish_asi = 1
    BY <1>4, <2>1 DEF WriteRefused, OutputEnding, Playing
  <2>3. PICK fate \in FatesNow : fate = "refused"
    BY <2>2, RefusedFate
  <2>4. QED
    BY <1>1, <2>1, <2>3, BlockMaps
<1>5. QED
  BY <1>2, <1>3, <1>4 DEF ConsumerBlock, ConsumerMove

(* A block given up while the user asks for something, too.                *)
LEMMA ConsumerRoomMaps ==
  ASSUME TypeOK, OwnPackets, ConsumerRoom PROVE S!Next
<1> USE DEF cmdVars, mediaVars, producerVars, consumerVars, observerVars
<1>1. /\ UNCHANGED <<live, src, board, mux, item, buf, cmdVars>> /\ Carries /\ ~Carries' /\ Asked
  BY DEF ConsumerRoom, ConsumerMove, Carries
<1>2. PICK fate \in FatesNow : fate = "refused"
  BY <1>1, RefusedFate
<1>3. QED
  BY <1>1, <1>2, BlockMaps

(* A block is taken or refused by the board.                               *)
LEMMA ConsumerWriteMaps ==
  ASSUME TypeOK, OwnPackets, ConsumerWrite PROVE S!Next
<1> USE DEF cmdVars, mediaVars, producerVars, consumerVars, observerVars
<1>1. UNCHANGED <<live, src, mux, item, buf, playback_control, cmdVars>> /\ Carries /\ ~Carries'
  BY DEF ConsumerWrite, Carries
<1>2. CASE ~Playing
  BY <1>1, <1>2, NotPlaying
<1>3. CASE WriteRefused /\ Playing
  <2>1. finish_asi = 1 /\ board' = board
    BY <1>3 DEF WriteRefused, OutputEnding, Playing, ConsumerWrite
  <2>2. PICK fate \in FatesNow : fate = "refused"
    BY <2>1, RefusedFate
  <2>3. QED
    BY <1>1, <2>1, <2>2, BlockMaps
<1>4. CASE ~WriteRefused
  <2>1. board' = [m \in Media |-> (board[m] + Count(m, dma)) % Seqs]
    BY <1>4 DEF ConsumerWrite
  <2>2. PICK fate \in FatesNow : fate = "taken"
    BY <1>4 DEF WriteRefused, FatesNow
  <2>3. QED
    BY <1>1, <2>1, <2>2, BlockMaps
<1>5. QED
  BY <1>2, <1>3, <1>4

(* Every step of the output and of the board.                              *)
LEMMA ConsumerMaps ==
  ASSUME TypeOK, OwnPackets, ConsumerStep \/ BoardStep PROVE S!Next
<1> USE DEF cmdVars, mediaVars, producerVars, consumerVars, observerVars
<1>1. CASE ConsumerLock /\ Len(mux) >= BlockUnits
  BY <1>1, ConsumerLockMaps
<1>2. CASE ConsumerLock /\ ~(Len(mux) >= BlockUnits)
  <2>1. Len(mux) < BlockUnits
    BY <1>2, PlaybackAssumption DEF TypeOK, ProducerTypes
  <2>2. /\ UNCHANGED <<live, src, board, mux, item, buf, dma, playback_control>>
        /\ Carries' = Carries
    BY <1>2, <2>1 DEF ConsumerLock, Carries
  <2>3. QED
    BY <2>2, Quiet DEF Playing
<1>3. CASE ConsumerBlock
  BY <1>3, ConsumerBlockMaps
<1>4. CASE ConsumerRoom
  BY <1>4, ConsumerRoomMaps
<1>5. CASE ConsumerWrite
  BY <1>5, ConsumerWriteMaps
<1>6. CASE ConsumerRead /\ OutputEnding
  <2>1. UNCHANGED playback_control /\ ~Playing
    BY <1>6 DEF ConsumerRead, ConsumerMove, OutputEnding, Playing
  <2>2. QED
    BY <2>1, NotPlaying
<1>7. CASE \/ ConsumerMultiplexing \/ ConsumerAwait \/ ConsumerLoop \/ (ConsumerRead /\ ~OutputEnding)
           \/ ConsumerDma \/ ConsumerFinish \/ BoardDma
  <2>1. UNCHANGED <<live, src, board, mux, item, buf, dma, playback_control>>
    BY <1>7 DEF ConsumerMultiplexing, ConsumerAwait, ConsumerLoop, ConsumerRead, ConsumerDma,
       ConsumerFinish, ConsumerMove, BoardDma
  <2>2. ~Carries /\ ~Carries'
    BY <1>7 DEF ConsumerMultiplexing, ConsumerAwait, ConsumerLoop, ConsumerRead, ConsumerDma,
       ConsumerFinish, ConsumerMove, BoardDma, Carries
  <2>3. QED
    BY <2>1, <2>2, Quiet DEF Playing, Carries
<1>8. CASE BoardRoom
  <2>1. /\ UNCHANGED <<live, src, board, mux, item, buf, dma, playback_control>>
        /\ Carries' = Carries
    BY <1>8 DEF BoardRoom, ConsumerMove, Carries
  <2>2. QED
    BY <2>1, Quiet DEF Playing
<1>9. QED
  BY <1>1, <1>2, <1>3, <1>4, <1>5, <1>6, <1>7, <1>8 DEF ConsumerStep, BoardStep

(* The observer and the spurious wakeups are not seen.                     *)
LEMMA OtherMaps ==
  ASSUME ObserverStep \/ SpuriousWakeup PROVE S!Next
<1> USE DEF cmdVars, mediaVars, producerVars, consumerVars, observerVars
<1>1. UNCHANGED <<live, src, board, mux, item, buf, dma, playback_control>>
  BY DEF ObserverStep, ObserverReceive, ObserverFinish, SpuriousWakeup, ProducerMove, ConsumerMove
<1>2. Carries' = Carries
  BY DEF ObserverStep, ObserverReceive, ObserverFinish, SpuriousWakeup, ProducerMove, ConsumerMove, Carries
<1>3. QED
  BY <1>1, <1>2, Quiet DEF Playing

(* A library that was never called streams nothing.                        *)
LEMMA StreamInit ==
  ASSUME Init PROVE S!Init
<1>1. ASSUME NEW m \in Media PROVE Up(m) = FALSE
  BY DEF Init, Up
<1>2. UpMap = [m \in Media |-> FALSE]
  BY <1>1 DEF UpMap
<1>3. NextMap = [m \in Media |-> 0] /\ GotMap = [m \in Media |-> 0]
  BY <1>1 DEF NextMap, GotMap
<1>4. ChanMap = [m \in Media |-> <<>>]
  BY <1>1 DEF ChanMap
<1>5. FatesNow \in FateSet
  BY FatesType
<1>6. QED
  BY <1>2, <1>3, <1>4, <1>5 DEF S!Init, S!Fates, FateSet, UpMap, NextMap, ChanMap, GotMap, FatesNow

(* Every step of a session is a step of Stream, or none.                   *)
LEMMA StreamStep ==
  ASSUME TypeOK, Lifecycle, ItemFits, StreamInv, [Next]_vars PROVE [S!Next]_S!vars
<1>1. CASE Next
  <2>1. OwnPackets
    BY DEF StreamInv
  <2>2. S!Next
    BY <1>1, <2>1, RequestMaps, CommandMaps, MediaMaps, ProducerMaps, ConsumerMaps, OtherMaps DEF Next
  <2>3. QED
    BY <2>2
<1>2. CASE UNCHANGED vars
  <2>1. /\ UNCHANGED <<live, src, board, mux, item, buf, dma>>
        /\ Playing' = Playing /\ Carries' = Carries
    BY <1>2 DEF vars, cmdVars, mediaVars, producerVars, consumerVars, Playing, Carries
  <2>2. QED
    BY <2>1, Quiet
<1>3. QED
  BY <1>1, <1>2

(* A session implements Stream: the board gets the packets of each media   *)
(* in the order the media read them, none twice and none of an earlier     *)
(* session; none is lost but with a block that is given up while the user  *)
(* asks for something or refused after SetFinishAsi.                       *)
THEOREM StreamCorrect == Spec => StreamSpec
<1>1. Init => S!Init
  BY StreamInit
<1>2. TypeOK /\ Lifecycle /\ ItemFits /\ StreamInv /\ [Next]_vars => [S!Next]_S!vars
  BY StreamStep
<1>3. Spec => []TypeOK /\ []Lifecycle /\ []ItemFits /\ []StreamInv
  BY TypeCorrect, LifecycleCorrect, ItemFitsCorrect, StreamInvCorrect
<1>4. QED
  BY <1>1, <1>2, <1>3, PTL DEF Spec, StreamSpec, S!Spec
=============================================================================
