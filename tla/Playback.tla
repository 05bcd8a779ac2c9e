------------------------------ MODULE Playback ------------------------------
(***************************************************************************)
(* CHldPlayback and its threads (hld/corelib): the command thread that     *)
(* runs playback_receive_request, one receiving thread per media, the      *)
(* multiplexer (producer), the output (consumer) and the observer.  They   *)
(* share one control word that only the command thread writes, a circular  *)
(* buffer per media and one multiplexed buffer, each with a mutex and two  *)
(* condition variables.                                                    *)
(*                                                                         *)
(* A packet is one unit of every buffer.  A thread asleep on a condition   *)
(* variable is at a "wait" program counter; a signal moves it on and is    *)
(* lost when nobody sleeps.  A critical section is one step, except the    *)
(* one in which a media tests its buffer and then sleeps: stop() signals   *)
(* without the mutex, so it can fall between the two.                      *)
(***************************************************************************)
EXTENDS Integers, Sequences, FiniteSets

CONSTANTS
  Media,       (* the media interfaces of a session                           *)
  IpMedia,     (* those that are CTLVBuffer: read_data sleeps after storing   *)
  LoopFiles,   (* those that are CTLVFile: a rewind is told to the observer   *)
  InCap,       (* packets in a cir_input_ts_buffer                            *)
  ItemUnits,   (* packets produce_item gathers before it stores them          *)
  BlockUnits,  (* MULTIPLEXER_BUFF_ITEM_SIZE: what the output reads at once   *)
  MuxCap,      (* MULTIPLEXER_BUFF_SIZE                                       *)
  QueueCap,    (* messages in the observer's queue (10000 in the code)        *)
  Seqs,        (* packets of a media are numbered modulo Seqs                 *)
  Callers      (* the callers of playback_receive_request: DOMAIN Calls       *)

ASSUME PlaybackAssumption ==
  /\ Media # {} /\ IpMedia \subseteq Media /\ LoopFiles \subseteq Media \ IpMedia
  /\ InCap \in Nat \ {0} /\ ItemUnits \in Nat \ {0} /\ QueueCap \in Nat \ {0}
  /\ BlockUnits \in Nat /\ BlockUnits >= ItemUnits
  /\ MuxCap \in Nat /\ MuxCap >= 2 * BlockUnits
  /\ Seqs \in Nat \ {0}
  /\ Callers \subseteq {"start_play", "start_mon", "pause", "resume"}

PLAYBACK_CONTROL_NONE == 0
PLAYBACK_CONTROL_END_INPUT == 1
PLAYBACK_CONTROL_END_MULTIPLEXER == 2
MUT_EndOutput == 1                              \* mutant: END_OUTPUT is END_INPUT
PLAYBACK_CONTROL_END_OUTPUT == 2
PLAYBACK_CONTROL_PAUSE == 3

Controls == {PLAYBACK_CONTROL_NONE, PLAYBACK_CONTROL_END_INPUT, PLAYBACK_CONTROL_PAUSE,
             PLAYBACK_CONTROL_END_MULTIPLEXER, PLAYBACK_CONTROL_END_OUTPUT}

VARIABLES
  playback_state, playback_control,  (* the two words of CHldPlayback             *)
  finish_asi,                        (* SetFinishAsi: the board takes no block    *)
  script, cmd, todo,    (* requests to come, place in play()/stop(), medias left  *)
  media_state, mpc,     (* thread_media_receiving_data[m].thread_state, its place *)
  live, buf,            (* cir_input_ts_buffer of m: allocated, its packets       *)
  src, room,            (* next number the source of m gives, max_num_byte        *)
  producer_state, ppc,  (* thread_producer                                        *)
  pm, item, mux,        (* media being read, t2mi_ts_buff, multiplexed buffer     *)
  consumer_state, cpc,  (* thread_consumer                                        *)
  dma, board,           (* dma_buffer, next number the board expects of m         *)
  observer_state, opc,  (* thread_observer                                        *)
  queue, queue_live     (* its message queue, between tlv_mq_init and _destroy    *)

cmdVars      == <<playback_state, playback_control, finish_asi, script, cmd, todo>>
mediaVars    == <<media_state, mpc, live, buf, src, room>>
producerVars == <<producer_state, ppc, pm, item, mux>>
consumerVars == <<consumer_state, cpc, dma, board>>
observerVars == <<observer_state, opc, queue, queue_live>>
vars == <<cmdVars, mediaVars, producerVars, consumerVars, observerVars>>

ThreadState == {"READING_INPUT", "READY", "FINISH"}
Packet == [media : Media, seq : 0 .. Seqs - 1]
Requests == {"INIT", "PLAY", "PAUSE", "RESUME", "STOP", "QUIT"}
Steps == Requests \cup {"TAKE", "FINISH_ASI_0", "FINISH_ASI_1"}
Messages == {"START_STREAMING", "STOP_STREAMING", "EXIT"}

MUT_Calls == [start_play |-> <<"TAKE", "FINISH_ASI_0", "INIT", "PLAY">>,   \* mutant: no STOP
              start_mon  |-> <<"TAKE", "FINISH_ASI_1", "QUIT">>,
              pause      |-> <<"PAUSE">>,
              resume     |-> <<"RESUME">>]

(* What each caller does: the user's request stands until the main task    *)
(* takes it (TAKE), then HLD_TH_START_PLAY or HLD_TH_START_MON runs.  The  *)
(* last two are messages of hldplay.h a user of the library may send.      *)
Calls == [start_play |-> <<"TAKE", "FINISH_ASI_0", "INIT", "PLAY">>,
          start_mon  |-> <<"TAKE", "FINISH_ASI_1", "STOP", "QUIT">>,
          pause      |-> <<"PAUSE">>,
          resume     |-> <<"RESUME">>]

Least(a, b) == IF a < b THEN a ELSE b

Init ==
  /\ playback_state = "NONE" /\ playback_control = PLAYBACK_CONTROL_NONE
  /\ finish_asi = 0 /\ script = <<>> /\ cmd = "idle" /\ todo = {}
  /\ media_state = [m \in Media |-> "FINISH"]   \* no thread: no state is read
  /\ mpc = [m \in Media |-> "off"] /\ live = [m \in Media |-> FALSE]
  /\ buf = [m \in Media |-> <<>>] /\ src = [m \in Media |-> 0]
  /\ room = [m \in Media |-> 0]
  /\ producer_state = "FINISH" /\ ppc = "off"
  /\ pm \in Media /\ item = <<>> /\ mux = <<>>
  /\ consumer_state = "FINISH" /\ cpc = "off"
  /\ dma = <<>> /\ board = [m \in Media |-> 0]
  /\ observer_state = "FINISH" /\ opc = "off" /\ queue = <<>> /\ queue_live = FALSE

-----------------------------------------------------------------------------
(* tlv_cond_signal: each condition variable has one possible sleeper.      *)

MUT_ProducerAfterOut(m) == ppc                  \* mutant: cv_cir_out never signalled
MUT_ProducerAfterIn == ppc                      \* mutant: cv_multiplexed_data_in, never

MediaAfterIn(m)    == [mpc EXCEPT ![m] = IF @ = "wait" THEN "loop" ELSE @]
ProducerAfterOut(m) == IF ppc = "wait_out" /\ pm = m THEN "recheck" ELSE ppc
ProducerAfterIn    == IF ppc = "wait_mux" THEN "loop" ELSE ppc
ConsumerAfterOut   == IF cpc = "wait_mux" THEN "read" ELSE cpc

MUT_Sent(q, message) == Append(q, message)      \* mutant: no test for a full queue

(* tlv_mq_send: BufferItem drops the message when the queue is full.       *)
Sent(q, message) == IF Len(q) < QueueCap THEN Append(q, message) ELSE q

-----------------------------------------------------------------------------
(* playback_receive_request, one action per message.                       *)

Call(c) ==
  /\ cmd = "idle" /\ script = <<>>
  /\ script' = Calls[c]
  /\ UNCHANGED <<playback_state, playback_control, finish_asi, cmd, todo, mediaVars,
                 producerVars, consumerVars, observerVars>>

Pending(step) == script # <<>> /\ Head(script) = step

Dispatch(step) == cmd = "idle" /\ Pending(step) /\ script' = Tail(script)

(* ReqedNewAction_User, until ResetAllReqedState_User.                     *)
Asked == Pending("TAKE")

Take ==
  /\ Dispatch("TAKE")
  /\ UNCHANGED <<playback_state, playback_control, finish_asi, cmd, todo, mediaVars,
                 producerVars, consumerVars, observerVars>>

SetFinishAsi(v) ==
  /\ Dispatch(IF v = 1 THEN "FINISH_ASI_1" ELSE "FINISH_ASI_0")
  /\ finish_asi' = v
  /\ UNCHANGED <<playback_state, playback_control, cmd, todo, mediaVars, producerVars,
                 consumerVars, observerVars>>

init ==
  /\ Dispatch("INIT") /\ playback_state = "NONE"
  /\ playback_state' = "INIT" /\ mux' = <<>>
  /\ UNCHANGED <<playback_control, finish_asi, cmd, todo, mediaVars, producer_state, ppc,
                 pm, item, consumerVars, observerVars>>

quit ==
  /\ Dispatch("QUIT") /\ playback_state = "INIT"
  /\ playback_state' = "NONE" /\ mux' = <<>>
  /\ UNCHANGED <<playback_control, finish_asi, cmd, todo, mediaVars, producer_state, ppc,
                 pm, item, consumerVars, observerVars>>

pause ==
  /\ Dispatch("PAUSE") /\ playback_state = "PLAY"
  /\ playback_state' = "PAUSE" /\ playback_control' = PLAYBACK_CONTROL_PAUSE
  /\ UNCHANGED <<finish_asi, cmd, todo, mediaVars, producerVars, consumerVars, observerVars>>

resume ==
  /\ Dispatch("RESUME") /\ playback_state = "PAUSE"
  /\ playback_control' = PLAYBACK_CONTROL_NONE /\ playback_state' = "PLAY"
  /\ UNCHANGED <<finish_asi, cmd, todo, mediaVars, producerVars, consumerVars, observerVars>>

(* The state has a handler for the request.  PAUSE dispatches STOP too,    *)
(* but stop() returns at once unless the state is PLAY.                    *)
Handled(state) ==
  CASE state = "NONE"  -> {"INIT"}
    [] state = "INIT"  -> {"PLAY", "QUIT"}
    [] state = "PLAY"  -> {"STOP", "PAUSE"}
    [] state = "PAUSE" -> {"RESUME"}

Ignored ==
  /\ \E request \in Requests \ Handled(playback_state) : Dispatch(request)
  /\ UNCHANGED <<playback_state, playback_control, finish_asi, cmd, todo, mediaVars,
                 producerVars, consumerVars, observerVars>>

-----------------------------------------------------------------------------
(* play(): the observer first, then the medias, the producer, the consumer.*)

play ==
  /\ Dispatch("PLAY") /\ playback_state = "INIT"
  /\ playback_control' = PLAYBACK_CONTROL_NONE
  /\ mux' = <<>>
  /\ queue' = <<>> /\ queue_live' = TRUE
  /\ observer_state' = "READING_INPUT" /\ opc' = "receive"
  /\ cmd' = "create_media" /\ todo' = Media
  /\ UNCHANGED <<playback_state, finish_asi, mediaVars, producer_state, ppc, pm, item,
                 consumerVars>>

CreateMedia(m) ==
  /\ cmd = "create_media" /\ m \in todo
  /\ media_state' = [media_state EXCEPT ![m] = "READING_INPUT"]
  /\ mpc' = [mpc EXCEPT ![m] = "open"]
  /\ src' = [src EXCEPT ![m] = 0] /\ board' = [board EXCEPT ![m] = 0]
  /\ todo' = todo \ {m}
  /\ cmd' = IF todo' = {} THEN "create_producer" ELSE cmd
  /\ UNCHANGED <<playback_state, playback_control, finish_asi, script, live, buf, room,
                 producerVars, consumer_state, cpc, dma, observerVars>>

CreateProducer ==
  /\ cmd = "create_producer"
  /\ producer_state' = "READING_INPUT" /\ ppc' = "buffering"
  /\ cmd' = "create_consumer"
  /\ UNCHANGED <<playback_state, playback_control, finish_asi, script, todo, mediaVars,
                 pm, item, mux, consumerVars, observerVars>>

CreateConsumer ==
  /\ cmd = "create_consumer"
  /\ consumer_state' = "READING_INPUT" /\ cpc' = "multiplexing"
  /\ playback_state' = "PLAY" /\ cmd' = "idle"
  /\ UNCHANGED <<playback_control, finish_asi, script, todo, mediaVars, producerVars,
                 dma, board, observerVars>>

-----------------------------------------------------------------------------
(* stop(): the threads are ended from the observer and the output back to  *)
(* the inputs; each loop signals again until its thread is FINISH, except  *)
(* that the inputs' cv_cir_in is signalled once.                           *)

stop ==
  /\ Dispatch("STOP") /\ playback_state = "PLAY"
  /\ cmd' = "stop_observer"
  /\ UNCHANGED <<playback_state, playback_control, finish_asi, todo, mediaVars,
                 producerVars, consumerVars, observerVars>>

StopObserver ==
  /\ cmd = "stop_observer"
  /\ queue' = Sent(queue, "EXIT")
  /\ IF observer_state = "FINISH"
       THEN cmd' = "stop_output" /\ playback_control' = PLAYBACK_CONTROL_END_OUTPUT
       ELSE UNCHANGED <<cmd, playback_control>>
  /\ UNCHANGED <<playback_state, finish_asi, script, todo, mediaVars, producerVars,
                 consumerVars, observer_state, opc, queue_live>>

StopOutput ==
  /\ cmd = "stop_output"
  /\ cpc' = ConsumerAfterOut
  /\ IF consumer_state = "FINISH"
       THEN cmd' = "stop_multiplexer" /\ playback_control' = PLAYBACK_CONTROL_END_MULTIPLEXER
       ELSE UNCHANGED <<cmd, playback_control>>
  /\ UNCHANGED <<playback_state, finish_asi, script, todo, mediaVars, producerVars,
                 consumer_state, dma, board, observerVars>>

(* Signals cv_multiplexed_data_in and the cv_cir_out of every media.  The  *)
(* message to the producer's queue has no reader with these inputs.        *)
StopMultiplexer ==
  /\ cmd = "stop_multiplexer"
  /\ ppc' = IF ppc = "wait_out" THEN "recheck" ELSE ProducerAfterIn
  /\ IF producer_state = "FINISH"
       THEN /\ cmd' = "stop_signal" /\ playback_control' = PLAYBACK_CONTROL_END_INPUT
            /\ todo' = Media
       ELSE UNCHANGED <<cmd, playback_control, todo>>
  /\ UNCHANGED <<playback_state, finish_asi, script, mediaVars, producer_state, pm, item,
                 mux, consumerVars, observerVars>>

StopSignalInput(m) ==
  /\ cmd = "stop_signal" /\ m \in todo
  /\ mpc' = MediaAfterIn(m)
  /\ todo' = todo \ {m}
  /\ cmd' = IF todo' = {} THEN "stop_input" ELSE cmd
  /\ UNCHANGED <<playback_state, playback_control, finish_asi, script, media_state, live,
                 buf, src, room, producerVars, consumerVars, observerVars>>

MUT_InputsFinished == TRUE                      \* mutant: stop() does not wait
InputsFinished == \A m \in Media : media_state[m] = "FINISH"

StopInput ==
  /\ cmd = "stop_input" /\ InputsFinished
  /\ queue' = <<>> /\ queue_live' = FALSE
  /\ playback_state' = "INIT" /\ finish_asi' = 0 /\ cmd' = "idle"
  /\ UNCHANGED <<playback_control, script, todo, mediaVars, producerVars, consumerVars,
                 observer_state, opc>>

-----------------------------------------------------------------------------
(* media_receving_data_loop: the thread of one media.                      *)

Goto(m, from, to) == mpc[m] = from /\ mpc' = [mpc EXCEPT ![m] = to]

(* Condition variables, open(): the buffer, START_STREAMING to the observer*)
MediaOpen(m) ==
  /\ Goto(m, "open", "ready")
  /\ live' = [live EXCEPT ![m] = TRUE] /\ buf' = [buf EXCEPT ![m] = <<>>]
  /\ queue' = Sent(queue, "START_STREAMING")
  /\ UNCHANGED <<cmdVars, media_state, src, room, producerVars, consumerVars,
                 observer_state, opc, queue_live>>

MediaReady(m) ==
  /\ Goto(m, "ready", "loop")
  /\ media_state' = [media_state EXCEPT ![m] = IF @ = "READING_INPUT" THEN "READY" ELSE @]
  /\ UNCHANGED <<cmdVars, live, buf, src, room, producerVars, consumerVars, observerVars>>

MediaWaiting(m) ==
  /\ mpc[m] = "loop"
  /\ mpc' = [mpc EXCEPT ![m] =
               IF playback_control # PLAYBACK_CONTROL_END_INPUT THEN "test" ELSE "close"]
  /\ UNCHANGED <<cmdVars, media_state, live, buf, src, room, producerVars, consumerVars,
                 observerVars>>

(* Takes the mutex; keeps it when the buffer is full, to sleep.            *)
MediaTest(m) ==
  /\ mpc[m] = "test"
  /\ room' = [room EXCEPT ![m] = InCap - Len(buf[m])]
  /\ mpc' = [mpc EXCEPT ![m] =
               IF room'[m] < 1 /\ playback_control # PLAYBACK_CONTROL_END_INPUT
                 THEN "full" ELSE "paused"]
  /\ UNCHANGED <<cmdVars, media_state, live, buf, src, producerVars, consumerVars, observerVars>>

MediaFull(m) ==
  /\ Goto(m, "full", "wait")
  /\ ppc' = ProducerAfterOut(m)
  /\ UNCHANGED <<cmdVars, media_state, live, buf, src, room, producer_state, pm, item, mux,
                 consumerVars, observerVars>>

MediaPaused(m) ==
  /\ mpc[m] = "paused"
  /\ mpc' = [mpc EXCEPT ![m] =
               IF playback_control = PLAYBACK_CONTROL_PAUSE THEN "loop"
               ELSE IF playback_control = PLAYBACK_CONTROL_END_INPUT THEN "close" ELSE "read"]
  /\ UNCHANGED <<cmdVars, media_state, live, buf, src, room, producerVars, consumerVars,
                 observerVars>>

(* read_data up to the data: a CTLVFile may have to rewind first, a        *)
(* CTLVBuffer may get nothing, or return -1 because the IP input is not in *)
(* use, which the loop ignores.  A file always has a packet to give.       *)
MediaRead(m) ==
  /\ mpc[m] = "read"
  /\ \/ /\ mpc' = [mpc EXCEPT ![m] = "store"]
        /\ \/ UNCHANGED queue
           \/ /\ m \in LoopFiles
              /\ queue' = Sent(Sent(queue, "STOP_STREAMING"), "START_STREAMING")
     \/ /\ m \in IpMedia /\ mpc' = [mpc EXCEPT ![m] = "loop"] /\ UNCHANGED queue
  /\ UNCHANGED <<cmdVars, media_state, live, buf, src, room, producerVars, consumerVars,
                 observer_state, opc, queue_live>>

(* read_data with the data: BufferNItem, then a CTLVBuffer signals and     *)
(* sleeps, a file signals (outside the mutex) only when the buffer is full.*)
MediaStore(m) ==
  /\ mpc[m] = "store"
  /\ \E k \in 1 .. room[m] :
       /\ buf' = [buf EXCEPT ![m] = @ \o [i \in 1 .. k |->
                    [media |-> m, seq |-> (src[m] + i - 1) % Seqs]]]
       /\ src' = [src EXCEPT ![m] = (@ + k) % Seqs]
  /\ room' = [room EXCEPT ![m] = 0]
  /\ IF m \in IpMedia
       THEN mpc' = [mpc EXCEPT ![m] = "wait"] /\ ppc' = ProducerAfterOut(m)
       ELSE /\ mpc' = [mpc EXCEPT ![m] = IF InCap - Len(buf'[m]) < 1 THEN "signal" ELSE "loop"]
            /\ UNCHANGED ppc
  /\ UNCHANGED <<cmdVars, media_state, live, producer_state, pm, item, mux, consumerVars,
                 observerVars>>

MediaSignal(m) ==
  /\ Goto(m, "signal", "loop")
  /\ ppc' = ProducerAfterOut(m)
  /\ UNCHANGED <<cmdVars, media_state, live, buf, src, room, producer_state, pm, item, mux,
                 consumerVars, observerVars>>

MediaClose(m) ==
  /\ Goto(m, "close", "finish")
  /\ live' = [live EXCEPT ![m] = FALSE] /\ buf' = [buf EXCEPT ![m] = <<>>]
  /\ room' = [room EXCEPT ![m] = 0]
  /\ UNCHANGED <<cmdVars, media_state, src, producerVars, consumerVars, observerVars>>

MediaFinish(m) ==
  /\ Goto(m, "finish", "off")
  /\ media_state' = [media_state EXCEPT ![m] = "FINISH"]
  /\ UNCHANGED <<cmdVars, live, buf, src, room, producerVars, consumerVars, observerVars>>

MediaStep(m) ==
  \/ MediaOpen(m) \/ MediaReady(m) \/ MediaWaiting(m) \/ MediaTest(m) \/ MediaFull(m)
  \/ MediaPaused(m) \/ MediaRead(m) \/ MediaStore(m) \/ MediaSignal(m)
  \/ MediaClose(m) \/ MediaFinish(m)

-----------------------------------------------------------------------------
(* Multiplexer::main_loop, produce_item and read_one_packet: the producer. *)

MUT_Ending == playback_control = PLAYBACK_CONTROL_END_INPUT   \* mutant: the wrong control
Ending == playback_control = PLAYBACK_CONTROL_END_MULTIPLEXER

(* A step of the producer that only moves on.                              *)
ProducerMove(from, to) ==
  /\ ppc = from /\ ppc' = to
  /\ UNCHANGED <<cmdVars, mediaVars, producer_state, pm, item, mux, consumerVars, observerVars>>

ProducerBuffering == ProducerMove("buffering", IF Ending THEN "finish" ELSE "scan")

MUT_InputsReading == FALSE                      \* mutant: the producer does not wait
InputsReading == \E m \in Media : media_state[m] = "READING_INPUT"

ProducerScan ==
  /\ ppc = "scan"
  /\ IF InputsReading
       THEN ppc' = "buffering" /\ UNCHANGED producer_state
       ELSE ppc' = "open" /\ producer_state' = "READY"
  /\ UNCHANGED <<cmdVars, mediaVars, pm, item, mux, consumerVars, observerVars>>

(* open() of ISDBTMultiplexer may fail.                                    *)
ProducerOpen == \E to \in {"loop", "finish"} : ProducerMove("open", to)

ProducerWaiting == ProducerMove("loop", IF Ending THEN "finish" ELSE "test")

MUT_MuxFull == Len(mux) >= MuxCap               \* mutant: waits only for a full buffer
MuxFull == MuxCap - Len(mux) < BlockUnits

ProducerTest == ProducerMove("test", IF MuxFull /\ ~Ending THEN "wait_mux" ELSE "check")

ProducerCheck == ProducerMove("check", IF Ending THEN "finish" ELSE "gather")

(* produce_item: ends, or has its item, or reads one more packet from the  *)
(* media the stream multiplexer asks for.                                  *)
ProducerGather ==
  /\ ppc = "gather"
  /\ \/ Ending /\ ppc' = "finish" /\ UNCHANGED pm
     \/ ~Ending /\ Len(item) = ItemUnits /\ ppc' = "store" /\ UNCHANGED pm
     \/ ~Ending /\ Len(item) < ItemUnits /\ ppc' = "recheck" /\ pm' \in Media
  /\ UNCHANGED <<cmdVars, mediaVars, producer_state, item, mux, consumerVars, observerVars>>

(* read_one_packet *)
ProducerRecheck == ProducerMove("recheck", IF Ending THEN "finish" ELSE "packet")

ProducerPacket ==
  /\ ppc = "packet" /\ mpc[pm] # "full"
  /\ IF buf[pm] = <<>>
       THEN ppc' = "wait_out" /\ mpc' = MediaAfterIn(pm) /\ UNCHANGED <<buf, item>>
       ELSE /\ buf' = [buf EXCEPT ![pm] = Tail(@)] /\ item' = Append(item, Head(buf[pm]))
            /\ ppc' = "gather" /\ UNCHANGED mpc
  /\ UNCHANGED <<cmdVars, media_state, live, src, room, producer_state, pm, mux, consumerVars,
                 observerVars>>

MUT_BlockReady(buffer) == Len(buffer) > BlockUnits    \* mutant: off by one
BlockReady(buffer) == Len(buffer) >= BlockUnits

(* BufferNItem stores what fits.                                           *)
ProducerStore ==
  /\ ppc = "store"
  /\ mux' = mux \o SubSeq(item, 1, Least(MuxCap - Len(mux), Len(item)))
  /\ item' = <<>>
  /\ ppc' = IF BlockReady(mux') THEN "signal" ELSE "loop"
  /\ UNCHANGED <<cmdVars, mediaVars, producer_state, pm, consumerVars, observerVars>>

ProducerSignal ==
  /\ ppc = "signal" /\ ppc' = "loop" /\ cpc' = ConsumerAfterOut
  /\ UNCHANGED <<cmdVars, mediaVars, producer_state, pm, item, mux, consumer_state, dma, board,
                 observerVars>>

ProducerFinish ==
  /\ ppc = "finish" /\ ppc' = "off" /\ producer_state' = "FINISH" /\ item' = <<>>
  /\ UNCHANGED <<cmdVars, mediaVars, pm, mux, consumerVars, observerVars>>

ProducerStep ==
  \/ ProducerBuffering \/ ProducerScan \/ ProducerOpen \/ ProducerWaiting \/ ProducerTest
  \/ ProducerCheck \/ ProducerGather \/ ProducerRecheck \/ ProducerPacket \/ ProducerStore
  \/ ProducerSignal \/ ProducerFinish

-----------------------------------------------------------------------------
(* Output::main_loop, consume_item and Multiplexer::read_n_byte.           *)

OutputEnding == playback_control = PLAYBACK_CONTROL_END_OUTPUT

ConsumerMove(from, to) ==
  /\ cpc = from /\ cpc' = to
  /\ UNCHANGED <<cmdVars, mediaVars, producerVars, consumer_state, dma, board, observerVars>>

ConsumerMultiplexing ==
  ConsumerMove("multiplexing", IF OutputEnding THEN "finish" ELSE "await")

ConsumerAwait ==
  /\ cpc = "await"
  /\ IF producer_state = "READING_INPUT"
       THEN cpc' = "multiplexing" /\ UNCHANGED consumer_state
       ELSE cpc' = "loop" /\ consumer_state' = "READY"
  /\ UNCHANGED <<cmdVars, mediaVars, producerVars, dma, board, observerVars>>

ConsumerLoop == ConsumerMove("loop", IF OutputEnding THEN "finish" ELSE "read")

(* read_n_byte.  At the end it leaves dma_buffer as it was, and            *)
(* consume_item goes on with the block all the same.                       *)
ConsumerRead == ConsumerMove("read", IF OutputEnding THEN "block" ELSE "lock")

ConsumerLock ==
  /\ cpc = "lock"
  /\ IF Len(mux) < BlockUnits
       THEN cpc' = "wait_mux" /\ ppc' = ProducerAfterIn /\ UNCHANGED <<mux, dma>>
       ELSE /\ cpc' = "block" /\ dma' = SubSeq(mux, 1, BlockUnits)
            /\ mux' = SubSeq(mux, BlockUnits + 1, Len(mux)) /\ UNCHANGED ppc
  /\ UNCHANGED <<cmdVars, mediaVars, producer_state, pm, item, consumer_state, board,
                 observerVars>>

Count(m, packets) == Cardinality({i \in DOMAIN packets : packets[i].media = m})

MUT_WriteRefused == OutputEnding                \* mutant: the flag is not looked at

(* The test that guards each TSPL_ call to the board.                      *)
WriteRefused == OutputEnding \/ finish_asi = 1

(* The rest of consume_item.  A board that supports loop-through is first  *)
(* waited for until its buffer has room; the wait gives the block up when  *)
(* the user asks for something, and looks at nothing else.                 *)
ConsumerBlock ==
  \/ ConsumerMove("block", "put")
  \/ ConsumerMove("block", IF WriteRefused THEN "loop" ELSE "room")

ConsumerRoom == Asked /\ ConsumerMove("room", "loop")

BoardRoom == ~Asked /\ ConsumerMove("room", "put")

ConsumerWrite ==
  /\ cpc = "put" /\ cpc' = "dma"
  /\ board' = IF WriteRefused THEN board
              ELSE [m \in Media |-> (board[m] + Count(m, dma)) % Seqs]
  /\ UNCHANGED <<cmdVars, mediaVars, producerVars, consumer_state, dma, observerVars>>

ConsumerDma == WriteRefused /\ ConsumerMove("dma", "loop")

BoardDma == ~WriteRefused /\ ConsumerMove("dma", "loop")

ConsumerFinish ==
  /\ cpc = "finish" /\ cpc' = "off" /\ consumer_state' = "FINISH"
  /\ UNCHANGED <<cmdVars, mediaVars, producerVars, dma, board, observerVars>>

ConsumerStep ==
  \/ ConsumerMultiplexing \/ ConsumerAwait \/ ConsumerLoop \/ ConsumerRead \/ ConsumerLock
  \/ ConsumerBlock \/ ConsumerRoom \/ ConsumerWrite \/ ConsumerDma \/ ConsumerFinish

(* The board drains its buffer and completes its transfers.                *)
BoardStep == BoardRoom \/ BoardDma

-----------------------------------------------------------------------------
(* ObserverThread: Update() of the streaming messages touches only the     *)
(* status words of the application.                                        *)

ObserverReceive ==
  /\ opc = "receive" /\ queue # <<>>
  /\ queue' = Tail(queue)
  /\ opc' = IF Head(queue) = "EXIT" THEN "finish" ELSE "receive"
  /\ UNCHANGED <<cmdVars, mediaVars, producerVars, consumerVars, observer_state, queue_live>>

ObserverFinish ==
  /\ opc = "finish" /\ opc' = "off" /\ observer_state' = "FINISH"
  /\ UNCHANGED <<cmdVars, mediaVars, producerVars, consumerVars, queue, queue_live>>

ObserverStep == ObserverReceive \/ ObserverFinish

-----------------------------------------------------------------------------
(* pthread_cond_wait may return without a signal.                          *)
SpuriousWakeup ==
  \/ /\ \E m \in Media : Goto(m, "wait", "loop")
     /\ UNCHANGED <<cmdVars, media_state, live, buf, src, room, producerVars, consumerVars,
                    observerVars>>
  \/ ProducerMove("wait_out", "recheck")
  \/ ProducerMove("wait_mux", "loop")
  \/ ConsumerMove("wait_mux", "read")

Request ==
  \/ \E c \in Callers : Call(c)
  \/ Take \/ \E v \in {0, 1} : SetFinishAsi(v)
  \/ init \/ quit \/ play \/ pause \/ resume \/ stop \/ Ignored

CommandStep ==
  \/ \E m \in Media : CreateMedia(m)
  \/ CreateProducer \/ CreateConsumer \/ StopObserver \/ StopOutput \/ StopMultiplexer
  \/ \E m \in Media : StopSignalInput(m)
  \/ StopInput

Next ==
  \/ Request \/ CommandStep
  \/ \E m \in Media : MediaStep(m)
  \/ ProducerStep \/ ConsumerStep \/ BoardStep \/ ObserverStep \/ SpuriousWakeup

Spec == Init /\ [][Next]_vars

(* The scheduler runs every thread that can run; nothing makes a caller    *)
(* send the next request, nor a sleeper wake without a signal.  A request  *)
(* once made is served.  The board works.  A mutex that is free again and  *)
(* again is at last given to the producer that asks for it.                *)
Fairness ==
  /\ WF_vars(CommandStep) /\ WF_vars(Request /\ script # <<>>)
  /\ \A m \in Media : WF_vars(MediaStep(m))
  /\ WF_vars(ProducerStep) /\ WF_vars(ConsumerStep) /\ WF_vars(ObserverStep)
  /\ WF_vars(BoardStep) /\ SF_vars(ProducerPacket)

FairSpec == Spec /\ Fairness

-----------------------------------------------------------------------------
(* Every variable has its type and no buffer exceeds its capacity.         *)

CommandTypes ==
  /\ playback_state \in {"NONE", "INIT", "PLAY", "PAUSE"} /\ playback_control \in Controls
  /\ finish_asi \in {0, 1} /\ script \in Seq(Steps) /\ todo \in SUBSET Media
  /\ cmd \in {"idle", "create_media", "create_producer", "create_consumer", "stop_observer",
              "stop_output", "stop_multiplexer", "stop_signal", "stop_input"}

MediaTypes ==
  /\ media_state \in [Media -> ThreadState]
  /\ mpc \in [Media -> {"off", "open", "ready", "loop", "test", "full", "wait", "paused", "read",
                        "store", "signal", "close", "finish"}]
  /\ live \in [Media -> BOOLEAN]
  /\ buf \in [Media -> Seq(Packet)] /\ room \in [Media -> Nat]
  /\ \A m \in Media : Len(buf[m]) + room[m] <= InCap
  /\ src \in [Media -> 0 .. Seqs - 1]

ProducerTypes ==
  /\ producer_state \in ThreadState /\ pm \in Media
  /\ ppc \in {"off", "buffering", "scan", "open", "loop", "test", "wait_mux", "check", "gather",
              "recheck", "packet", "wait_out", "store", "signal", "finish"}
  /\ item \in Seq(Packet) /\ Len(item) <= ItemUnits
  /\ ppc \in {"recheck", "packet", "wait_out"} => Len(item) < ItemUnits
  /\ mux \in Seq(Packet) /\ Len(mux) <= MuxCap

ConsumerTypes ==
  /\ consumer_state \in ThreadState
  /\ cpc \in {"off", "multiplexing", "await", "loop", "read", "lock", "wait_mux", "block", "room",
              "put", "dma", "finish"}
  /\ dma \in Seq(Packet) /\ Len(dma) <= BlockUnits
  /\ board \in [Media -> 0 .. Seqs - 1]

ObserverTypes ==
  /\ observer_state \in ThreadState /\ opc \in {"off", "receive", "finish"}
  /\ queue \in Seq(Messages) /\ Len(queue) <= QueueCap /\ queue_live \in BOOLEAN

TypeOK == CommandTypes /\ MediaTypes /\ ProducerTypes /\ ConsumerTypes /\ ObserverTypes

-----------------------------------------------------------------------------
(* What could go wrong between the threads.                                *)

(* Where the command thread is says which threads may run, and in what     *)
(* state each of them may be.                                              *)
Creating == cmd \in {"create_media", "create_producer", "create_consumer"}
Stopping == cmd \in {"stop_observer", "stop_output", "stop_multiplexer", "stop_signal", "stop_input"}
Session == Creating \/ playback_state \in {"PLAY", "PAUSE"}
EndingInput == playback_control = PLAYBACK_CONTROL_END_INPUT

CommandPhase ==
  /\ Creating => playback_state = "INIT" /\ playback_control = PLAYBACK_CONTROL_NONE
  /\ Stopping => playback_state = "PLAY"
  /\ cmd \in {"stop_output", "stop_multiplexer"} => Ending
  /\ cmd \in {"stop_signal", "stop_input"} => EndingInput
  /\ cmd \in {"idle", "stop_observer"} /\ Session => ~Ending /\ ~EndingInput

ObserverPhase ==
  /\ opc # "off" => Session /\ observer_state # "FINISH"
  /\ cmd \in {"stop_output", "stop_multiplexer", "stop_signal", "stop_input"} => opc = "off"
  /\ queue_live <=> Session

ConsumerPhase ==
  /\ cpc # "off" => Session /\ consumer_state # "FINISH"
  /\ Creating \/ cmd \in {"stop_multiplexer", "stop_signal", "stop_input"} => cpc = "off"

ProducerPhase ==
  /\ ppc # "off" => Session /\ producer_state # "FINISH"
  /\ cmd \in {"create_media", "create_producer", "stop_signal", "stop_input"} => ppc = "off"
  /\ ppc \notin {"off", "buffering", "scan", "finish"} => \A m \in Media : media_state[m] # "READING_INPUT"

MediaPhase(m) ==
  /\ mpc[m] # "off" => Session /\ media_state[m] # "FINISH"
  /\ mpc[m] \in {"open", "ready"} => media_state[m] = "READING_INPUT"
  /\ mpc[m] \in {"close", "finish"} => EndingInput
  /\ cmd = "create_media" /\ m \in todo => mpc[m] = "off"
  /\ Session /\ ~EndingInput /\ ~(cmd = "create_media" /\ m \in todo) => mpc[m] # "off"
  /\ live[m] <=> mpc[m] \notin {"off", "open", "finish"}

Lifecycle ==
  /\ CommandPhase /\ ObserverPhase /\ ConsumerPhase /\ ProducerPhase
  /\ \A m \in Media : MediaPhase(m)

(* A thread uses only what exists: the producer never asks a media for a   *)
(* packet before its open() has allocated the buffer or after its close()  *)
(* has deleted it, and no thread sends to or reads the observer's queue    *)
(* outside tlv_mq_init .. tlv_mq_destroy.                                  *)
TouchesLive ==
  /\ ppc \in {"recheck", "packet", "wait_out"} => live[pm]
  /\ \A m \in Media : mpc[m] # "off" => queue_live
  /\ opc # "off" => queue_live

(* stop() ends the threads against the stream: no media is told to end, or *)
(* closes its buffer, while the observer, the output or the producer runs. *)
OrderedShutdown ==
  (playback_control = PLAYBACK_CONTROL_END_INPUT \/ \E m \in Media : mpc[m] \in {"close", "finish"})
    => ppc = "off" /\ cpc = "off" /\ opc = "off"

(* Between requests, a session that is not playing has no thread left, and *)
(* so quit() deletes the buffers and the mutexes under nobody.             *)
Quiescent ==
  playback_state \in {"NONE", "INIT"} /\ cmd = "idle" =>
    /\ \A m \in Media : mpc[m] = "off"
    /\ ppc = "off" /\ cpc = "off" /\ opc = "off" /\ ~queue_live

(* Two threads never sleep each on the other's signal: the producer and the*)
(* media it reads, the producer and the output.                            *)
NoCircularWait ==
  /\ ppc = "wait_out" => mpc[pm] # "wait"
  /\ ppc = "wait_mux" => cpc # "wait_mux"

(* Once main_loop has seen room for a block, it is there until the item is *)
(* stored, whatever the output does meanwhile.                             *)
RoomForItem ==
  /\ ppc \in {"gather", "recheck", "packet", "wait_out", "store"} => ~MuxFull
  /\ ppc = "check" => ~MuxFull \/ Ending

(* The output does not sleep on a block that is there: the producer that   *)
(* completed it is still to signal.                                        *)
NoLostMuxSignal == cpc = "wait_mux" /\ Len(mux) >= BlockUnits => ppc = "signal"

(* BufferNItem finds room for the whole item, however the output ran since *)
(* main_loop tested the multiplexed buffer.                                *)
ItemFits == ppc = "store" => Len(mux) + Len(item) <= MuxCap

(* HLD_TH_START_MON leaves nothing of the session, unless it was paused:   *)
(* stop() is for PLAY only.                                                *)
MonitorReleases ==
  [][script = <<"QUIT">> /\ script' = <<>> => playback_state' \in {"NONE", "PAUSE"}]_vars

(* stop() gets past the observer, the output and the producer, whatever    *)
(* they sleep on.  It returns, or polls for ever a media that went to      *)
(* sleep after its only signal had been sent; nothing else keeps it.       *)
Stranded == cmd = "stop_input" /\ \E m \in Media : mpc[m] = "wait"
StopCompletesOrStrands == (cmd = "stop_observer") ~> (cmd = "idle" \/ Stranded)

(* A session that plays keeps writing blocks: until the user asks for      *)
(* something, when its multiplexer could not be opened, when its sources   *)
(* are asked and have nothing more, or when it was resumed after           *)
(* HLD_TH_START_MON had set finish_asi and called stop() in vain, which    *)
(* makes the board refuse everything.                                      *)
Gives == \E m \in Media : mpc[m] = "read" /\ mpc'[m] = "store"
Silent == <>[][~Gives]_vars /\ []<>(\E m \in Media : mpc[m] = "read")
Streams ==
  \/ Silent
  \/ (playback_state = "PLAY" /\ cmd = "idle") ~>
       (cpc = "put" \/ script # <<>> \/ ppc \in {"finish", "off"} \/ finish_asi = 1)

-----------------------------------------------------------------------------
(* The session as Stream promises it: per media, one first-in first-out    *)
(* channel made of the block in hand, the multiplexed buffer, the item     *)
(* being gathered and the media's own buffer.                              *)

(* The numbers of the packets of m, in their order.                        *)
Of(m, packets) ==
  LET of[n \in 0 .. Len(packets)] ==
        IF n = 0 THEN <<>>
        ELSE IF packets[n].media = m THEN Append(of[n - 1], packets[n].seq) ELSE of[n - 1]
  IN  of[Len(packets)]

Numbers(packets) == [i \in DOMAIN packets |-> packets[i].seq]

InFlight(m) ==
  (IF cpc \in {"block", "room", "put"} THEN Of(m, dma) ELSE <<>>)
    \o Of(m, mux) \o Of(m, item) \o Numbers(buf[m])

Up(m) == live[m] /\ playback_control \in {PLAYBACK_CONTROL_NONE, PLAYBACK_CONTROL_PAUSE}

S == INSTANCE Stream WITH
       Burst   <- InCap,
       BlockMax <- BlockUnits,
       up      <- [m \in Media |-> Up(m)],
       next    <- [m \in Media |-> IF Up(m) THEN src[m] ELSE 0],
       chan    <- [m \in Media |-> IF Up(m) THEN InFlight(m) ELSE <<>>],
       got     <- [m \in Media |-> IF Up(m) THEN board[m] ELSE 0],
       fates   <- IF finish_asi = 1 THEN {"refused"}
                  ELSE IF Asked THEN {"taken", "refused"} ELSE {"taken"}

(* Every step of the threads is a step of Stream or changes nothing there: *)
(* the board gets the packets of a media in the order the media read them, *)
(* none twice and none left over from an earlier session, and none is lost *)
(* but with a block that is given up while the user asks for something or  *)
(* refused after SetFinishAsi.                                             *)
StreamSpec == S!Spec
=============================================================================
