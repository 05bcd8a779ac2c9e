# A TLA+ project for TVBAgentV2

TVBAgentV2 plays transport streams (DVB-T2, DVB-C2, ISDB-T, ...) from files, from
IP or from an ASI input through a Teleview modulator board, and captures them. Its
own logic is in `src/hld`, the *high level driver*: a main task per board that
serves the user's requests, a pipeline of threads for every "new" playback
(`src/hld/corelib`), an IP receiver (`src/hld/IPStreamer`), and tasks that
capture and loop through. They share memory and flags, mostly without locks.
This project models each of these parts with its buffers and queues, checks them
with TLC, and proves the main safety properties with TLAPS.

## 1. Inventory

| component | state it keeps | operations | interacts with |
|---|---|---|---|
| **Playback session** `corelib/hldplay.cpp`, `media_interface.cpp`, `multiplexer.cpp`, `input_buffer.cpp` | `playback_state`, `playback_control`, one `tlv_thread_t` per media, producer, consumer, observer; `cir_multiplexed_data_buffer`; condition variables and a mutex per buffer | `playback_receive_request`: INIT, PLAY, PAUSE, RESUME, STOP, QUIT (and SEEK, REWIND, GET_TS_BITRATE); the loops of the threads | everything in `corelib` |
| **Inputs** `input_file.cpp`, `input_buffer.cpp`, `input_ip.cpp`, `input_ts.cpp` | `cir_input_ts_buffer`, file or buffer | `open`, `read_data`, `read_one_packet`, `close` | media thread fills, producer empties; messages to the observer |
| **Multiplexers** `dvbt2/`, `dvbc2/`, `isdbt/` | T2-MI / TS buffers, PCR, stuffing counters | `open`, `produce_item`, `close` | read packets from the inputs, fill the multiplexed buffer |
| **Output** `output.cpp` | `dma_buffer`, bank indexes | `main_loop`, `consume_item`, the guarded `TSPL_` calls | multiplexed buffer, board |
| **Circular buffer** `corelib.cpp` | `cir_buff`, `cir_buff_start`, `cir_buff_end` | `BufferItem`, `BufferNItem`, `DebufferItem`, `DebufferNItem`, `DebufferNItem_sync`, `ReferDebufferedItem`, `Clear`, the counts | inputs, multiplexer, message queue; it has no lock of its own |
| **Message queue** `linux/threads.cpp` | a circular buffer of 10000 encoded messages, a mutex, a condition variable | `tlv_mq_init`, `_send`, `_receive`, `_destroy` | all threads send; the observer receives |
| **Main task** `TSPHLD0390/*.cpp`, `hld_gvar.cpp` | `TL_fThreadState`, the `AP_fStart...Request` flags, `AP_hFile` | the user's calls; `DetermineMainTaskState_from_UserReq`; the START/CONT/END handlers; `ProcessDetach` | calls `playback_receive_request`, plays and records files, launches the IP pump and the loop-through |
| **File playback of the main task** `LLDWrapper.cpp`, `hld_fs_rdwr.cpp`, `hld_utils.cpp` | two byte rings with indices and counts, the file, the offset the user asks for | a turn of `HLD_TH_CONT_PLAY`: read, find packets, move, send; repeat, reopen, seek | the main task, for every modulation without a session |
| **IP receiver** `IPStreamer/` | a pool of packets with two indices; `connection_requested`, `connection_connected`, `data_sess`, a socket | `run_ip_streaming_srv`, `close_ip_streaming_srv`, `TsRead`; the daemon and its `recvfrom` | the network, the pump |
| **IP second buffer** `hld_fmtr_ip.cpp` | `TL_ip_buffer` with places and count, `ip_pkt_monotor_sta`, `IPUsing` | the pump fills, `CTLVBuffer` takes, a monitor holds back | receiver, session, user |
| **Loop-through** `hld_fmtr_loopthru.cpp` | `inter_buf_capplay` with places and count, `Flag_CapLoopThru`, `g_DvbT2_FileCaptureFlag` | a task that captures from the ASI input, starts and stops a session, records | session, main task, user |
| **Board buffer control** `hld_ctl_hwbuf.cpp` | registers, file and buffer mutexes, DMA | waits for a level, starts transfers | output, capture |
| formatting, logs, drivers, agent, vendored code | - | - | see section 8 |

What is hard in it:

* *No joins.* A session's thread ends by writing `FINISH` in its `thread_state`,
  which `stop()` polls; then buffers and queues are freed. Whether anybody still uses
  them depends on the order of `stop()` alone. The pump and the loop-through task
  clear a flag before their last uses of what they share.
* *Words shared by everyone.* `playback_control`, the request flags, `AP_hFile`,
  `data_sess` and `IPUsing` are read and written by several threads without a lock.
* *Flags cleared unseen.* The main task reads the user's flags at several points of a
  turn and clears them all at one, 100 ms after it has chosen what to do.
* *Signals without the mutex.* `stop()` and the file inputs signal without it, and
  the inputs are signalled once only, so a signal can be lost.
* *Silent loss at a limit.* `BufferNItem` stores what fits, `BufferItem` drops; the
  packet pool throws half of itself away; the second buffer and the loop-through's
  ring have no test for room at all.
* *A network and an input that come and go*, while the user changes his mind.

For each modelled component the properties that make it correct:

* session: each media's packets reach the board in order, none twice and none of
  an earlier session (`StreamSpec`); nothing is used before it exists or after it
  is freed (`TouchesLive`, `Quiescent`); the shutdown order (`OrderedShutdown`);
  no lost signal, no two threads asleep on each other (`NoLostMuxSignal`,
  `NoCircularWait`); it streams (`Streams`); stopping ends
  (`StopCompletesOrStrands`, `MonitorReleases`);
* circular buffer: a bounded first-in first-out store (`FifoSpec`,
  `FullAndEmptyAgree`);
* message queue: what is sent is received (`SmallNumbersIntact`, `ReceivedAsSent`),
  nobody sleeps on a message (`NoSleepOnMessage`), calls return
  (`SendReturns`, `QueueDrains`, `FailsOnlySpuriously`);
* packet pool: what the network writes is never what is still to be read
  (`WriteSlotUnread`); packets come out as from a queue (`QueueSpec`); losses are
  counted once (`LostCountsJumps`); the reader always gets on (`Drains`);
* connection: what is received is what was asked for (`StreamsFromRequested`), it
  is received in the end (`RequestServed`, `NoStrandedRequest`), and giving it up
  ends (`CloseReturns`, `StopsReceiving`);
* second buffer: bytes come out as they went in (`Intact`), never from freed
  memory (`CopiesLive`), never before the buffer is full again
  (`RefillsAfterUnderrun`);
* main task: state, file and session agree (`HandlesMatch`), files are closed
  (`LeakOnlyUnseen`), requests and the end are served (`MonitorServed`, `KillEnds`);
* file playback: the two rings stay sound (`RingsSound`), no packet goes out twice
  (`MovedOnce`), the end is reached (`PlaysToEnd`);
* loop-through: count, buffer, flag and session agree (`Sound`), whoever waits
  for its end gets out (`Ends`), it comes back with the signal (`Revives`).

## 2. Modules

| module | what it is |
|---|---|
| `Playback` | the session: requests, command thread, media threads, producer, output, observer |
| `Stream` | the abstract specification of a session: one first-in first-out channel per media |
| `MCPlayback` | the callers used by the runs of `Playback` |
| `PlaybackProofs` | theorems about `Playback`, the refinement of `Stream` among them |
| `BoundedFifo` | the abstract specification of the circular buffer, from the comments of `corelib.h` and `corelib.cpp` |
| `CircularBuffer`, `CircularBufferProofs` | `CCircularBuffer` with its cells, bytes and positions; theorems, the refinement among them |
| `MessageQueue`, `MessageQueueProofs` | `tlv_mq_send` and `tlv_mq_receive`; theorems about them |
| `RtpPool`, `MCRtpPool` | the packet pool of the IP receiver, its receiver and reader; the senders of its run |
| `PacketQueue` | what the pool promises: a queue of packets read in pieces |
| `IpSession` | the connection: the user's calls and the daemon |
| `IpReceiverProofs` | theorems about `RtpPool`, the refinement of `PacketQueue` among them, and `IpSession` |
| `IpBuffer`, `IpBufferProofs` | the second buffer: pump, media, user; theorems |
| `MainTask`, `MainTaskProofs` | the user's requests and the state machine of the main task; theorems |
| `FilePlay`, `MCFilePlay`, `FilePlayProofs` | playback of a file by the main task; the files of its run; theorems |
| `LoopThrough`, `LoopThroughProofs` | the DVB-T2 / DVB-C2 loop-through task, the main task and the user; theorems |

They fit together along the calls of the code. `MainTask` has the session as up
or down, `LoopThrough` as the four states a request can leave it in, and `Playback`
opens it up; the callers of `Playback` (`MCPlayback`) are the sequences of requests
that those two send. The messages of `Playback`'s observer are `MessageQueue`'s, its
buffers `CircularBuffer`'s. `IpSession` decides when packets flow into
`RtpPool`, whose reader is the pump of `IpBuffer`, whose media is an `IpMedia` of
`Playback`.

### Playback

*State.* `playback_state`, `playback_control`, `finish_asi` and each `*_state` are the
code's words. `mpc[m]`, `ppc`, `cpc`, `opc` and `cmd` are where the media thread of
`m`, the producer, the output, the observer and the command thread are; "off"
means that the thread does not exist. `buf[m]`, `mux`, `item` and `dma` are the
contents of the input buffer, the multiplexed buffer, the producer's own
buffer and `dma_buffer`, as sequences of packets that carry their media and a
number modulo `Seqs`. `live[m]` says that the input buffer is allocated;
`queue_live` that the observer's queue is between `tlv_mq_init` and
`tlv_mq_destroy`. `script` holds the requests that the current caller is still
to send.

*Steps.* An action is what a thread does between two points where another thread
can be noticed: a critical section is one action, because the variables it uses
are written under the same mutex. The exception is the section in which a media
tests its buffer and then sleeps (`MediaTest`, `MediaFull`), which is split
because `stop()` signals without the mutex; the producer, which needs that
mutex, waits meanwhile (`mpc[pm] # "full"` in `ProducerPacket`). Every read of
`playback_control` outside a lock is a step of its own. `play()` and `stop()` are
split at every thread they create or wait for; a turn of a polling loop is one
action, signals included.

*Condition variables.* A thread asleep is at "wait", "wait_out" or "wait_mux"; a
signal moves it on, and does nothing when nobody sleeps there. `SpuriousWakeup`
is the return of `pthread_cond_wait` without a signal, which POSIX allows; every
property is checked with it, and fairness never relies on it.

*Data.* A packet is one unit. A block (`MULTIPLEXER_BUFF_ITEM_SIZE`, 1 MB) is
`BlockUnits` of them, an item (`produce_item` stops before 1 MB, as 188 does not
divide it) `ItemUnits`, which may be less. The stream multiplexer asks any media
for the next packet. The null packets and tables it adds are left out: they are
not a media's. Sleeps are left out: any step may be delayed anyway.

*Callers.* `Calls` gives the sequences that the main task sends:
`HLD_TH_START_PLAY` (finish_asi to 0, INIT, PLAY) and `HLD_TH_START_MON`
(finish_asi to 1, STOP, QUIT), each after the user's request has been taken
(`TAKE`): before that, `ReqedNewAction_User` makes the output give up its wait for
the board. "pause" and "resume" are messages of `hldplay.h` that a user of the
library may send; the main task never does. `AnyCaller` has them too.

*Variants.* `IpMedia` are `CTLVBuffer` inputs (they sleep after each store, as does
`CTS_IN_Buffer` of a loop-through), `LoopFiles` are `CTLVFile` inputs that rewind
and tell the observer; the others are files that rewind silently, as
`CTLVFileDVBT2Mul`. A file is repeated, so it always has a packet to give.

### Stream

What the application may rely on: a media that is up gives packets to its channel,
the board takes blocks from the heads of the channels, and a block that is
*refused* is dropped: that happens after `SetFinishAsi(1)` or while the user
asks for something, never otherwise (`fates`). The session implements it
with `chan[m]` = the block in hand, the multiplexed buffer, the item
being gathered and the input buffer of `m`, in that order.

### CircularBuffer and BoundedFifo

Positions are counted in items (the code multiplies both by `item_size`); a cell
holds the bytes of an item, so that a copy with a wrong length in bytes leaves
`Junk` in an item. `BoundedFifo` is what the comments promise; `FifoSpec` is the
refinement, with the cells between the two positions as the store.
`BufferNItem` and `BufferNItem_ASI` have the same effect and are one action. The
N-item calls copy a wrong length when items have several bytes and the copy
wraps; all their callers have items of one byte, so only these are enumerated
(`Sizes` gives the others the one-item calls).

### MessageQueue

A message is one number of two bytes in base `Byte`; the code's ints are four
bytes in base 256, and what it does between adjacent bytes is the same. `mutex` is
"receiver" only after `tlv_mq_receive` has returned without releasing it; all
other critical sections are single actions. `expected` is a history variable:
the number that was sent.

`Playback` uses the queue as a sequence of whole messages: its message ids are
small, so the encoding is transparent for them (`SmallNumbersIntact`), and it
stops short of the wakeup that makes a receive fail (hazard `threads.cpp:217`).

### RtpPool and PacketQueue

The pool of the IP receiver: `recvfrom` writes into the slot `wr` without the mutex
(`Receive`), `PrePeocessRtp` looks at the packet with it (`Process`), and
`TsReadUdpPool` cuts the packets from `rd` on into pieces with the mutex held,
lookup (`Decap`) and copy (`Copy`) as two steps. The copy names the slot that
`Decap` saw: what it takes is what is there by then. A packet is its number, whether
it has an RTP header, and its length. `source` is the sender, chosen once:
which kinds and lengths it sends, how many packets the network may lose in a row;
it may also repeat one. No packet is longer than `Mtu`, which is what `recvfrom` takes of one.
`last`, `gaps` and `blind` are history variables: the last number looked at, the jumps so
far, and whether more than `SeqMod` packets went unseen between two that were looked at;
then two numbers may look consecutive that are not, and `LostCountsJumps` only says
that not too many are counted.

`PacketQueue` is the promise of the pool: a queue whose packets are read in pieces, in
order, none twice and none in part, and which is emptied as a whole after a timeout. `QueueSpec` is the refinement, for
senders whose packets are all alike; the code cuts a packet by the kind of the
packet received *last*, so with mixed kinds it promises nothing about contents, and only
`WriteSlotUnread` and `Drains` are stated.

### IpSession

`upc` is the user in `run_ip_streaming_srv` or `close_ip_streaming_srv`, `dpc` the
daemon between waiting for a request (`WaitSess`) and closing its socket
(`TermRecv`). The daemon reads the configuration at two points (`Open` the group, `Bind`
the port), so `socket` may mix two; without a socket it waits again (`OpenFails`). A *patient* user waits until his last call took
effect, which the code never asks of him; an impatient one does not. The promises
about what is received are for a patient user, those about coming to rest for
both. For a patient one the daemon's sleep of a second is longer than the user's
poll of 100 ms (`WaitSess`); this is the model's only assumption about time.

### IpBuffer

`TL_ip_buffer` with its places and count, filled by the pump (`Wanted`, `Fill`, `Kill`),
emptied by `CTLVBuffer` (`Look`, `Control`, `Get`, `Lock`, `Take`), freed
when the user stops (`Stop`, which takes `TL_ip_hMutex_Cntrl`). A byte is its number
in the stream. `count` is tested by the media outside the mutex that `Take`
then holds. Whether the estimates of the rates have the monitor start anew
(`FillOnePacketToQueue`) is left open. `dry` is a history variable.

### MainTask

`asked`, `kill`, `using`, `receiving` are the user's flags, a call of the user one step. The
turn of `HLD_StateMainLoop` is cut wherever it looks at the flags again: `Top` (close
what is open), `ReqedKill`, `Determine`, 100 ms later `Reset`, then the handler. A
handler is one step, except `HLD_TH_START_PLAY`, which waits for an IP stream
("receive", "fill"). `new` says which of the two ways of playing the modulation has;
`session` is whether the session of a new playback is up: opening and closing it is
`Playback`. `noticed`, `was`, `seen` and `forgotten` are history variables.

### FilePlay

A turn of `HLD_TH_CONT_PLAY`: a bank is read into the first ring (`FirstRead`, `Turn`),
packets are found (`Search`) and moved to the second ring with null packets (`Move`),
a bank of that one is sent (`Fill`). Of the first ring the model keeps the places that
hold 0x47 (`syncs`) and, as a history variable, where a moved packet began
(`taken`); of the second only its indices. `TL_SyncLockFunction` answers the first place
from which one of four packet lengths fits three packets in a row; `FindSyncPos_and_FillSyncBuf`
takes only an answer of the file's length. `PktsBefore` are the lengths tried before that one at
each place, `PktsAfter` those tried after it, and `Behind` is what the function sees past its copy of
the window, where that buffer holds something older. `blind` is a history variable: the search ran out
of data on an answer of another length. A file that cannot be opened again ends the playback
(`Reopen`). The play rate is `gfRatio` in tenths. What follows the end of a file is chosen once
(`repeat`); the user may seek and name the next file at any moment.

### LoopThrough

`tpc[t]` are the loop-through tasks: the code means there to be one, and the model lets
two exist, since the flag that keeps a second from being launched is
cleared before the first one is over. `mpc` is the main task with its way through
`HLD_MainTaskStateLoop_Monitor`, where the task is launched; `upc` the user in
`SetTsio_Direction` (which polls the flag) and `StartRecord` (which opens the file
and then says so). `cnt`, `wr` and `rd` count bytes, `cnt` modulo `Width` (2^32): all tests are
unsigned, so less than nothing is plenty. A block is captured at once, and read in pieces
smaller than a block. Reading begins where the packets were found to start (`Starts`; `offset` is a
history variable for the place), with the count left as it is. A launched task is one that is off. A call of `playback_receive_request` is one
step here, and `session` what it leaves. `Prompt` is an assumption about time: a
launched task has set its flag before the main task, after sleeping 10 and
100 ms (`hld_gvar.cpp:529`), resets the flags. `met` is a history variable: the main task got to the buffer, the
session or a recording while a task was not over; see section 5.

## 3. Runs

| run | instance | properties | distinct states |
|---|---|---|---|
| `stream` | a file that rewinds, items of 2, blocks of 3, multiplexed buffer of 6, numbers modulo 4 | `NoLostMuxSignal`, `StreamSpec` | 2 226 010 |
| `stop_ends` | an IP media, blocks of 1, every caller, pause and resume too, fairness | `TypeOK`, `Quiescent`, `TouchesLive`, `OrderedShutdown`, `NoCircularWait`, `StopCompletesOrStrands`, `MonitorReleases`, `Streams` | 390 616 |
| `buffer` | 3 cells, items of 1 and of 2 bytes, calls of up to 4 | `FullAndEmptyAgree`, `FifoSpec` | 2 625 |
| `queue` | two senders of 2 messages, spurious wakeups, fairness | `TypeOK`, `FailsOnlySpuriously`, `NoSleepOnMessage`, `SmallNumbersIntact`, `QueueDrains`, `SendReturns` | 4 573 |
| `queue_bytes` | a number with a byte of the upper half | `ReceivedAsSent` is violated | |
| `pool` | 4 slots, numbers modulo 6; a steady, a lossy, a long silent and a mixed sender | `WriteSlotUnread`, `LostCountsJumps`, `QueueSpec`, `Drains` | 227 712 |
| `ip` | 2 ports, 2 groups, patient and impatient user, memory may be short | `StreamsFromRequested`, `RequestServed`, `CloseReturns`, `StopsReceiving` | 3 852 |
| `ip_stranded` | an impatient user | `NoStrandedRequest` is violated | |
| `ip_buffer` | 8 bytes, level 4, units of 1 and 3, wants of 2 and 3, 15 bytes, 2 pumps | `TypeOK`, `Intact`, `CopiesLive`, `RefillsAfterUnderrun` | 36 698 |
| `main_task` | both ways of playing, no bound | `HandlesMatch`, `LeakOnlyUnseen`, `KillEnds`, `MonitorServed` | 369 714 |
| `file_play` | banks of 60, rings of 240, packets of 2, a length of 3 tried before; 6 files, rates 1.0, 1.4 and 5.9, a seek, two loops | `RingsSound`, `MovedOnce`, `PlaysToEnd` | 200 126 |
| `loop_through` | 2 tasks, blocks of 2, ring of 6, start at 4, level 2, pieces of 1 and 2, packets found at 0, 1 or 3, numbers modulo 12, 3 calls or losses of the signal | `Sound`, `Ends`, `Revives` | 357 139 |

*Why the bounds are enough.*

* `Playback`: its threads branch on three facts about a buffer: empty, no room for one
  more, a whole block there. Capacities of one or two packets reach each, in every
  combination, after few steps; the multiplexed buffer is always at least two
  blocks, as in the code (8 against 1), which `NoCircularWait` needs. `stream` takes
  an item that does not divide a block because the code's does not. Numbers
  modulo 4 tell a lost, repeated or swapped packet from the right one as long as
  fewer than 4 are affected, and a block is 3. The observer's queue holds one
  message, so that it is full all the time. The number of sessions is not bounded.
* `CircularBuffer`: with 3 cells every call wraps at every place, and calls of up to 4
  ask for more than there is and more than fits.
* `MessageQueue`: two senders and room for two messages are enough for a sender to be
  kept out, a receiver to sleep and another's message to wake it; `MaxSends` bounds
  the messages.
* `RtpPool`: 4 slots are the fewest the code's test for overflow (`Pool - 2`) makes
  sense with, and 4 or 5 packets fill it and go around it; a packet of four is read in two
  pieces; 3 + 4 packets, each after a loss, pass the wrap of numbers modulo 6; one
  sender has up to six lost in a row, a whole turn of the numbers, which shows what the condition of
  `LostCountsJumps` is for.
* `IpSession`: two ports and two groups are what a mixed-up socket needs.
* `IpBuffer`: 15 bytes go around a buffer of 8 nearly twice, units and wants do not
  divide it, and the level can be passed both ways several times; a second pump shows what
  the first leaves behind.
* `MainTask` has no bound: its flags and states are finite.
* `FilePlay`: the ratios of bank, ring, window and packet matter, not their sizes: a
  bank has 30 packets, four banks are a ring (3 MB against at most 1 MB in the code, as the user
  sets the bank; with three, `Roomy` leaves rates up to about 1.2), the window is less than a bank. The
  files end at a bank, within one and before one, begin in a packet, are damaged once or all
  through, or are no stream. In the one damaged all through, places from which three packets of
  2 fit and places from which three of 3 fit come by turns, so the search takes each of its three ways
  out; a length that is tried after the file's (`PktsAfter`) would lead to the same ways out, so there is
  none here. Rate 1.0 has no null packets, 1.4 is one the rings are
  made for (`Roomy`), 5.9 is not.
* `LoopThrough`: three calls (a leaving user's `Detach` is one) are a launch, its end and a
  relaunch, in every mixture with losses of the signal. The packets are found at once (0), within
  `Level` (1) or behind it (3), so the place to read can get ahead of the place to write, within the
  same block too; pieces of 1 leave it within a block. The ring is just large enough for a search
  (`Enable + Block`), and numbers modulo twice the ring tell a negative difference from any distance.

Deadlock is checked except where the program may really come to rest: all messages
sent (`queue`), the task ended (`main_task`, `loop_through`), the file at its end
(`file_play`).

## 4. Fairness

A thread that can run at last runs: weak fairness per thread, because they are kernel
threads. Beyond that:

* `Playback`: a request once made is served; the board drains its buffer and completes
  its transfers (`BoardStep`); a mutex that is free again and again is at last given to
  the producer (strong fairness of `ProducerPacket`: a media keeps taking it in its
  loop, but sleeps or yields in between). `stop()` needs the board: the output
  may be waiting for room in a loop that looks only at the user's request
  (`hld_ctl_hwbuf.cpp:233`).
* `MessageQueue`: strong fairness of `Send`, for the same reason.
* `RtpPool`: reader and `Process`; the network owes nothing.
* `IpSession`: the user goes on with a call he has begun, the daemon runs; a port that
  is taken becomes free, and a socket can be had sooner or later (strong fairness of `Open`).
  `OpenFails` and `NetworkError` are not fair.
* `MainTask`: the main task and the second half of `ProcessDetach`. Nothing makes IP data
  come.
* `FilePlay`: the main task; the board takes what it is given.
* `LoopThrough`: the main task, each loop-through task, a call the user has begun, and
  strong fairness of `Found`, by whichever task: in a signal that stays good the packets are
  found at last.

Nothing makes a user ask, nor a sleeper wake without a signal.

## 5. What the runs show

*Session.*

* Its promise holds: in order, nothing twice, nothing from an earlier session, although
  `consume_item` goes on with a stale block at the end; the test inside
  `TSPL_WRITE_BLOCK` is what keeps it from the board.
* The alias of `END_OUTPUT` and `END_MULTIPLEXER` is harmless: the producer may end early, and
  nothing depends on it ending late.
* `stop()` always ends the observer, the output and the producer. It may then wait for
  ever for an IP media that stored data after `END_INPUT` was set, or was about to sleep on
  a full buffer, and missed the one signal of `hldplay.cpp:883`:
  `StopCompletesOrStrands` names that as the only way out, and without its second
  disjunct TLC finds the execution.
* A paused session is not released by `HLD_TH_START_MON`: `stop()` returns at once
  (`MonitorReleases`, with "PAUSE" as its only exception). Its `finish_asi` stays 1, and a
  session resumed after that refuses every block: `Streams` excepts it.
* Finding `queue_bytes`: a number with a byte of the upper half is not received as sent.

*IP.*

* The receiver neither reorders nor corrects: there are parameters for it, no code. The
  slot being written is never one still to be read, although the overflow test
  is the only thing that keeps them apart.
* A request of an impatient user may be stranded: when he closes and asks again before the
  daemon has seen the close, `TermRecvLvl1` takes back `data_sess` after the new request has
  set it, and `run_ip_streaming_srv` takes the request for one in progress from then on
  (finding `ip_stranded`). A patient user is always served.
* The second buffer has no test for room: when the media falls behind by more than its
  size, bytes are overwritten (`Intact` says nothing then, and holds again after it has
  caught up).

*Main task.*

* A request that falls into the 100 ms between `Determine` and `Reset` is forgotten
  (`MonitorServed` names it), and with it the monitor request of `ProcessDetach`: the session is then left
  running and its `CHld` deleted under it. The task itself ends, unless it waits for IP data
  for ever (`KillEnds`).
* A play request while a session is up is ignored by the session; a failing `fopen` leaves the
  task in `TH_NONE` with the session running; a record request does not stop a session.
* A file is leaked only by a request that came after the loop's first test or in two
  states in which that test does not look (`LeakOnlyUnseen`).

*File playback.*

* The null packets of the tenths of `gfRatio` come in one burst behind every tenth packet, up
  to nine of them, where the guard of `hld_fs_rdwr.cpp:1131` counts on an average. And a packet
  that none seems to follow is moved to the second ring while it stays in the first one, for the search
  to begin with: at most one packet in three is, because the search asks for three in a row, so up to
  half as many bytes again are moved as were read. The rings stay sound as long as
  `Roomy`, which counts both, holds; at 5.9 with these rings it does not, and the playback may jam
  (`Jammed`).
* A short read counts as a whole bank, so the end of a file is followed by what the ring
  held before. A packet that lost synchronisation is in the ring once more, but is not
  sent twice (`MovedOnce`). At most a bank is left unsent at the end; when exactly
  one is, at a rate above 1.0, the end is not noticed at all (`EvenEnd`).
* When the data ends while `TL_SyncLockFunction` answers with another length than the file's, half
  a window is skipped and the ring passes for synchronised (`hld_fs_rdwr.cpp:1124`), contrary to the
  comment there ("sync pos is ok of the playback buf."). The next packet is then moved from
  wherever the ring begins. It is one packet: the test behind it finds out (`Locked` excepts it, as
  `blind`).
* A file that cannot be opened again ends in `TH_NONE`.
* A seek before the first read is discarded; a next file named during playback is forgotten; a
  file whose first bank has no synchronisation is read again for ever
  (`Unlockable`).

*Loop-through.*

* The task clears its flag before it stops the session and frees the buffer
  (`hld_fmtr_loopthru.cpp:757`). Until it is over, the main task may launch the next
  task, whose buffer it then frees; start a session that it then stops; or, by `START_REC`, clear
  the flag of a task at work. `met` names exactly these overlaps and
  `Sound` shows that nothing else breaks the agreement of counts, buffer, flag and session. The
  engine may end, and its `CHld` be deleted, with a task still ending.
* `SetTsio_Direction` to the looping direction blocks until something ends the loop. With
  `TSIO_310_LOOPTHRU` a task is launched that ends at once. A play request in the ASI
  direction starts a session from ASI.
* The tests of `GetAsiInputData` are on unsigned differences: a count smaller than the piece and a
  place to write behind the place to read both pass for plenty, and two of them (956, 962) compare
  with zero and are always true. What keeps the reader back is that it leaves `Level` in the count
  (`Agree`). But the count includes what was skipped before the first packet (876). If the packets
  were found in the first `Level` bytes (2 MB), the reader is never beyond what was captured;
  if they were found later, it may be, by as much as they were found later, and then plays what
  the ring held before.
* `StartRecord` opens the file before it sets the capture flag, so the task may close it
  in between (`hld_fmtr_ip.cpp:1423`). A task that searches does not look at requests, and
  closes a file opened to be played.

## 6. Proofs

All constants are arbitrary: any set of medias, any sizes with
`MuxCap >= 2 * BlockUnits` and `BlockUnits >= ItemUnits` (`PlaybackAssumption`; 8 MB,
1 MB and a little less in the code), any number of senders, any item size, any pool of at least four
slots and any sender whose packets are no longer than `Mtu`, any buffer with units and wants no
longer than it, any file whose packets are all of one length in
its first bank (`FilesAssumption`), any block, ring and levels of the loop-through with `Level <= Enable`,
`Enable + Block <= Ring` and `2 * Ring <= Width`, pieces no longer than `Level`, packets found anywhere.

* `Playback`, `TypeCorrect`: `TypeOK` is inductive as it stands. The capacities need
  the numbers that the code computes before it stores: `room[m]` for a media,
  `Least(...)` for the multiplexed buffer.
* `LifecycleCorrect`: `OrderedShutdown`, `TouchesLive` and `Quiescent` are not
  inductive: that no thread runs when `stop()` returns follows from each having been
  seen `FINISH` at its turn, and that a `FINISH` is not stale follows from
  `tlv_thread_create` having overwritten it. `Lifecycle` says this for each thread in terms of
  where the command thread is (`CommandPhase`, `ObserverPhase`, `ConsumerPhase`,
  `ProducerPhase`, `MediaPhase`). It is inductive on top of `TypeOK`, and the three
  properties are read off it: `OrderedShutdownCorrect`, `TouchesLiveCorrect`,
  `QuiescentCorrect`.
* `NoLostMuxSignalCorrect`: only `ProducerStore` can make a block complete, and it leaves
  the producer at "signal". Inductive on top of `Lifecycle`, which is needed because
  INIT, QUIT and PLAY empty the buffer only while no thread runs.
* `NoCircularWaitCorrect`: the producer sleeps only when there is no room for a block, so at
  least a block is buffered (`MuxCap >= 2 * BlockUnits`), and then by
  `NoLostMuxSignal` the output is not asleep; the output wakes the producer before it
  sleeps. A media wakes the producer before it sleeps and the producer the media.
* `ItemFitsCorrect`: `RoomForItem` - once `main_loop` has seen room for a block only the
  producer itself fills the buffer - is the inductive strengthening.
* `StreamCorrect`: the session implements `Stream`, every step a step of the abstract
  specification or none it sees. `StreamInv`, inductive on top of `TypeOK` and `Lifecycle`, says
  why a session begins clean and ends without anyone noticing: a media's buffer holds its own
  packets alone (`OwnPackets`); the producer starts with an empty item and abandons one only after
  it was told to end (`NoItemYet`); until every media of a session is open nothing is in the
  buffers behind them, although the multiplexed buffer and `dma_buffer` outlive `stop()`
  (`NothingYet`, which needs that the producer asks for no packet before no media is at
  READING_INPUT); and both ends count from 0 (`FromZero`). `ItemFits` is what makes
  `ProducerStore` lose nothing. One lemma per step of `Stream` says what it asks of the values its
  variables have in a session (`OpenMap`, `GiveMap`, `BlockMap`, `CloseMap`, `SetFatesMap`), and one per
  thread (`RequestMaps`, `CommandMaps`, `MediaMaps`, `ProducerMaps`, `ConsumerMaps`) which of them
  each of its steps is. `Close` is the moment `stop()` writes END_OUTPUT: what the threads do to
  the buffers afterwards is not seen. That what `Of` picks from joined buffers is what it picks
  from each (`OfConcat`), and as many as `Count` counts (`OfLength`), goes by the least number that
  fails (`LeastNat`, `SequencesReached`).
* `MonitorReleasesCorrect`, an action property: requests are sent one at a time, so that when
  only QUIT is left of a request for the monitor, `stop()` has run and the session is one that QUIT
  releases, or was paused (`RequestsInv`, on top of `TypeOK`): no thread but the command thread
  writes `playback_state` (`ThreadsLeaveRequests`).
* `CircularBuffer`, `FullAndEmptyAgreeCorrect`: the positions stay on cells under every
  call, from a lemma about advancing modulo the number of cells.
* `FifoCorrect`: it implements `BoundedFifo`. The store is listed by the positions from
  `cir_buff_start` on; each call is one call of the store with the same result, the copies that
  wrap in two parts, and what cannot be had or does not fit leaves it as it is.
* `MessageQueue`, `TypeCorrect` and `SmallNumbersIntactCorrect`: what waits in the queue
  are the encodings of what was sent, in its order (`BytesInv`, which needs the history
  variables `sent` and `expected`), and decoding gives back a number whose low byte is
  below half of `Byte`.
* `NoSleepOnMessageCorrect`, `FailsOnlySpuriouslyCorrect`: a sleeping receiver has an empty
  queue, so that the send that wakes it has room for its message (`QueueCap >= 1`), and
  nobody else takes from the queue.
* `MainTask`, `HandlesMatchCorrect`: what the state says of file and session holds at every
  step of a turn (`MatchInv`), because `Determine` either leaves the state or makes it one
  of which nothing is said; only a new playback has a session, and only a task in
  "prepare", whose state is `CONT_PLAY`, brings it up.
* `LeakOnlyUnseenCorrect`, an action property: between the turn's first test and its handler
  what the test saw is closed, or the state was one of the two (`Seen`, on top of `MatchInv`).
* `IpBuffer`, `TypeCorrect`; `CopiesLiveCorrect`: whoever holds the mutex has seen that the
  stream is wanted; it stays so, as `Stop` needs the mutex, and the pump of a wanted
  stream does not end (`HeldInv`).
* `RefillsAfterUnderrunCorrect`, an action property: as long as the buffer is dry its state is
  "underover" and its count below `Bfp` (`DryInv`), so nothing is copied; the comparison of
  rates may have the monitor start anew only from "progress".
* `IntactCorrect`: a place of the buffer holds the last byte that was put in it; so the bytes of
  the last turn are in their places whether or not the media has kept up (`InPlace`, `BytesInv`), and
  when it has, these are what it takes.
* `IpSession`, `StreamsFromRequestedCorrect`: a patient user is in the middle of a call only
  while the daemon rests or is on its way to rest (`PatientInv`), so the two points at which
  the daemon reads the configuration see the same one.
* `RtpPool`, `WriteSlotUnreadCorrect`: a packet begun is the first one that waits; the overflow
  test keeps the two places apart (`NotFullKeepsApart`), and the mutex is held as long as
  a piece is copied, so the slot it comes from is not the one to write (`ReadInv`).

* `LostCountsJumpsCorrect`: the packet to be looked at is the last one sent, and `seq` is the number
  of the last one looked at modulo `SeqMod` (`SequenceInv`); the comparison of two numbers up to `SeqMod`
  apart tells exactly the next one from the others, also across the wrap (`JumpSeen`).
* `QueueCorrect`: for senders whose packets are all alike the pool implements `PacketQueue`. The
  queue are the slots from `First` on, which is `rd` or, while the last piece of a packet is
  copied, the slot `rd` has just left. `QueueInv` says that these hold the packets as they came
  (`SlotsInv`), because `recvfrom` writes elsewhere (`ReadInv`), and that the piece about to be copied
  lies where the last one ended (`PieceInv`); so no packet is ever taken for broken
  (`NotBroken`). There is one lemma per action; the lemmas about places of the ring (`At`, `DiffAfter`) and
  about sequences given element by element (`Appended`, `Removed`, `Preceded`) are stated once.
* `FilePlay`, `PlayCorrect`, `RingsSoundCorrect`, and `MovedOnceCorrect`, an action property. The
  counts and indices of each ring agree at any rate (`ShapeInv`, `FlowInv`, `Consistent`). That the
  rings have room and the synchronisation holds is said of rates they are made for (`Roomy`) and
  rests on an amount that no step increases but reading a bank (`Weight`): what is in the second
  ring, one and a half times what the first may still send there at the play rate, the tenths owed
  in null packets, and what the packets moved since the last search have saved up; it stays below
  `MaxWeight`, for which the second ring has room (`LoadInv`, `SyncInv`). A search that succeeds has seen
  the synchronisation byte three times, so for two packets more the next one is in place
  (`Ahead`; `LEMMA Answers` says what an answer of the right length has seen, be it in the copy of the
  window or not); after that the test before each packet takes over. An unread packet has been moved
  only when it is the one the search begins with and none follows it (`TakenInv`), and the search
  passes over that one, because the next is not in place. A look that is answered with another length
  skips half a window, which pays for the packet that may be moved after it without synchronisation.
* `LoopThrough`, `TypeCorrect`; `SoundCorrect`: as long as `met` is false there is one task,
  which has its buffer and, at work, its flag, and the main task takes nothing over that it has
  not seen at its end (`AloneInv`); the place of the task says how far its session is (`SessionInv`); what
  a session plays from follows from the user's wait for the flag (`DirectionInv`); without a
  task there is neither flag nor buffer (`HeldInv`); and the count less `offset` agrees with the distance of the places modulo the ring,
  with `Level` left whenever something reads (`CountInv`, whose arithmetic is that of the `Agreed`
  lemmas). None of these holds alone, and none
  without `met`: the steps at which two tasks overlap are those that set it.

TLC checked every invariant named here as an invariant before it was proved; `Lifecycle`,
`ItemFits`, the parts of `StreamInv` and `PlayInv`, and `TypeOK` of `LoopThrough` are stated by
theorems only and are not repeated in the runs.

*Data.* What a recursive function computes is shown without an induction theorem that takes
a predicate: a set of naturals that is not empty has a least element (`NatLessThanWellFounded`,
`WFMin`), so a set that has 0 and n + 1 with every n has all naturals, and a set that has the empty
sequence and every extension of its members has all sequences.

*Only model-checked*: liveness, because fairness and ENABLED are out of the prover's reach -
`Streams`, `StopCompletesOrStrands`, `QueueDrains`, `SendReturns`, `RequestServed`,
`CloseReturns`, `StopsReceiving`, `KillEnds`, `MonitorServed`, `Drains`, `PlaysToEnd`, `Ends`,
`Revives`. Every invariant, action property and refinement of the passing runs is a
theorem.

## 7. Plan

If at all, the pair of loop-through tasks of ISDB-T and ATSC-M/H as a model of its own, and the
remultiplexed file input of ISDB-T.

## 8. Not modelled

Most of the repository is not the program's own logic: drivers, register tables, tuning
tables, the agent's command line, vendored libraries and parsers of transport streams
make up the bulk of its lines. In particular:

* `src/lld`, `hld_ctl_hwbuf.cpp` beyond its wait for room: register sequences and direct memory
  access; hardware decides what they do. Command line and tuning tables: data. Logs: wording.
* `shmem`, `libusb`, `PlxSdk`, `libvlc`: third-party; `rbf`: FPGA images; `HLD_DEMO`:
  samples; `corelib/win32`: not part of the Linux build.
* What the multiplexers make of the packets (T2-MI, baseband frames, PCR, TMCC) and
  what captured packets are reformatted to; stuffing and bit rates, except for the
  null packets of `FilePlay`.
* `CTLVIPServer`: never created (`hldplay.cpp:96-105`). `MTSRemux`: a file media whose
  contents the remultiplexer decides.
* SEEK, REWIND and GET_TS_BITRATE: they reach the multiplexer's `ioctl`, and every
  multiplexer ignores them or only reads.
* N-item calls of the circular buffer on items of several bytes, which copy a wrong length
  when they wrap: no caller makes them.
* The estimate of bitrate and packet size in `CTLVFile::open`, PID filters, and a file
  that cannot be opened there: it goes on with a null handle, which is undefined.
* Signals to condition variables that a media has not initialised yet or has destroyed
  already: undefined; the model keeps them for ever.
* `MainTask`: I/Q and BERT modes, the delay and pause flags, `TH_STOP_REC`, failures of
  the board in other handlers than START_PLAY.
* `FilePlay`: a file whose first bank shows more than one packet length (`FilesAssumption`), a
  next file of another packet length, a repeated section, TMCC, T-DMB, CMMB
  and ISDB-T frames of 13 segments, IP sources of this path, what is changed inside a
  packet, banks that do not divide a ring, more than one decimal of `gfRatio`.
* `LoopThrough`: the tasks of other standards, DMA and its file mutex, an overrun of the
  ring (`AdjCapPlayClkSpeed` is taken to keep pace), contents, waits inside the T2-MI pump.
* `RtpPool`: a pool freed while the reader is in `TsRead`; `IpBuffer`: two pumps on one
  buffer.
