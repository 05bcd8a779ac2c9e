----------------------------- MODULE LoopThrough -----------------------------
(***************************************************************************)
(* The loop-through of DVB-T2 and DVB-C2 (hld_fmtr_loopthru.cpp): a task   *)
(* of its own captures what comes in at the ASI input into a buffer, starts*)
(* a session that plays from there, and starts it again after the input    *)
(* was lost.  The main task and the user's threads work on the same        *)
(* session, buffer, flags and recording; the buffer's counters have a      *)
(* mutex, nothing else has.  The main task is told in full in MainTask,    *)
(* the session in Playback.                                                *)
(***************************************************************************)
EXTENDS Integers, FiniteSets

CONSTANTS
  Tasks,      (* the loop-through tasks there may be at once                *)
  Block,      (* bytes captured at once: 1 MB                               *)
  Enable,     (* bytes captured before the session starts: 4 MB             *)
  Level,      (* bytes the session's reader leaves: 2 MB                    *)
  Starts,     (* the places where the first packet may start: any           *)
  Pieces,     (* bytes the reader asks for: up to 60 KB                     *)
  Ring,       (* bytes inter_buf_capplay has room for: 32 MB                *)
  Width,      (* values of an unsigned int: 2^32                            *)
  MaxCalls    (* a bound: what the user calls and how often the input fails *)

ASSUME LoopThroughAssumption ==
  /\ {Block, Level, Enable, Ring, Width} \subseteq Nat \ {0} /\ MaxCalls \in Nat
  /\ Level <= Enable /\ Enable + Block <= Ring /\ Ring + Ring <= Width
  /\ Starts \subseteq Nat /\ Pieces \subseteq 1 .. Level

VARIABLES
  direction,  (* TL_InputDirection: "file", "310", "asi"                    *)
  asked, kill,(* AP_fStart...Request that are set; AP_fKillThreadRequest    *)
  upc, calls, (* the user, and how much of MaxCalls is used up              *)
  state, mpc, (* TL_fThreadState and where the main task is                 *)
  flag,       (* Flag_CapLoopThru                                           *)
  tpc,        (* where the loop-through tasks are, "off" if there is none   *)
  buffer,     (* inter_buf_capplay is allocated                             *)
  cnt,        (* cnt_byte_availabe_caped                                    *)
  wr, rd,     (* inter_buf_wr_ptr and inter_buf_rd_ptr                      *)
  locked,     (* the board is locked to a signal at the ASI input           *)
  session,    (* playback_state: "NONE", "INIT", "PLAY"                     *)
  source,     (* the session's media: "file", "asi"                         *)
  handle,     (* AP_hFile: "none", "play", "rec"                            *)
  capture,    (* g_DvbT2_FileCaptureFlag                                    *)
  offset,     (* a history variable: where the packets were found to start, *)
              (* which is where reading began                               *)
  met         (* a history variable: the main task made the buffer for a    *)
              (* task, a session or a recording with an old task still there*)

user == <<asked, kill, upc, calls>>
main == <<state, mpc>>
loop == <<flag, tpc>>
count == <<cnt, wr, rd, offset>>
ring == <<buffer, count>>
play == <<session, source>>
file == <<handle, capture>>
vars == <<direction, user, main, loop, ring, locked, play, file, met>>

Init ==
  /\ direction \in {"file", "asi"} /\ asked = {} /\ kill = FALSE /\ upc = "calls" /\ calls = 0
  /\ state = "NONE" /\ mpc = "top" /\ flag = FALSE /\ tpc = [t \in Tasks |-> "off"]
  /\ buffer = FALSE /\ cnt = 0 /\ wr = 0 /\ rd = 0 /\ offset = 0 /\ locked \in BOOLEAN
  /\ session = "NONE" /\ source = "file" /\ handle = "none" /\ capture = FALSE /\ met = FALSE

LoopThruState == direction \in {"310", "asi"}     \* IsState_DvbT2LoopThru
CapMode == direction = "asi" /\ flag              \* IsCapMod_DvbT2

-----------------------------------------------------------------------------
(* playback_receive_request for one caller: a call takes as long as its    *)
(* caller is at it, and what it does to the session is what it does when   *)
(* it ends (Playback has the steps in between).                            *)

Request(message) ==
  /\ session' = CASE message = "INIT" /\ session = "NONE" -> "INIT"
                  [] message = "PLAY" /\ session = "INIT" -> "PLAY"
                  [] message = "STOP" /\ session = "PLAY" -> "INIT"
                  [] message = "QUIT" /\ session = "INIT" -> "NONE"
                  [] OTHER -> session
  /\ source' = IF message = "INIT" /\ session = "NONE"
                 THEN IF LoopThruState THEN "asi" ELSE "file" ELSE source

-----------------------------------------------------------------------------
(* The user.                                                               *)

Calls == upc = "calls" /\ calls < MaxCalls /\ calls' = calls + 1

(* SetTsio_Direction: it returns when no loop-through is at work.          *)
SetDirection ==
  /\ Calls /\ direction' \in {"file", "310", "asi"} /\ upc' = "direction"
  /\ UNCHANGED <<asked, kill, main, loop, ring, locked, play, file, met>>

DirectionSet ==
  /\ upc = "direction" /\ ~flag /\ upc' = "calls"
  /\ UNCHANGED <<direction, asked, kill, calls, main, loop, ring, locked, play, file, met>>

Ask(request) ==
  /\ Calls /\ asked' = asked \cup {request}
  /\ UNCHANGED <<direction, kill, upc, main, loop, ring, locked, play, file, met>>

StartMonitor == Ask("mon")
StartPlay == Ask("play")

(* StartRecord in a loop-through opens the file itself and then says so,   *)
(* or ends the recording that runs; without one it asks the main task.     *)
StartRecord ==
  \/ ~(LoopThruState /\ flag) /\ Ask("rec")
  \/ /\ Calls /\ LoopThruState /\ flag
     /\ IF handle = "none"
          THEN handle' \in {"rec", "none"} /\ upc' = "record" /\ UNCHANGED capture
          ELSE capture' = FALSE /\ UNCHANGED <<handle, upc>>
     /\ UNCHANGED <<direction, asked, kill, main, loop, ring, locked, play, met>>

RecordOn ==
  /\ upc = "record" /\ upc' = "calls" /\ capture' = TRUE
  /\ UNCHANGED <<direction, asked, kill, calls, main, loop, ring, locked, play, handle, met>>

(* ProcessDetach.                                                          *)
Detach ==
  /\ Calls /\ upc' = "detach" /\ asked' = asked \cup {"mon"}
  /\ UNCHANGED <<direction, kill, main, loop, ring, locked, play, file, met>>

DetachKill ==
  /\ upc = "detach" /\ upc' = "gone" /\ kill' = TRUE
  /\ UNCHANGED <<direction, asked, calls, main, loop, ring, locked, play, file, met>>

(* The signal at the ASI input comes or goes.                              *)
Signal ==
  /\ calls < MaxCalls /\ calls' = calls + 1 /\ locked' = ~locked
  /\ UNCHANGED <<direction, asked, kill, upc, main, loop, ring, play, file, met>>

-----------------------------------------------------------------------------
(* The main task: HLD_StateMainLoop and the handlers.  Its tests of the    *)
(* flags up to DetermineMainTaskState_from_UserReq are one step here.      *)

Still == \E t \in Tasks : tpc[t] # "off"
Working(t) == tpc[t] \in {"search", "INIT", "PLAY", "loop", "STOP", "QUIT", "again"}

At(here, there) == mpc = here /\ mpc' = there

Chosen ==
  CASE "play" \in asked -> "START_PLAY"
    [] "play" \notin asked /\ "rec" \in asked -> "START_REC"
    [] asked = {"mon"} -> "START_MON"
    [] OTHER -> state

Top ==
  /\ mpc = "top"
  /\ IF kill THEN mpc' = "end" /\ UNCHANGED state ELSE mpc' = "reset" /\ state' = Chosen
  /\ handle' = IF (asked # {} \/ kill) /\ state \in {"CONT_PLAY", "CONT_REC"}
                 THEN "none" ELSE handle
  /\ UNCHANGED <<direction, user, loop, ring, locked, play, capture, met>>

(* A task that was launched has set its flag by the time the main task has *)
(* slept its 10 and 100 ms and looks at the next request.                  *)
Prompt == \A t \in Tasks : tpc[t] # "start"

Reset ==
  /\ mpc = "reset" /\ Prompt
  /\ asked' = {} /\ mpc' = IF state = "NONE" THEN "top" ELSE "dispatch"
  /\ UNCHANGED <<direction, kill, upc, calls, state, loop, ring, locked, play, file, met>>

(* HLD_MainTaskStateLoop_Monitor: nothing to do while one loops through,   *)
(* else HLD_TH_START_MON.                                                  *)
StartMon ==
  /\ mpc = "dispatch" /\ state = "START_MON"
  /\ IF LoopThruState /\ flag
       THEN state' = "CONT_MON" /\ mpc' = "top"
       ELSE mpc' = "STOP" /\ UNCHANGED state
  /\ met' = (met \/ (mpc' = "STOP" /\ \E t \in Tasks : Working(t)))
  /\ UNCHANGED <<direction, user, loop, ring, locked, play, file>>

MainRequest(message, next) ==
  /\ At(message, next) /\ Request(message)
  /\ UNCHANGED <<direction, user, state, loop, ring, locked, file, met>>

CloseFile ==
  /\ At("close", IF LoopThruState THEN "allocate" ELSE "top")
  /\ handle' = "none" /\ state' = "CONT_MON"
  /\ UNCHANGED <<direction, user, loop, ring, locked, play, capture, met>>

(* Launch_LoopThruCapTask.                                                 *)
Allocate ==
  /\ At("allocate", "launch") /\ buffer' = TRUE /\ met' = (met \/ Still)
  /\ UNCHANGED <<direction, user, state, loop, count, locked, play, file>>

Launch ==
  /\ At("launch", "top")
  /\ IF flag THEN UNCHANGED tpc
             ELSE /\ \E t \in Tasks : tpc[t] = "off"
                  /\ tpc' = [tpc EXCEPT ![CHOOSE t \in Tasks : tpc[t] = "off"] = "start"]
  /\ UNCHANGED <<direction, user, state, flag, ring, locked, play, file, met>>

StartRec ==
  /\ At("dispatch", "top") /\ state = "START_REC" /\ state' = "CONT_REC"
  /\ handle' \in {"rec", "none"} /\ flag' = FALSE
  /\ met' = (met \/ Still)
  /\ UNCHANGED <<direction, user, tpc, ring, locked, play, capture>>

StartPlaying ==
  /\ mpc = "dispatch" /\ state = "START_PLAY" /\ handle' \in {"play", "none"}
  /\ IF handle' = "none" THEN state' = "NONE" /\ mpc' = "top"
                         ELSE state' = "CONT_PLAY" /\ mpc' = "INIT"
  /\ met' = (met \/ (state' = "CONT_PLAY" /\ Still))
  /\ UNCHANGED <<direction, user, loop, ring, locked, play, capture>>

Cont ==
  /\ At("dispatch", "top") /\ state \in {"CONT_MON", "CONT_REC", "CONT_PLAY"}
  /\ UNCHANGED <<direction, user, state, loop, ring, locked, play, file, met>>

(* The end of HLDThreadEngine: the direction of a file, so that the loop-  *)
(* through ends.                                                           *)
EndEngine ==
  /\ At("end", "wait") /\ direction' = "file"
  /\ UNCHANGED <<user, state, loop, ring, locked, play, file, met>>

EngineEnded ==
  /\ At("wait", "ended") /\ ~flag /\ asked' = {}
  /\ UNCHANGED <<direction, kill, upc, calls, state, loop, ring, locked, play, file, met>>

Main ==
  \/ Top \/ Reset \/ StartMon \/ MainRequest("STOP", "QUIT") \/ MainRequest("QUIT", "close")
  \/ CloseFile \/ Allocate \/ Launch \/ StartRec \/ StartPlaying
  \/ MainRequest("INIT", "PLAY") \/ MainRequest("PLAY", "top") \/ Cont
  \/ EndEngine \/ EngineEnded

-----------------------------------------------------------------------------
(* The loop-through task: TaskCap_and_LoopThru_DvbT2.                      *)

Goto(t, here, there) == tpc[t] = here /\ tpc' = [tpc EXCEPT ![t] = there]

MUT_Afresh == cnt' = 0 /\ wr' = 0 /\ offset' = 0 /\ UNCHANGED rd
Afresh == cnt' = 0 /\ wr' = 0 /\ rd' = 0 /\ offset' = 0

Begin(t) ==
  /\ Goto(t, "start", "search") /\ flag' = TRUE /\ Afresh
  /\ UNCHANGED <<direction, user, main, buffer, locked, play, file, met>>

(* A block is put into the buffer and, when the user records, the file; a  *)
(* file that is not (or no longer) to be written is closed.  There is no   *)
(* test for room: AdjCapPlayClkSpeed keeps the output as fast as the input,*)
(* and a bound of the model keeps the ring from filling up.  A count of    *)
(* more than the ring holds is one that went below nothing.                *)
Store(next) ==
  /\ cnt \notin Ring - Block .. Ring - 1
  /\ IF buffer THEN cnt' = (cnt + Block) % Width /\ wr' = next ELSE UNCHANGED <<cnt, wr>>
  /\ handle' = IF buffer /\ ~capture THEN "none" ELSE handle

Wrapped(place) == IF place >= Ring THEN place - Ring ELSE place

(* Init_capture_buffer_dvbt2: from nothing whenever the signal is lost,    *)
(* until there is enough in which the packets can be found; if they cannot,*)
(* it begins again.                                                        *)
SearchLost(t) ==
  /\ tpc[t] = "search" /\ CapMode /\ ~locked /\ cnt' = 0 /\ wr' = 0
  /\ UNCHANGED <<direction, user, main, loop, buffer, rd, offset, locked, play, file, met>>

Searching(t) == tpc[t] = "search" /\ CapMode /\ locked /\ Store(wr + Block)

Search(t) ==
  /\ Searching(t) /\ wr' < Enable
  /\ UNCHANGED <<direction, user, main, loop, buffer, rd, offset, locked, play, capture, met>>

NoPackets(t) ==
  /\ tpc[t] = "search" /\ CapMode /\ locked /\ buffer /\ wr + Block >= Enable /\ Afresh
  /\ handle' = IF capture THEN handle ELSE "none"
  /\ UNCHANGED <<direction, user, main, loop, buffer, locked, play, capture, met>>

(* They are looked for in all that was captured, and reading begins where  *)
(* they start; what lies before stays counted.                             *)
Found(t) ==
  /\ Searching(t) /\ wr' >= Enable /\ Goto(t, "search", "INIT")
  /\ cnt' < Ring /\ rd' \in Starts /\ rd' < cnt' /\ offset' = rd'
  /\ UNCHANGED <<direction, user, main, flag, buffer, locked, play, capture, met>>

TaskRequest(t, here, message, there) ==
  /\ Goto(t, here, there) /\ Request(message)
  /\ UNCHANGED <<direction, user, main, flag, ring, locked, file, met>>

Capture(t) ==
  /\ tpc[t] = "loop" /\ CapMode /\ asked = {} /\ locked /\ Store(Wrapped(wr + Block))
  /\ UNCHANGED <<direction, user, main, loop, buffer, rd, offset, locked, play, capture, met>>

(* The signal is lost: the session is stopped.                             *)
Lost(t) ==
  /\ Goto(t, "loop", "STOP") /\ CapMode /\ asked = {} /\ ~locked
  /\ UNCHANGED <<direction, user, main, flag, ring, locked, play, file, met>>

MUT_Again(t) ==
  /\ Goto(t, "again", "loop") /\ Afresh
  /\ UNCHANGED <<direction, user, main, flag, buffer, locked, play, file, met>>

Again(t) ==
  /\ Goto(t, "again", "search") /\ Afresh
  /\ UNCHANGED <<direction, user, main, flag, buffer, locked, play, file, met>>

(* __END_TASK__: the flag first, then the session, then the buffer.        *)
MUT_Over(t) == tpc[t] = "loop" /\ (~CapMode \/ asked # {})

Over(t) ==
  \/ tpc[t] = "search" /\ ~CapMode
  \/ tpc[t] = "loop" /\ (~CapMode \/ asked # {})

EndTask(t) ==
  /\ Over(t) /\ flag' = FALSE /\ tpc' = [tpc EXCEPT ![t] = "end_stop"]
  /\ UNCHANGED <<direction, user, main, ring, locked, play, file, met>>

Free(t) ==
  /\ Goto(t, "free", "off") /\ buffer' = FALSE
  /\ UNCHANGED <<direction, user, main, flag, count, locked, play, file, met>>

Task(t) ==
  \/ Begin(t) \/ SearchLost(t) \/ Search(t) \/ NoPackets(t) \/ Found(t)
  \/ TaskRequest(t, "INIT", "INIT", "PLAY") \/ TaskRequest(t, "PLAY", "PLAY", "loop")
  \/ Capture(t) \/ Lost(t)
  \/ TaskRequest(t, "STOP", "STOP", "QUIT") \/ TaskRequest(t, "QUIT", "QUIT", "again") \/ Again(t)
  \/ EndTask(t) \/ TaskRequest(t, "end_stop", "STOP", "end_quit")
  \/ TaskRequest(t, "end_quit", "QUIT", "free") \/ Free(t)

(* GetAsiInputData for the session's media.  All is unsigned, so that less *)
(* than nothing is plenty: a count the piece is not in passes the first    *)
(* test, a place to write behind the place to read the second.  Reading    *)
(* may end right behind the ring and goes on at its start.                 *)
Take(piece) ==
  /\ session = "PLAY" /\ source = "asi" /\ buffer
  /\ (cnt - piece) % Width >= Level
  /\ (wr - rd) % Width >= piece
  /\ rd' = IF rd + piece > Ring THEN rd + piece - Ring ELSE rd + piece
  /\ cnt' = (cnt - piece) % Width
  /\ UNCHANGED <<direction, user, main, loop, buffer, wr, offset, locked, play, file, met>>

-----------------------------------------------------------------------------
Next ==
  \/ SetDirection \/ DirectionSet \/ StartMonitor \/ StartPlay \/ StartRecord \/ RecordOn
  \/ Detach \/ DetachKill \/ Signal \/ Main
  \/ \E t \in Tasks : Task(t)
  \/ \E piece \in Pieces : Take(piece)

Spec == Init /\ [][Next]_vars

Fairness ==
  /\ WF_vars(Main) /\ WF_vars(DirectionSet \/ RecordOn \/ DetachKill)
  /\ \A t \in Tasks : WF_vars(Task(t))
  /\ SF_vars(\E t \in Tasks : Found(t))
FairSpec == Spec /\ Fairness

-----------------------------------------------------------------------------
(* Every variable has a value the code gives it.  Only a search beside     *)
(* another task can bring the place to write to the end of the ring, for   *)
(* Init_capture_buffer_dvbt2 has no test for it.                           *)
TypeOK ==
  /\ direction \in {"file", "310", "asi"} /\ asked \subseteq {"play", "rec", "mon"}
  /\ kill \in BOOLEAN /\ upc \in {"calls", "direction", "record", "detach", "gone"}
  /\ calls \in 0 .. MaxCalls
  /\ state \in {"NONE", "START_MON", "CONT_MON", "START_REC", "CONT_REC", "START_PLAY", "CONT_PLAY"}
  /\ mpc \in {"top", "reset", "dispatch", "STOP", "QUIT", "close", "allocate", "launch", "INIT",
              "PLAY", "end", "wait", "ended"}
  /\ flag \in BOOLEAN /\ buffer \in BOOLEAN /\ cnt \in 0 .. Width - 1 /\ wr \in Nat
  /\ rd \in 0 .. Ring /\ offset \in 0 .. Ring - 1 /\ locked \in BOOLEAN
  /\ tpc \in [Tasks -> {"off", "start", "search", "INIT", "PLAY", "loop", "STOP", "QUIT", "again",
                        "end_stop", "end_quit", "free"}]
  /\ session \in {"NONE", "INIT", "PLAY"} /\ source \in {"file", "asi"}
  /\ handle \in {"none", "play", "rec"} /\ capture \in BOOLEAN /\ met \in BOOLEAN

(* What was captured and not read lies between the places, and the count   *)
(* is as much and what was skipped to find the packets: an upper bound of  *)
(* what can be read.  The reader leaves Level of the count, so that it is  *)
(* never beyond what was captured if the packets were found in the first   *)
(* Level bytes, and by no more than they were found later otherwise.       *)
Agree ==
  /\ (cnt - offset) % Ring = (wr - rd) % Ring
  /\ buffer /\ session = "PLAY" /\ source = "asi" => cnt \in Level .. Ring - 1

(* While the main task does not get to work beside a task that is still    *)
(* there, which it can (see met): the count of captured bytes agrees with  *)
(* the places to write and to read, on which GetAsiInputData's unsigned    *)
(* tests rest; a task at work has its buffer, which another task's end     *)
(* would free, and its flag, which another task's end or START_REC would   *)
(* clear; and one that captures feeds a session that plays from the ASI    *)
(* input (TaskCap_and_LoopThru_DvbT2).                                     *)
Sound ==
  met \/ /\ Agree
         /\ \A t \in Tasks : Working(t) => buffer /\ flag
         /\ \A t \in Tasks : tpc[t] = "loop" /\ CapMode => session = "PLAY" /\ source = "asi"

(* A user who takes the direction away from the loop-through gets out of   *)
(* TSPL_SET_TSIO_DIRECTION, which waits for the flag, and a main task told *)
(* to end gets out of HLDThreadEngine, whatever the loop-through tasks are *)
(* at; a user who sets the ASI loop-through again may wait for ever.       *)
Ends ==
  /\ upc = "direction" /\ direction # "asi" ~> upc # "direction"
  /\ kill ~> mpc = "ended"

(* A loop-through that is left alone with a signal plays in the end, however*)
(* often the signal was lost before (the way back to _SYNC_SEARCH_).       *)
Revives ==
  <>[](locked /\ CapMode /\ \E t \in Tasks : Working(t)) => <>[](session = "PLAY" \/ met)
=============================================================================
