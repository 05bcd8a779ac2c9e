------------------------------- MODULE MainTask -------------------------------
(***************************************************************************)
(* The main task of a board (TSPHLD0390/hldmgr.cpp, hldplayback.cpp,       *)
(* hldcapture.cpp, hldmonitor.cpp, with the flags of hld_gvar.cpp).  The   *)
(* user's threads set flags; the main task looks at them at several points *)
(* of its loop, without a lock, and clears them all at one.  A call of the *)
(* user is one step: its flag is what it writes last.  The session is what *)
(* Playback is about; it is up or not here.                                *)
(***************************************************************************)
CONSTANT Modulations   (* whether is_new_playback() holds                  *)

ASSUME MainTaskAssumption == Modulations \subseteq BOOLEAN

VARIABLES
  new,           (* is_new_playback(), once and for all                    *)
  asked, kill,   (* AP_fStart...Request that are set; AP_fKillThreadRequest*)
  using,         (* IPUsing                                                *)
  receiving,     (* Vlc_Recv_or_RecvRec: the user's source is an IP stream *)
  upc,           (* the user: "calls", "detach", "gone"                    *)
  state,         (* TL_fThreadState                                        *)
  handle,        (* AP_hFile: "none", "play", "rec"                        *)
  leaked,        (* an open AP_hFile has been overwritten                  *)
  session,       (* the session of a new playback is up                    *)
  pc,            (* the main task                                          *)
  noticed, was,  (* what the loop's first test saw: a request, which state *)
  seen,          (* the requests that the state was determined from        *)
  forgotten      (* those cleared at the end of it that it had not seen    *)

flags == <<asked, kill>>
user == <<using, receiving, upc>>
task == <<state, handle, leaked, session, pc>>
history == <<noticed, was, seen, forgotten>>
vars == <<new, flags, user, task, history>>

Requests == {"play", "rec", "mon"}
LoopStates == {"NONE", "START_MON", "CONT_MON", "START_REC", "CONT_REC",
               "START_PLAY", "CONT_PLAY", "END_PLAY"}

Init ==
  /\ new \in Modulations
  /\ asked = {} /\ kill = FALSE /\ using = FALSE /\ receiving = FALSE /\ upc = "calls"
  /\ state = "NONE" /\ handle = "none" /\ leaked = FALSE /\ session = FALSE /\ pc = "top"
  /\ noticed = FALSE /\ was = "NONE" /\ seen = {} /\ forgotten = {}

-----------------------------------------------------------------------------
(* The user.                                                               *)

Ask(request) ==
  /\ upc = "calls" /\ asked' = asked \cup {request}
  /\ UNCHANGED <<new, kill, upc, task, history>>

(* Playing a file leaves the source as it was, if it was an IP stream.     *)
StartPlay == Ask("play") /\ using' = FALSE /\ receiving' = receiving

StartIpStreaming == Ask("play") /\ using' = TRUE /\ receiving' = TRUE

StartRecord == Ask("rec") /\ UNCHANGED <<using, receiving>>

StartMonitor == Ask("mon") /\ using' = FALSE /\ receiving' = (receiving /\ ~using)

(* ProcessDetach asks for the monitor and then for the end; the source     *)
(* stays what it was.                                                      *)
Detach ==
  /\ upc = "calls" /\ upc' = "detach" /\ asked' = asked \cup {"mon"}
  /\ UNCHANGED <<new, kill, using, receiving, task, history>>

DetachKill ==
  /\ upc = "detach" /\ upc' = "gone" /\ kill' = TRUE
  /\ UNCHANGED <<new, asked, using, receiving, task, history>>

-----------------------------------------------------------------------------
(* The main task: HLD_StateMainLoop.                                       *)

At(here, there) == pc = here /\ pc' = there

(* What is playing or being recorded is closed when something new is asked *)
(* for.                                                                    *)
MUT_StopPlay == kill /\ state = "CONT_PLAY"     \* mutant: only to end the task
StopPlay == (asked # {} \/ kill) /\ state = "CONT_PLAY"
StopRecording == (asked # {} \/ kill) /\ state = "CONT_REC"

Top ==
  /\ At("top", "kill")
  /\ handle' = IF StopPlay \/ StopRecording THEN "none" ELSE handle
  /\ noticed' = (asked # {} \/ kill) /\ was' = state
  /\ UNCHANGED <<new, flags, user, state, leaked, session, seen, forgotten>>

(* At the end HLDThreadEngine clears the flags and leaves the rest.        *)
ReqedKill ==
  /\ pc = "kill"
  /\ IF kill THEN pc' = "ended" /\ asked' = {} ELSE pc' = "determine" /\ asked' = asked
  /\ UNCHANGED <<new, kill, user, state, handle, leaked, session, history>>

(* DetermineMainTaskState_from_UserReq: it chooses by the flags and sleeps *)
(* 100 ms if there is one ...                                              *)
Chosen ==
  CASE "play" \in asked -> "START_PLAY"
    [] "play" \notin asked /\ "rec" \in asked -> "START_REC"
    [] asked = {"mon"} -> "START_MON"
    [] OTHER -> state

Determine ==
  /\ At("determine", "reset")
  /\ state' = Chosen /\ seen' = asked /\ forgotten' = {}
  /\ UNCHANGED <<new, flags, user, handle, leaked, session, noticed, was>>

MUT_KillKept == FALSE                           \* mutant: the line that is commented out
KillKept == kill

(* ... and then ResetAllReqedState_User clears them all.                   *)
Reset ==
  /\ pc = "reset" /\ pc' = IF state = "NONE" THEN "top" ELSE "dispatch"
  /\ asked' = {} /\ kill' = KillKept
  /\ forgotten' = asked \ seen
  /\ UNCHANGED <<new, user, state, handle, leaked, session, noticed, was, seen>>

(* fopen, which forgets the file that was open; it may fail.               *)
Opened(use) == handle' \in {use, "none"} /\ leaked' = (leaked \/ handle # "none")

MUT_Stopped == session                          \* mutant: STOP and QUIT not sent
Stopped == session /\ ~new

StartMon ==
  /\ At("dispatch", "top") /\ state = "START_MON" /\ state' = "CONT_MON"
  /\ session' = Stopped /\ handle' = "none"
  /\ UNCHANGED <<new, flags, user, leaked, history>>

StartRec ==
  /\ At("dispatch", "top") /\ state = "START_REC" /\ state' = "CONT_REC"
  /\ Opened("rec")
  /\ UNCHANGED <<new, flags, user, session, history>>

(* HLD_TH_CONT_MON, HLD_TH_CONT_REC, and HLD_TH_CONT_PLAY of a new         *)
(* playback, whose session goes on by itself.                              *)
Cont ==
  /\ At("dispatch", "top")
  /\ state \in {"CONT_MON", "CONT_REC"} \/ (new /\ state = "CONT_PLAY")
  /\ UNCHANGED <<new, flags, user, state, handle, leaked, session, history>>

(* HLD_TH_CONT_PLAY of an old playback: it opens the file where it was     *)
(* closed, or reads it, perhaps to its end.                                *)
ContPlay ==
  /\ At("dispatch", "top") /\ ~new /\ state = "CONT_PLAY"
  /\ IF handle = "none"
       THEN Opened("play") /\ state' = IF handle' = "none" THEN "NONE" ELSE state
       ELSE state' \in {state, "END_PLAY"} /\ UNCHANGED <<handle, leaked>>
  /\ UNCHANGED <<new, flags, user, session, history>>

(* HLD_TH_END_PLAY: from the start again with the file still open, or      *)
(* closed, and again when the application has named the next one.          *)
EndPlay ==
  /\ At("dispatch", "top") /\ state = "END_PLAY"
  /\ \/ handle # "none" /\ state' = "CONT_PLAY" /\ handle' = handle
     \/ handle # "none" /\ state' = state /\ handle' = "none"
     \/ handle = "none" /\ state' \in {state, "CONT_PLAY"} /\ handle' = handle
  /\ UNCHANGED <<new, flags, user, leaked, session, history>>

-----------------------------------------------------------------------------
(* HLD_TH_START_PLAY, which waits for an IP stream on its way.             *)

StartPlaying ==
  /\ pc = "dispatch" /\ state = "START_PLAY"
  /\ Opened("play")
  /\ IF handle' = "none"
       THEN state' = "NONE" /\ pc' = "top"
       ELSE state' = "CONT_PLAY" /\ pc' = IF receiving THEN "receive" ELSE "prepare"
  /\ UNCHANGED <<new, flags, user, session, history>>

(* LaunchIpBufProducer_Task looks only at the source until data come ...   *)
SourceGone ==
  /\ pc = "receive" /\ ~receiving
  /\ pc' \in {"top", "prepare"}
  /\ UNCHANGED <<new, flags, user, state, handle, leaked, session, history>>

DataCome ==
  /\ pc = "receive"
  /\ pc' = IF using /\ receiving THEN "fill" ELSE "prepare"
  /\ UNCHANGED <<new, flags, user, state, handle, leaked, session, history>>

(* ... and then at the requests until there are enough of them.            *)
MUT_GivenUp == FALSE                            \* mutant: it does not look
GivenUp == asked # {}

FillGivenUp ==
  /\ pc = "fill" /\ GivenUp
  /\ pc' = IF new THEN "top" ELSE "prepare"
  /\ UNCHANGED <<new, flags, user, state, handle, leaked, session, history>>

Filled ==
  /\ At("fill", "prepare")
  /\ UNCHANGED <<new, flags, user, state, handle, leaked, session, history>>

(* The board or the remuxer may fail; a new playback starts the session,   *)
(* which ignores INIT and PLAY when it is up.                              *)
Prepare ==
  /\ At("prepare", "top")
  /\ \/ UNCHANGED <<state, session>>
     \/ state' = "START_MON" /\ UNCHANGED session
     \/ new /\ session' = TRUE /\ UNCHANGED state
  /\ UNCHANGED <<new, flags, user, handle, leaked, history>>

-----------------------------------------------------------------------------
User == StartPlay \/ StartIpStreaming \/ StartRecord \/ StartMonitor \/ Detach
IpData == DataCome \/ Filled

Main ==
  \/ Top \/ ReqedKill \/ Determine \/ Reset
  \/ StartMon \/ StartRec \/ Cont \/ ContPlay \/ EndPlay
  \/ StartPlaying \/ SourceGone \/ FillGivenUp \/ Prepare

Next == User \/ DetachKill \/ IpData \/ Main

Spec == Init /\ [][Next]_vars

(* The main task runs, and a detach once begun goes on.  Nothing makes IP  *)
(* data come, nor the user call.                                           *)
Fairness == WF_vars(Main) /\ WF_vars(DetachKill)
FairSpec == Spec /\ Fairness

-----------------------------------------------------------------------------
TypeOK ==
  /\ new \in BOOLEAN /\ asked \subseteq Requests /\ kill \in BOOLEAN
  /\ using \in BOOLEAN /\ receiving \in BOOLEAN /\ upc \in {"calls", "detach", "gone"}
  /\ state \in LoopStates /\ handle \in {"none", "play", "rec"}
  /\ leaked \in BOOLEAN /\ session \in BOOLEAN
  /\ pc \in {"top", "kill", "determine", "reset", "dispatch", "receive", "fill", "prepare", "ended"}
  /\ noticed \in BOOLEAN /\ was \in LoopStates /\ seen \subseteq Requests /\ forgotten \subseteq Requests

(* In the monitor nothing is open and no session runs, a file opened to be *)
(* played is never what is recorded into, nor the other way round: over    *)
(* every order of requests (the handlers of hldplayback.cpp, hldcapture.cpp*)
(* and hldmonitor.cpp, which share AP_hFile).                              *)
Released == state = "CONT_MON" /\ ~session /\ handle = "none"
HandlesMatch ==
  pc \in {"top", "kill", "determine"} =>
    /\ state = "CONT_MON" => Released
    /\ state = "NONE" => handle = "none"
    /\ state = "CONT_REC" => handle # "play"
    /\ state \in {"CONT_PLAY", "END_PLAY"} => handle # "rec"

(* An open file is lost only by a request that was not there at the loop's *)
(* first test, or in one of the two states in which that test does not     *)
(* close it (HappenedCond_StopPlay and _StopRecording, OpenFile_PlayMode). *)
LeakOnlyUnseen ==
  [][leaked' # leaked => ~noticed \/ was \in {"START_MON", "END_PLAY"}]_vars

(* The main task waits for IP data without looking at the flags, or with   *)
(* none set any more.                                                      *)
Stranded == (pc = "receive" /\ receiving) \/ (pc = "fill" /\ asked = {})

(* A task told to end does so, whatever was asked before, unless it waits  *)
(* for IP data for ever: LaunchIpBufProducer_Task never looks at the flag  *)
(* for the end, and the request for the monitor that ProcessDetach makes   *)
(* with it may be the one that Reset clears unseen.                        *)
KillEnds == <>kill => <>(pc = "ended") \/ <>[]Stranded

(* Who asks for the monitor gets it, unless something else is asked for as *)
(* well, the request falls into the sleep between Determine and Reset, or  *)
(* the task waits for IP data for ever.                                    *)
MonitorServed ==
  \/ <>[]Stranded
  \/ "mon" \in asked ~> Released \/ asked \cap {"play", "rec"} # {} \/ "mon" \in forgotten \/ kill
=============================================================================
