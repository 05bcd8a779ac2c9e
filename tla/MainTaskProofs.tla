---------------------------- MODULE MainTaskProofs ----------------------------
(***************************************************************************)
(* Theorems about MainTask: its state, its file and its session agree, and *)
(* a file is leaked only by a request the turn's first test has not seen.  *)
(***************************************************************************)
EXTENDS MainTask, TLAPS

(* The type invariant: every flag and state of the main task has one of the*)
(* values the code gives it (hld_gvar.cpp), inductive as it stands.        *)
THEOREM TypeCorrect == Spec => []TypeOK
<1>1. Init => TypeOK
  BY MainTaskAssumption DEF Init, TypeOK, LoopStates, Requests
<1>2. TypeOK /\ [Next]_vars => TypeOK'
  <2> SUFFICES ASSUME TypeOK, [Next]_vars PROVE TypeOK'
    OBVIOUS
  <2> USE DEF TypeOK, history, task, user, flags
  <2>1. CASE StartPlay \/ StartIpStreaming \/ StartRecord \/ StartMonitor
    <3>1. asked' \subseteq Requests
      BY <2>1 DEF StartPlay, StartIpStreaming, StartRecord, StartMonitor, Ask, Requests
    <3>2. using' \in BOOLEAN /\ receiving' \in BOOLEAN
      BY <2>1 DEF StartPlay, StartIpStreaming, StartRecord, StartMonitor
    <3>3. UNCHANGED <<new, kill, upc, task, history>>
      BY <2>1 DEF StartPlay, StartIpStreaming, StartRecord, StartMonitor, Ask
    <3>4. QED
      BY <3>1, <3>2, <3>3
  <2>2. CASE Detach
    BY <2>2 DEF Detach, Requests
  <2>3. CASE DetachKill
    BY <2>3 DEF DetachKill
  <2>4. CASE IpData \/ SourceGone \/ FillGivenUp
    BY <2>4 DEF IpData, DataCome, Filled, SourceGone, FillGivenUp, At
  <2>5. CASE Prepare
    <3>1. pc' = "top" /\ UNCHANGED <<new, flags, user, handle, leaked, history>>
      BY <2>5 DEF Prepare, At
    <3>2. state' \in LoopStates /\ session' \in BOOLEAN
      BY <2>5 DEF Prepare, LoopStates
    <3>3. QED
      BY <3>1, <3>2
  <2>6. CASE Top
    <3> DEFINE request == asked # {} \/ kill
    <3>0. noticed' = request
      BY <2>6 DEF Top
    <3>1. noticed' \in BOOLEAN
      <4>1. request \in BOOLEAN
        OBVIOUS
      <4> HIDE DEF request
      <4>2. QED
        BY <3>0, <4>1
    <3>2. handle' \in {"none", "play", "rec"} /\ was' \in LoopStates /\ pc' = "kill"
      BY <2>6 DEF Top, At
    <3>3. UNCHANGED <<new, flags, user, state, leaked, session, seen, forgotten>>
      BY <2>6 DEF Top
    <3>4. QED
      BY <3>1, <3>2, <3>3
  <2>7. CASE ReqedKill
    BY <2>7 DEF ReqedKill
  <2>8. CASE Determine
    <3>1. Chosen \in LoopStates
      BY DEF Chosen, LoopStates
    <3>2. QED
      BY <2>8, <3>1 DEF Determine, At
  <2>9. CASE Reset
    <3>1. forgotten' \subseteq Requests /\ asked' \subseteq Requests
      BY <2>9 DEF Reset
    <3>2. QED
      BY <2>9, <3>1 DEF Reset, KillKept
  <2>10. CASE StartMon
    <3>1. session' \in BOOLEAN
      BY <2>10 DEF StartMon, Stopped
    <3>2. QED
      BY <2>10, <3>1 DEF StartMon, At, LoopStates
  <2>11. ASSUME NEW use \in {"play", "rec"}, Opened(use)
         PROVE  handle' \in {"none", "play", "rec"} /\ leaked' \in BOOLEAN
    BY <2>11 DEF Opened
  <2>12. CASE StartRec
    BY <2>11, <2>12 DEF StartRec, At, LoopStates
  <2>13. CASE Cont \/ EndPlay
    BY <2>13 DEF Cont, EndPlay, At, LoopStates
  <2>14. CASE ContPlay
    <3>1. CASE handle = "none"
      BY <2>11, <2>14, <3>1 DEF ContPlay, At, LoopStates
    <3>2. CASE handle # "none"
      BY <2>14, <3>2 DEF ContPlay, At, LoopStates
    <3>3. QED
      BY <3>1, <3>2
  <2>15. CASE StartPlaying
    BY <2>11, <2>15 DEF StartPlaying, LoopStates
  <2>16. CASE UNCHANGED vars
    BY <2>16 DEF vars
  <2>17. QED
    BY <2>1, <2>2, <2>3, <2>4, <2>5, <2>6, <2>7, <2>8, <2>9, <2>10, <2>12, <2>13, <2>14, <2>15,
       <2>16 DEF Next, User, Main
<1>3. QED
  BY <1>1, <1>2, PTL DEF Spec

-----------------------------------------------------------------------------
(* What the state says of the file and the session holds at every step of  *)
(* a turn, not only at its start: Determine leaves the state or makes it   *)
(* one of the START states, of which nothing is said.  Only a new playback *)
(* has a session, and only a task that plays brings it up.                 *)
Match ==
  /\ state = "CONT_MON" => Released
  /\ state = "NONE" => handle = "none"
  /\ state = "CONT_REC" => handle # "play"
  /\ state \in {"CONT_PLAY", "END_PLAY"} => handle # "rec"

MatchInv ==
  /\ Match
  /\ session => new
  /\ pc \in {"receive", "fill", "prepare"} => state = "CONT_PLAY"

LEMMA MatchStep == TypeOK /\ MatchInv /\ [Next]_vars => MatchInv'
<1> SUFFICES ASSUME TypeOK, MatchInv, [Next]_vars PROVE MatchInv'
  OBVIOUS
<1> USE DEF MatchInv, Match, Released, history, task, user, flags
<1>1. CASE User \/ DetachKill
  BY <1>1 DEF User, StartPlay, StartIpStreaming, StartRecord, StartMonitor, Ask, Detach, DetachKill
<1>2. CASE IpData \/ SourceGone \/ FillGivenUp
  BY <1>2 DEF IpData, DataCome, Filled, SourceGone, FillGivenUp, At
<1>3. CASE Prepare
  BY <1>3 DEF Prepare, At
<1>4. CASE Top \/ ReqedKill \/ Reset
  BY <1>4 DEF Top, ReqedKill, Reset, At
<1>5. CASE Determine
  <2>1. state' = state \/ state' \in {"START_PLAY", "START_REC", "START_MON"}
    BY <1>5 DEF Determine, Chosen
  <2>2. pc' = "reset" /\ UNCHANGED <<handle, session, new>>
    BY <1>5 DEF Determine, At
  <2>3. QED
    BY <2>1, <2>2
<1>6. CASE StartMon
  BY <1>6 DEF StartMon, At, Stopped
<1>7. CASE StartRec
  BY <1>7 DEF StartRec, At, Opened
<1>8. CASE Cont \/ ContPlay
  BY <1>8 DEF Cont, ContPlay, At, Opened
<1>9. CASE EndPlay
  BY <1>9 DEF EndPlay, At
<1>10. CASE StartPlaying
  BY <1>10 DEF StartPlaying, Opened
<1>11. CASE UNCHANGED vars
  BY <1>11 DEF vars
<1>12. QED
  BY <1>1, <1>2, <1>3, <1>4, <1>5, <1>6, <1>7, <1>8, <1>9, <1>10, <1>11 DEF Next, Main

(* Whatever the users ask and in whatever order, the handlers leave the    *)
(* monitor with no file open and no session, and no file opened for one use*)
(* is taken for the other (hldplayback.cpp, hldcapture.cpp, hldmonitor.cpp)*)
THEOREM HandlesMatchCorrect == Spec => []HandlesMatch
<1>1. Init => MatchInv
  BY DEF Init, MatchInv, Match
<1>2. MatchInv => HandlesMatch
  BY DEF MatchInv, Match, HandlesMatch
<1>3. QED
  BY <1>1, <1>2, MatchStep, TypeCorrect, PTL DEF Spec

-----------------------------------------------------------------------------
(* From a turn's first test to its handler: what was seen is closed by now,*)
(* and in the states that have nothing open there was nothing to close.    *)
Seen ==
  /\ pc = "top" => state \notin {"START_REC", "START_PLAY"}
  /\ pc \in {"receive", "fill", "prepare"} => state = "CONT_PLAY"
  /\ pc \in {"kill", "determine", "reset", "dispatch"} /\ noticed
       => handle = "none" \/ was \in {"START_MON", "END_PLAY"}

LEMMA SeenStep == TypeOK /\ MatchInv /\ Seen /\ [Next]_vars => Seen'
<1> SUFFICES ASSUME TypeOK, MatchInv, Seen, [Next]_vars PROVE Seen'
  OBVIOUS
<1> USE DEF Seen, history, task, user, flags
<1>1. CASE User \/ DetachKill
  BY <1>1 DEF User, StartPlay, StartIpStreaming, StartRecord, StartMonitor, Ask, Detach, DetachKill
<1>2. CASE IpData \/ SourceGone \/ FillGivenUp \/ Prepare
  BY <1>2 DEF IpData, DataCome, Filled, SourceGone, FillGivenUp, Prepare, At
<1>3. CASE Top
  <2>1. state \in {"NONE", "START_MON", "CONT_MON", "CONT_REC", "CONT_PLAY", "END_PLAY"}
    BY <1>3 DEF Top, At, TypeOK, LoopStates
  <2>2. CASE state \in {"START_MON", "END_PLAY"}
    BY <1>3, <2>2 DEF Top, At
  <2>3. CASE state \in {"NONE", "CONT_MON"}
    BY <1>3, <2>3 DEF Top, At, MatchInv, Match, Released
  <2>4. CASE state \in {"CONT_PLAY", "CONT_REC"}
    BY <1>3, <2>4 DEF Top, At, StopPlay, StopRecording
  <2>5. QED
    BY <2>1, <2>2, <2>3, <2>4
<1>4. CASE ReqedKill \/ Reset
  BY <1>4 DEF ReqedKill, Reset, At
<1>5. CASE Determine
  BY <1>5 DEF Determine, At
<1>6. CASE StartMon \/ StartRec \/ Cont
  BY <1>6 DEF StartMon, StartRec, Cont, At
<1>7. CASE ContPlay \/ EndPlay
  BY <1>7 DEF ContPlay, EndPlay, At
<1>8. CASE StartPlaying
  BY <1>8 DEF StartPlaying
<1>9. CASE UNCHANGED vars
  BY <1>9 DEF vars
<1>10. QED
  BY <1>1, <1>2, <1>3, <1>4, <1>5, <1>6, <1>7, <1>8, <1>9 DEF Next, Main

(* An open file is overwritten only by a request that came after the turn's*)
(* first test, or in one of the two states in which that test does not     *)
(* close it (OpenFile_PlayMode and its like in hldcapture.cpp).            *)
THEOREM LeakOnlyUnseenCorrect == Spec => LeakOnlyUnseen
<1> DEFINE Blamed == leaked' # leaked => ~noticed \/ was \in {"START_MON", "END_PLAY"}
<1>1. Init => MatchInv /\ Seen
  BY DEF Init, MatchInv, Match, Seen
<1>2. TypeOK /\ Seen /\ [Next]_vars => [Blamed]_vars
  <2> SUFFICES ASSUME TypeOK, Seen, Next, leaked' # leaked PROVE ~noticed \/ was \in {"START_MON", "END_PLAY"}
    OBVIOUS
  <2>1. CASE StartRec \/ StartPlaying
    BY <2>1 DEF StartRec, StartPlaying, At, Opened, Seen, TypeOK
  <2>2. CASE ContPlay
    BY <2>2 DEF ContPlay, At, Opened, TypeOK
  <2>3. CASE ~(StartRec \/ StartPlaying \/ ContPlay)
    BY <2>3 DEF Next, User, StartPlay, StartIpStreaming, StartRecord, StartMonitor, Ask, Detach,
                DetachKill, IpData, DataCome, Filled, Main, Top, ReqedKill, Determine, Reset,
                StartMon, Cont, EndPlay, SourceGone, FillGivenUp, Prepare, task, user
  <2>4. QED
    BY <2>1, <2>2, <2>3
<1>3. QED
  BY <1>1, <1>2, MatchStep, SeenStep, TypeCorrect, PTL DEF Spec, LeakOnlyUnseen
=============================================================================
