-------------------------- MODULE LoopThroughProofs --------------------------
(***************************************************************************)
(* Theorems about LoopThrough: as long as the main task does not get to    *)
(* work beside a loop-through task that is still there, the one task has   *)
(* its buffer, its flag and its session, and the count of captured blocks  *)
(* is right.                                                               *)
(***************************************************************************)
EXTENDS LoopThrough, TLAPS

Points == {"off", "start", "search", "INIT", "PLAY", "loop", "STOP", "QUIT", "again",
           "end_stop", "end_quit", "free"}

-----------------------------------------------------------------------------
(* Numbers that are the same but for turns of the ring.                    *)

LEMMA Quotient ==
  ASSUME NEW s \in Nat \ {0}, NEW q \in Int, NEW r \in 0 .. s - 1
  PROVE  (s * q + r) % s = r
OBVIOUS

LEMMA Congruent ==
  ASSUME NEW n \in Nat \ {0}, NEW a \in Int, NEW b \in Int, NEW k \in Int, a = b + (k * n)
  PROVE  a % n = b % n
<1> DEFINE q == b \div n
           r == b % n
<1>1. q \in Int /\ r \in 0 .. n - 1 /\ b = (n * q) + r
  OBVIOUS
<1> HIDE DEF q, r
<1>2. q + k \in Int /\ a = (n * (q + k)) + r
  BY <1>1
<1>3. a % n = r
  BY <1>1, <1>2, Quotient
<1>4. QED
  BY <1>3 DEF r

LEMMA Small ==
  ASSUME NEW a \in 0 .. Width - 1, Width \in Nat \ {0}
  PROVE  a % Width = a
<1>1. a = (Width * 0) + a
  OBVIOUS
<1>2. ((Width * 0) + a) % Width = a
  BY Quotient
<1>3. QED
  BY <1>1, <1>2

(* A count, what was skipped, and the places to write and to read agree.   *)
Agreed(c, o, w, r) == \E k \in Int : c - o = (w - r) + (k * Ring)

LEMMA AgreedModulo ==
  ASSUME Ring \in Nat \ {0}, NEW c \in Int, NEW o \in Int, NEW w \in Int, NEW r \in Int, Agreed(c, o, w, r)
  PROVE  (c - o) % Ring = (w - r) % Ring
<1>1. PICK k \in Int : c - o = (w - r) + (k * Ring)
  BY DEF Agreed
<1>2. c - o \in Int /\ w - r \in Int
  OBVIOUS
<1>3. QED
  BY <1>1, <1>2, Congruent

(* They still do when n bytes are put into the ring or taken out of it.    *)
LEMMA AgreedStore ==
  ASSUME Ring \in Nat \ {0}, NEW c \in Int, NEW o \in Int, NEW w \in Int, NEW r \in Int, NEW n \in Int,
         Agreed(c, o, w, r)
  PROVE  Agreed(c + n, o, w + n, r)
<1>1. PICK k \in Int : c - o = (w - r) + (k * Ring)
  BY DEF Agreed
<1> DEFINE turns == k * Ring
<1>2. turns \in Int /\ c - o = (w - r) + turns
  BY <1>1
<1> HIDE DEF turns
<1>3. (c + n) - o = ((w + n) - r) + turns
  BY <1>2
<1>4. QED
  BY <1>3 DEF Agreed, turns

LEMMA AgreedWrap ==
  ASSUME Ring \in Nat \ {0}, NEW c \in Int, NEW o \in Int, NEW w \in Int, NEW r \in Int, Agreed(c, o, w, r)
  PROVE  Agreed(c, o, Wrapped(w), r)
<1>1. PICK k \in Int : c - o = (w - r) + (k * Ring)
  BY DEF Agreed
<1>2. k + 1 \in Int /\ c - o = ((w - Ring) - r) + ((k + 1) * Ring)
  BY <1>1
<1>3. QED
  BY <1>1, <1>2 DEF Agreed, Wrapped

LEMMA AgreedTake ==
  ASSUME Ring \in Nat \ {0}, NEW c \in Int, NEW o \in Int, NEW w \in Int, NEW r \in Int, NEW n \in Int,
         Agreed(c, o, w, r)
  PROVE  Agreed(c - n, o, w, r + n)
<1>1. PICK k \in Int : c - o = (w - r) + (k * Ring)
  BY DEF Agreed
<1> DEFINE turns == k * Ring
<1>2. turns \in Int /\ c - o = (w - r) + turns
  BY <1>1
<1> HIDE DEF turns
<1>3. (c - n) - o = (w - (r + n)) + turns
  BY <1>2
<1>4. QED
  BY <1>3 DEF Agreed, turns

LEMMA AgreedTurn ==
  ASSUME Ring \in Nat \ {0}, NEW c \in Int, NEW o \in Int, NEW w \in Int, NEW r \in Int, Agreed(c, o, w, r)
  PROVE  Agreed(c, o, w, r - Ring)
<1>1. PICK k \in Int : c - o = (w - r) + (k * Ring)
  BY DEF Agreed
<1>2. k - 1 \in Int /\ c - o = (w - (r - Ring)) + ((k - 1) * Ring)
  BY <1>1
<1>3. QED
  BY <1>2 DEF Agreed

LEMMA AgreedNone ==
  ASSUME Ring \in Nat \ {0}, NEW n \in Int, NEW o \in Int
  PROVE  Agreed(n, o, n, o)
<1>1. 0 \in Int /\ n - o = (n - o) + (0 * Ring)
  OBVIOUS
<1>2. QED
  BY <1>1 DEF Agreed

-----------------------------------------------------------------------------
(* Request by message, in the form the proofs below use.                   *)

LEMMA RequestIs ==
  ASSUME NEW m, Request(m)
  PROVE  /\ m = "INIT" => session' = (IF session = "NONE" THEN "INIT" ELSE session)
         /\ m = "PLAY" => session' = (IF session = "INIT" THEN "PLAY" ELSE session)
         /\ m = "STOP" => session' = (IF session = "PLAY" THEN "INIT" ELSE session)
         /\ m = "QUIT" => session' = (IF session = "INIT" THEN "NONE" ELSE session)
         /\ m # "INIT" => source' = source
         /\ m = "INIT" /\ session = "NONE" => source' = (IF LoopThruState THEN "asi" ELSE "file")
         /\ m = "INIT" /\ session # "NONE" => source' = source
BY DEF Request

-----------------------------------------------------------------------------
(* The type invariant in two parts, the numbers and the rest.              *)
Numbers ==
  /\ calls \in 0 .. MaxCalls /\ cnt \in 0 .. Width - 1 /\ wr \in Nat /\ rd \in 0 .. Ring
  /\ offset \in 0 .. Ring - 1

Words ==
  /\ direction \in {"file", "310", "asi"} /\ asked \subseteq {"play", "rec", "mon"}
  /\ kill \in BOOLEAN /\ upc \in {"calls", "direction", "record", "detach", "gone"}
  /\ state \in {"NONE", "START_MON", "CONT_MON", "START_REC", "CONT_REC", "START_PLAY", "CONT_PLAY"}
  /\ mpc \in {"top", "reset", "dispatch", "STOP", "QUIT", "close", "allocate", "launch", "INIT",
              "PLAY", "end", "wait", "ended"}
  /\ flag \in BOOLEAN /\ buffer \in BOOLEAN /\ locked \in BOOLEAN /\ tpc \in [Tasks -> Points]
  /\ session \in {"NONE", "INIT", "PLAY"} /\ source \in {"file", "asi"}
  /\ handle \in {"none", "play", "rec"} /\ capture \in BOOLEAN /\ met \in BOOLEAN

LEMMA TypeParts == TypeOK <=> Words /\ Numbers
BY DEF TypeOK, Words, Numbers, Points

(* A launch starts one task that is not there, unless the flag is set.     *)
LEMMA LaunchIs ==
  ASSUME Words, Launch
  PROVE  /\ flag => tpc' = tpc
         /\ ~flag => \E t \in Tasks : tpc' = [tpc EXCEPT ![t] = "start"]
         /\ \A t \in Tasks : tpc'[t] \in {tpc[t], "start"}
<1> DEFINE new == CHOOSE t \in Tasks : tpc[t] = "off"
<1>1. (flag /\ tpc' = tpc) \/ (~flag /\ new \in Tasks /\ tpc' = [tpc EXCEPT ![new] = "start"])
  BY DEF Launch
<1> HIDE DEF new
<1>2. QED
  BY <1>1 DEF Words

LEMMA NumbersStep == Numbers /\ [Next]_vars => Numbers'
<1> SUFFICES ASSUME Numbers, [Next]_vars PROVE Numbers'
  OBVIOUS
<1> USE LoopThroughAssumption DEF Numbers, user, main, loop, count, ring, play, file
<1>1. CASE SetDirection \/ DirectionSet \/ RecordOn \/ Detach \/ DetachKill \/ Signal
  BY <1>1 DEF SetDirection, DirectionSet, RecordOn, Detach, DetachKill, Signal, Calls
<1>2. CASE StartMonitor \/ StartPlay \/ StartRecord
  BY <1>2 DEF StartMonitor, StartPlay, StartRecord, Ask, Calls
<1>3. CASE Main
  <2>1. UNCHANGED <<calls, cnt, wr, rd, offset>>
    BY <1>3 DEF Main, Top, Reset, StartMon, MainRequest, CloseFile, Allocate, Launch, StartRec,
       StartPlaying, Cont, EndEngine, EngineEnded
  <2>2. QED
    BY <2>1
<1>4. ASSUME NEW piece \in Pieces, Take(piece)
      PROVE  Numbers'
  <2>1. piece \in 1 .. Level /\ Level <= Ring
    OBVIOUS
  <2>2. rd' \in 0 .. Ring
    BY <1>4, <2>1 DEF Take
  <2>3. cnt' \in 0 .. Width - 1
    BY <1>4, <2>1 DEF Take
  <2>4. QED
    BY <1>4, <2>2, <2>3 DEF Take
<1>5. ASSUME NEW t \in Tasks, Task(t)
      PROVE  Numbers'
  <2>1. 0 \in 0 .. Ring /\ 0 \in 0 .. Ring - 1 /\ 0 \in 0 .. Width - 1
    OBVIOUS
  <2>2. CASE Begin(t) \/ Again(t) \/ SearchLost(t) \/ NoPackets(t)
    BY <2>1, <2>2 DEF Begin, Again, SearchLost, NoPackets, Afresh
  <2>3. CASE Lost(t) \/ Free(t) \/ EndTask(t) \/ \E here, m, there : TaskRequest(t, here, m, there)
    BY <2>3 DEF Lost, Free, EndTask, TaskRequest
  <2>4. ASSUME NEW next \in Nat, Store(next)
        PROVE  cnt' \in 0 .. Width - 1 /\ wr' \in Nat
    BY <2>4 DEF Store
  <2>5. wr + Block \in Nat /\ Wrapped(wr + Block) \in Nat
    BY DEF Wrapped
  <2>6. CASE Search(t) \/ Capture(t)
    BY <2>4, <2>5, <2>6 DEF Search, Searching, Capture
  <2>7. CASE Found(t)
    <3>1. cnt' \in 0 .. Width - 1 /\ wr' \in Nat
      BY <2>4, <2>5, <2>7 DEF Found, Searching
    <3>2. rd' \in Nat /\ rd' < cnt' /\ cnt' < Ring /\ offset' = rd' /\ calls' = calls
      BY <2>7 DEF Found
    <3>3. QED
      BY <3>1, <3>2
  <2>8. QED
    BY <1>5, <2>2, <2>3, <2>6, <2>7 DEF Task
<1>6. CASE UNCHANGED vars
  BY <1>6 DEF vars
<1>7. QED
  BY <1>1, <1>2, <1>3, <1>4, <1>5, <1>6 DEF Next

LEMMA WordsStep == Words /\ [Next]_vars => Words'
<1> SUFFICES ASSUME Words, [Next]_vars PROVE Words'
  OBVIOUS
<1> USE DEF Words, user, main, loop, count, ring, play, file
<1>1. CASE SetDirection \/ DirectionSet \/ RecordOn \/ Detach \/ DetachKill
  <2>1. direction' \in {"file", "310", "asi"} /\ upc' \in {"calls", "direction", "record", "detach", "gone"}
    BY <1>1 DEF SetDirection, DirectionSet, RecordOn, Detach, DetachKill
  <2>2. asked' \subseteq {"play", "rec", "mon"}
    BY <1>1 DEF SetDirection, DirectionSet, RecordOn, Detach, DetachKill
  <2>3. kill' \in BOOLEAN /\ capture' \in BOOLEAN
    BY <1>1 DEF SetDirection, DirectionSet, RecordOn, Detach, DetachKill
  <2>4. UNCHANGED <<main, loop, buffer, locked, play, handle, met>>
    BY <1>1 DEF SetDirection, DirectionSet, RecordOn, Detach, DetachKill
  <2>5. QED
    BY <2>1, <2>2, <2>3, <2>4
<1>2. CASE Signal
  <2>1. locked' \in BOOLEAN
    BY <1>2 DEF Signal
  <2>2. UNCHANGED <<direction, asked, kill, upc, state, mpc, flag, tpc, buffer, session, source, handle, capture, met>>
    BY <1>2 DEF Signal
  <2>3. QED
    BY <2>1, <2>2
<1>3. CASE StartMonitor \/ StartPlay \/ StartRecord
  <2>1. asked' \subseteq {"play", "rec", "mon"}
    BY <1>3 DEF StartMonitor, StartPlay, StartRecord, Ask
  <2>2. upc' \in {upc, "record"} /\ handle' \in {handle, "rec", "none"} /\ capture' \in BOOLEAN
    BY <1>3 DEF StartMonitor, StartPlay, StartRecord, Ask
  <2>3. UNCHANGED <<direction, kill, state, mpc, flag, tpc, buffer, locked, session, source, met>>
    BY <1>3 DEF StartMonitor, StartPlay, StartRecord, Ask
  <2>4. QED
    BY <2>1, <2>2, <2>3
<1>4. CASE Top
  <2>1. Chosen \in {"START_PLAY", "START_REC", "START_MON", state}
    BY DEF Chosen
  <2>2. state' \in {"NONE", "START_MON", "CONT_MON", "START_REC", "CONT_REC", "START_PLAY", "CONT_PLAY"}
    BY <1>4, <2>1 DEF Top
  <2>3. mpc' \in {"end", "reset"} /\ handle' \in {"none", handle}
    BY <1>4 DEF Top
  <2>4. UNCHANGED <<direction, asked, kill, upc, flag, tpc, buffer, locked, session, source, capture, met>>
    BY <1>4 DEF Top
  <2>5. QED
    BY <2>2, <2>3, <2>4
<1>5. CASE Reset \/ CloseFile \/ Cont \/ EndEngine \/ EngineEnded
  <2>1. direction' \in {direction, "file"} /\ asked' \in {asked, {}} /\ handle' \in {handle, "none"}
    BY <1>5 DEF Reset, CloseFile, Cont, EndEngine, EngineEnded
  <2>2. state' \in {state, "CONT_MON"} /\ mpc' \in {"top", "dispatch", "allocate", "wait", "ended"}
    BY <1>5 DEF Reset, CloseFile, Cont, EndEngine, EngineEnded, At
  <2>3. UNCHANGED <<kill, upc, flag, tpc, buffer, locked, session, source, capture, met>>
    BY <1>5 DEF Reset, CloseFile, Cont, EndEngine, EngineEnded
  <2>4. QED
    BY <2>1, <2>2, <2>3
<1>6. CASE StartMon \/ Allocate
  <2>1. met' \in BOOLEAN
    BY <1>6 DEF StartMon, Allocate
  <2>2. state' \in {state, "CONT_MON"} /\ mpc' \in {"STOP", "top", "launch"} /\ buffer' \in BOOLEAN
    BY <1>6 DEF StartMon, Allocate, At
  <2>3. UNCHANGED <<direction, asked, kill, upc, flag, tpc, locked, session, source, handle, capture>>
    BY <1>6 DEF StartMon, Allocate
  <2>4. QED
    BY <2>1, <2>2, <2>3
<1>7. CASE Launch
  <2>1. tpc' = tpc \/ \E t \in Tasks : tpc' = [tpc EXCEPT ![t] = "start"]
    BY <1>7, LaunchIs
  <2>2. tpc' \in [Tasks -> Points]
    BY <2>1 DEF Points
  <2>3. QED
    BY <1>7, <2>2 DEF Launch, At
<1>8. CASE StartRec \/ StartPlaying
  <2>1. met' \in BOOLEAN
    BY <1>8 DEF StartRec, StartPlaying
  <2>2. state' \in {"NONE", "CONT_REC", "CONT_PLAY"} /\ mpc' \in {"top", "INIT"}
    BY <1>8 DEF StartRec, StartPlaying, At
  <2>3. handle' \in {"none", "play", "rec"} /\ flag' \in BOOLEAN
    BY <1>8 DEF StartRec, StartPlaying
  <2>4. UNCHANGED <<direction, user, tpc, buffer, locked, play, capture>>
    BY <1>8 DEF StartRec, StartPlaying
  <2>5. QED
    BY <2>1, <2>2, <2>3, <2>4
<1>9. ASSUME NEW m \in {"INIT", "PLAY", "STOP", "QUIT"}, Request(m)
      PROVE  session' \in {"NONE", "INIT", "PLAY"} /\ source' \in {"file", "asi"}
  BY <1>9, RequestIs
<1>10. ASSUME NEW m \in {"INIT", "PLAY", "STOP", "QUIT"}, NEW next \in {"QUIT", "close", "PLAY", "top"},
              MainRequest(m, next)
       PROVE  Words'
  BY <1>9, <1>10 DEF MainRequest, At
<1>11. CASE \E piece \in Pieces : Take(piece)
  BY <1>11 DEF Take
<1>12. ASSUME NEW t \in Tasks, Task(t)
       PROVE  Words'
  <2>1. CASE Begin(t) \/ Again(t) \/ Lost(t) \/ Free(t) \/ EndTask(t)
    <3>1. tpc' \in [Tasks -> Points]
      BY <2>1 DEF Begin, Again, Lost, Free, EndTask, Goto, Points
    <3>2. flag' \in BOOLEAN /\ buffer' \in BOOLEAN
      BY <2>1 DEF Begin, Again, Lost, Free, EndTask
    <3>3. UNCHANGED <<direction, asked, kill, upc, state, mpc, locked, session, source, handle, capture, met>>
      BY <2>1 DEF Begin, Again, Lost, Free, EndTask
    <3>4. QED
      BY <3>1, <3>2, <3>3
  <2>2. CASE SearchLost(t)
    BY <2>2 DEF SearchLost
  <2>3. CASE Search(t) \/ Capture(t) \/ NoPackets(t)
    <3>1. handle' \in {"none", handle}
      BY <2>3 DEF Search, Searching, Capture, Store, NoPackets
    <3>2. UNCHANGED <<direction, asked, kill, upc, main, loop, buffer, locked, play, capture, met>>
      BY <2>3 DEF Search, Capture, NoPackets
    <3>3. QED
      BY <3>1, <3>2
  <2>4. CASE Found(t)
    <3>1. tpc' \in [Tasks -> Points] /\ handle' \in {"none", handle}
      BY <2>4 DEF Found, Searching, Store, Goto, Points
    <3>2. UNCHANGED <<direction, asked, kill, upc, main, flag, buffer, locked, play, capture, met>>
      BY <2>4 DEF Found
    <3>3. QED
      BY <3>1, <3>2
  <2>5. ASSUME NEW here, NEW m \in {"INIT", "PLAY", "STOP", "QUIT"}, NEW there \in Points,
               TaskRequest(t, here, m, there)
        PROVE  Words'
    <3>1. tpc' \in [Tasks -> Points]
      BY <2>5 DEF TaskRequest, Goto
    <3>2. QED
      BY <1>9, <2>5, <3>1 DEF TaskRequest
  <2>6. QED
    BY <1>12, <2>1, <2>2, <2>3, <2>4, <2>5 DEF Task, Points
<1>13. CASE UNCHANGED vars
  BY <1>13 DEF vars
<1>14. QED
  BY <1>1, <1>2, <1>3, <1>4, <1>5, <1>6, <1>7, <1>8, <1>10, <1>11, <1>12, <1>13 DEF Next, Main

(* The type invariant, inductive as it stands: every variable keeps to the *)
(* values the code gives it, the places to the ring.                       *)
THEOREM TypeCorrect == Spec => []TypeOK
<1>1. Init => Words
  BY DEF Init, Words, Points
<1>2. Init => Numbers
  BY LoopThroughAssumption DEF Init, Numbers
<1>3. QED
  BY <1>1, <1>2, WordsStep, NumbersStep, TypeParts, PTL DEF Spec

-----------------------------------------------------------------------------
(* As long as met is FALSE there is one task at most.  It has its buffer   *)
(* and, once it works, its flag; a main task that is about to take the     *)
(* session, the buffer and the recording over has seen the task at its end,*)
(* and one that has made the buffer or a session of its own has seen none. *)
Present(t) == tpc[t] # "off"
Leaving(t) == tpc[t] \in {"off", "end_stop", "end_quit", "free"}

AloneInv ==
  /\ \A t, u \in Tasks : Present(t) /\ Present(u) => t = u
  /\ \A t \in Tasks : Present(t) => buffer
  /\ \A t \in Tasks : Working(t) => flag
  /\ mpc = "dispatch" => \A t \in Tasks : tpc[t] # "start"
  /\ mpc \in {"STOP", "QUIT", "close", "allocate", "launch"} => \A t \in Tasks : Leaving(t)
  /\ mpc \in {"launch", "INIT", "PLAY"} => \A t \in Tasks : ~Present(t)
  /\ mpc = "launch" => buffer

LEMMA MetStays == met /\ [Next]_vars => met'
<1> SUFFICES ASSUME met, [Next]_vars PROVE met'
  OBVIOUS
<1>1. CASE Main
  BY <1>1 DEF Main, Top, Reset, StartMon, MainRequest, CloseFile, Allocate, Launch, StartRec,
     StartPlaying, Cont, EndEngine, EngineEnded
<1>2. ASSUME NEW t \in Tasks, Task(t)
      PROVE  met'
  BY <1>2 DEF Task, Begin, SearchLost, Search, NoPackets, Found, TaskRequest, Capture, Lost, Again,
     EndTask, Free
<1>3. QED
  BY <1>1, <1>2 DEF Next, SetDirection, DirectionSet, StartMonitor, StartPlay, StartRecord, RecordOn,
     Ask, Detach, DetachKill, Signal, Take, vars

(* What a step of a task or of somebody else leaves alone.                 *)
LEMMA OthersStill ==
  ASSUME \/ SetDirection \/ DirectionSet \/ StartMonitor \/ StartPlay \/ StartRecord \/ RecordOn
         \/ Detach \/ DetachKill \/ Signal \/ UNCHANGED vars
  PROVE  UNCHANGED <<mpc, flag, tpc, buffer, cnt, wr, rd, offset, session, source>>
BY DEF SetDirection, DirectionSet, StartMonitor, StartPlay, StartRecord, RecordOn, Ask, Detach,
   DetachKill, Signal, vars, user, main, loop, count, ring, play, file

LEMMA TaskStill ==
  ASSUME NEW t \in Tasks, Task(t)
  PROVE  UNCHANGED <<direction, kill, upc, mpc>>
BY DEF Task, Begin, SearchLost, Search, NoPackets, Found, TaskRequest, Capture, Lost, Again, EndTask,
   Free, user, main

(* A step of a task moves a task that is there, and that one alone; it does*)
(* not bring a task back from its end, one that works has set its flag or  *)
(* worked before, one that ends clears it, and only the task that goes     *)
(* frees the buffer.                                                       *)
LEMMA TaskMoves ==
  ASSUME Words, NEW t \in Tasks, Task(t)
  PROVE  /\ \A u \in Tasks \ {t} : tpc'[u] = tpc[u]
         /\ Present(t) /\ tpc'[t] # "start"
         /\ Working(t)' => flag' = TRUE \/ (Working(t) /\ flag' = flag)
         /\ Leaving(t) => Leaving(t)'
         /\ Present(t)' => buffer' = buffer
         /\ flag' => Working(t)' \/ (flag /\ ~Working(t))
         /\ buffer' => Present(t)'
<1> USE DEF Words, Present, Working, Leaving
<1>1. CASE Begin(t) \/ Free(t)
  <2>1. \/ Goto(t, "start", "search") /\ flag' = TRUE /\ buffer' = buffer
        \/ Goto(t, "free", "off") /\ flag' = flag /\ buffer' = FALSE
    BY <1>1 DEF Begin, Free
  <2>2. QED
    BY <2>1 DEF Goto
<1>2. CASE Again(t) \/ Lost(t)
  <2>1. (Goto(t, "again", "search") \/ Goto(t, "loop", "STOP")) /\ flag' = flag /\ buffer' = buffer
    BY <1>2 DEF Again, Lost, ring
  <2>2. QED
    BY <2>1 DEF Goto
<1>3. CASE SearchLost(t) \/ Search(t) \/ NoPackets(t) \/ Capture(t)
  <2>1. tpc[t] \in {"search", "loop"} /\ tpc' = tpc /\ flag' = flag /\ buffer' = buffer
    BY <1>3 DEF SearchLost, Search, Searching, NoPackets, Capture, loop
  <2>2. QED
    BY <2>1
<1>4. CASE Found(t)
  <2>1. Goto(t, "search", "INIT") /\ flag' = flag /\ buffer' = buffer
    BY <1>4 DEF Found
  <2>2. QED
    BY <2>1 DEF Goto
<1>5. CASE EndTask(t)
  BY <1>5 DEF EndTask, Over, ring
<1>6. CASE TaskRequest(t, "INIT", "INIT", "PLAY") \/ TaskRequest(t, "PLAY", "PLAY", "loop")
  <2>1. (Goto(t, "INIT", "PLAY") \/ Goto(t, "PLAY", "loop")) /\ flag' = flag /\ buffer' = buffer
    BY <1>6 DEF TaskRequest, ring
  <2>2. QED
    BY <2>1 DEF Goto
<1>7. CASE TaskRequest(t, "STOP", "STOP", "QUIT") \/ TaskRequest(t, "QUIT", "QUIT", "again")
  <2>1. (Goto(t, "STOP", "QUIT") \/ Goto(t, "QUIT", "again")) /\ flag' = flag /\ buffer' = buffer
    BY <1>7 DEF TaskRequest, ring
  <2>2. QED
    BY <2>1 DEF Goto
<1>8. CASE TaskRequest(t, "end_stop", "STOP", "end_quit") \/ TaskRequest(t, "end_quit", "QUIT", "free")
  <2>1. (Goto(t, "end_stop", "end_quit") \/ Goto(t, "end_quit", "free")) /\ flag' = flag /\ buffer' = buffer
    BY <1>8 DEF TaskRequest, ring
  <2>2. QED
    BY <2>1 DEF Goto
<1>9. QED
  BY <1>1, <1>2, <1>3, <1>4, <1>5, <1>6, <1>7, <1>8 DEF Task

LEMMA AloneStep == Words /\ AloneInv /\ [Next]_vars => met' \/ AloneInv'
<1> SUFFICES ASSUME Words, AloneInv, [Next]_vars, ~met' PROVE AloneInv'
  OBVIOUS
<1> USE DEF AloneInv
<1>1. CASE UNCHANGED <<mpc, flag, tpc, buffer>>
  BY <1>1 DEF Present, Working, Leaving
<1>2. ASSUME NEW t \in Tasks, Task(t)
      PROVE  AloneInv'
  <2>1. mpc' = mpc
    BY <1>2, TaskStill
  <2>2. /\ \A u \in Tasks \ {t} : tpc'[u] = tpc[u]
        /\ Present(t) /\ tpc'[t] # "start"
        /\ Working(t)' => flag' = TRUE \/ (Working(t) /\ flag' = flag)
        /\ Leaving(t) => Leaving(t)'
        /\ Present(t)' => buffer' = buffer
    BY <1>2, TaskMoves
  <2>3. \A u \in Tasks \ {t} : tpc'[u] = "off"
    BY <2>2 DEF Present
  <2>4. mpc \notin {"launch", "INIT", "PLAY"}
    BY <2>2
  <2>5. \A u \in Tasks : Present(u)' => u = t
    BY <2>3 DEF Present
  <2>6. \A u \in Tasks : Working(u)' => flag'
    BY <2>2, <2>3 DEF Working
  <2>7. \A u \in Tasks : Present(u)' => buffer'
    BY <2>2, <2>5
  <2>8. mpc \in {"STOP", "QUIT", "close", "allocate", "launch"} => \A u \in Tasks : Leaving(u)'
    BY <2>2, <2>3 DEF Leaving
  <2>9. mpc = "dispatch" => \A u \in Tasks : tpc'[u] # "start"
    BY <2>2, <2>3
  <2>10. QED
    BY <2>1, <2>4, <2>5, <2>6, <2>7, <2>8, <2>9
<1>3. CASE Main
  <2>1. CASE Top \/ Cont \/ EndEngine \/ EngineEnded
    <3>1. mpc' \in {"end", "reset", "top", "wait", "ended"} /\ UNCHANGED <<flag, tpc, buffer>>
      BY <2>1 DEF Top, Cont, EndEngine, EngineEnded, At, loop, ring
    <3>2. QED
      BY <3>1 DEF Present, Working, Leaving
  <2>2. CASE Reset
    <3>1. mpc' \in {"top", "dispatch"} /\ UNCHANGED <<flag, tpc, buffer>> /\ Prompt
      BY <2>2 DEF Reset, loop, ring
    <3>2. QED
      BY <3>1 DEF Present, Working, Leaving, Prompt
  <2>3. CASE StartMon
    <3>1. /\ mpc' = "top" \/ (mpc' = "STOP" /\ \A t \in Tasks : ~Working(t) /\ tpc[t] # "start")
          /\ UNCHANGED <<flag, tpc, buffer>>
      BY <2>3 DEF StartMon, loop, ring
    <3>2. \A t \in Tasks : ~Working(t) /\ tpc[t] # "start" => Leaving(t)
      BY DEF Words, Points, Working, Leaving
    <3>3. QED
      BY <3>1, <3>2 DEF Present, Working, Leaving
  <2>4. CASE MainRequest("STOP", "QUIT") \/ MainRequest("QUIT", "close") \/ CloseFile
    <3>1. /\ mpc \in {"STOP", "QUIT", "close"} /\ mpc' \in {"QUIT", "close", "allocate", "top"}
          /\ UNCHANGED <<flag, tpc, buffer>>
      BY <2>4 DEF MainRequest, CloseFile, At, loop, ring
    <3>2. QED
      BY <3>1 DEF Present, Working, Leaving
  <2>5. CASE Allocate
    <3>1. /\ mpc' = "launch" /\ buffer' = TRUE /\ UNCHANGED <<flag, tpc>>
          /\ \A t \in Tasks : ~Present(t)
      BY <2>5 DEF Allocate, At, loop, Still, Present
    <3>2. QED
      BY <3>1 DEF Present, Working, Leaving
  <2>6. CASE Launch
    <3>1. /\ mpc' = "top" /\ UNCHANGED <<flag, buffer>> /\ buffer /\ \A t \in Tasks : tpc[t] = "off"
      BY <2>6 DEF Launch, At, ring, Present
    <3>2. CASE flag
      <4>1. tpc' = tpc
        BY <2>6, <3>2, LaunchIs
      <4>2. QED
        BY <3>1, <4>1 DEF Present, Working, Leaving
    <3>3. CASE ~flag
      <4>1. PICK t \in Tasks : tpc' = [tpc EXCEPT ![t] = "start"]
        BY <2>6, <3>3, LaunchIs
      <4>2. tpc'[t] = "start" /\ \A u \in Tasks \ {t} : tpc'[u] = "off"
        BY <3>1, <4>1 DEF Words
      <4>3. QED
        BY <3>1, <4>2 DEF Present, Working, Leaving
    <3>4. QED
      BY <3>2, <3>3
  <2>7. CASE StartRec
    <3>1. mpc' = "top" /\ UNCHANGED <<tpc, buffer>> /\ \A t \in Tasks : tpc[t] = "off"
      BY <2>7 DEF StartRec, At, Still, ring
    <3>2. QED
      BY <3>1 DEF Present, Working, Leaving
  <2>8. CASE StartPlaying
    <3>1. /\ mpc' = "top" \/ (mpc' = "INIT" /\ \A t \in Tasks : tpc[t] = "off")
          /\ UNCHANGED <<flag, tpc, buffer>>
      BY <2>8 DEF StartPlaying, Still, loop, ring
    <3>2. QED
      BY <3>1 DEF Present, Working, Leaving
  <2>9. CASE MainRequest("INIT", "PLAY") \/ MainRequest("PLAY", "top")
    <3>1. /\ mpc \in {"INIT", "PLAY"} /\ mpc' \in {"PLAY", "top"}
          /\ UNCHANGED <<flag, tpc, buffer>>
      BY <2>9 DEF MainRequest, At, loop, ring
    <3>2. QED
      BY <3>1 DEF Present, Working, Leaving
  <2>10. QED
    BY <1>3, <2>1, <2>2, <2>3, <2>4, <2>5, <2>6, <2>7, <2>8, <2>9 DEF Main
<1>4. CASE \E piece \in Pieces : Take(piece)
  BY <1>1, <1>4 DEF Take, main, loop
<1>5. QED
  BY <1>1, <1>2, <1>3, <1>4, OthersStill DEF Next

-----------------------------------------------------------------------------
(* The session belongs to the task that is there: its place says how far   *)
(* it has brought it, and a main task on its way to a new buffer has ended *)
(* the old one's.                                                          *)
Outset == {"start", "search", "INIT", "again"}

SessionInv ==
  /\ mpc = "QUIT" => session # "PLAY"
  /\ mpc \in {"close", "allocate", "launch"} => session = "NONE"
  /\ \A t \in Tasks : tpc[t] \in Outset => session = "NONE"
  /\ \A t \in Tasks : tpc[t] \in {"PLAY", "QUIT"} => session = "INIT"
  /\ \A t \in Tasks : tpc[t] \in {"loop", "STOP"} => session = "PLAY"

LEMMA SessionStep == Words /\ AloneInv /\ SessionInv /\ [Next]_vars => met' \/ SessionInv'
<1> SUFFICES ASSUME Words, AloneInv, SessionInv, [Next]_vars, ~met' PROVE SessionInv'
  OBVIOUS
<1> USE DEF SessionInv, Outset
<1>1. CASE UNCHANGED <<mpc, tpc, session>>
  BY <1>1
<1>2. ASSUME NEW t \in Tasks, Task(t)
      PROVE  SessionInv'
  <2>1. mpc' = mpc /\ tpc \in [Tasks -> Points]
    BY <1>2, TaskStill DEF Words
  <2>2. \A u \in Tasks \ {t} : tpc[u] = "off" /\ tpc'[u] = "off"
    BY <1>2, TaskMoves DEF AloneInv, Present
  <2>3. mpc \in {"QUIT", "close", "allocate", "launch"} => Leaving(t)
    BY DEF AloneInv
  <2>4. ASSUME session' = session,
               \/ tpc[t] \in Outset /\ tpc'[t] \in Outset
               \/ tpc'[t] \in {"off", "end_stop", tpc[t]}
               \/ tpc[t] = "loop" /\ tpc'[t] = "STOP"
        PROVE  SessionInv'
    BY <2>1, <2>2, <2>4
  <2>5. CASE Begin(t) \/ Free(t) \/ Again(t) \/ Lost(t) \/ Found(t)
    <3>1. \/ Goto(t, "start", "search") \/ Goto(t, "free", "off") \/ Goto(t, "again", "search")
          \/ Goto(t, "loop", "STOP") \/ Goto(t, "search", "INIT")
      BY <2>5 DEF Begin, Free, Again, Lost, Found
    <3>2. session' = session
      BY <2>5 DEF Begin, Free, Again, Lost, Found, play
    <3>3. \/ tpc[t] \in Outset /\ tpc'[t] \in Outset
          \/ tpc'[t] = "off"
          \/ tpc[t] = "loop" /\ tpc'[t] = "STOP"
      BY <2>1, <3>1 DEF Goto
    <3>4. QED
      BY <2>4, <3>2, <3>3
  <2>6. CASE EndTask(t)
    <3>1. tpc'[t] = "end_stop" /\ session' = session
      BY <2>1, <2>6 DEF EndTask, play
    <3>2. QED
      BY <2>4, <3>1
  <2>7. CASE SearchLost(t) \/ Search(t) \/ NoPackets(t) \/ Capture(t)
    <3>1. tpc'[t] = tpc[t] /\ session' = session
      BY <2>7 DEF SearchLost, Search, NoPackets, Capture, play, loop
    <3>2. QED
      BY <2>4, <3>1
  <2>8. CASE TaskRequest(t, "INIT", "INIT", "PLAY")
    <3>1. tpc[t] = "INIT" /\ tpc'[t] = "PLAY" /\ Request("INIT")
      BY <2>1, <2>8 DEF TaskRequest, Goto
    <3>2. session' = "INIT"
      BY <3>1, RequestIs
    <3>3. QED
      BY <2>1, <2>2, <2>3, <3>1, <3>2 DEF Leaving
  <2>9. CASE TaskRequest(t, "PLAY", "PLAY", "loop")
    <3>1. tpc[t] = "PLAY" /\ tpc'[t] = "loop" /\ Request("PLAY")
      BY <2>1, <2>9 DEF TaskRequest, Goto
    <3>2. session' = "PLAY"
      BY <3>1, RequestIs
    <3>3. QED
      BY <2>1, <2>2, <2>3, <3>1, <3>2 DEF Leaving
  <2>10. CASE TaskRequest(t, "STOP", "STOP", "QUIT")
    <3>1. tpc[t] = "STOP" /\ tpc'[t] = "QUIT" /\ Request("STOP")
      BY <2>1, <2>10 DEF TaskRequest, Goto
    <3>2. session' = "INIT"
      BY <3>1, RequestIs
    <3>3. QED
      BY <2>1, <2>2, <2>3, <3>1, <3>2 DEF Leaving
  <2>11. CASE TaskRequest(t, "QUIT", "QUIT", "again")
    <3>1. tpc[t] = "QUIT" /\ tpc'[t] = "again" /\ Request("QUIT")
      BY <2>1, <2>11 DEF TaskRequest, Goto
    <3>2. session' = "NONE"
      BY <3>1, RequestIs
    <3>3. QED
      BY <2>1, <2>2, <2>3, <3>1, <3>2 DEF Leaving
  <2>12. CASE TaskRequest(t, "end_stop", "STOP", "end_quit") \/ TaskRequest(t, "end_quit", "QUIT", "free")
    <3>1. tpc'[t] \in {"end_quit", "free"} /\ (Request("STOP") \/ Request("QUIT"))
      BY <2>1, <2>12 DEF TaskRequest, Goto
    <3>2. (session = "NONE" => session' = "NONE") /\ (session # "PLAY" => session' # "PLAY")
      BY <3>1, RequestIs
    <3>3. QED
      BY <2>1, <2>2, <3>1, <3>2
  <2>13. QED
    BY <1>2, <2>5, <2>6, <2>7, <2>8, <2>9, <2>10, <2>11, <2>12 DEF Task
<1>3. CASE MainRequest("STOP", "QUIT") \/ MainRequest("QUIT", "close")
  <2>1. \/ mpc = "STOP" /\ mpc' = "QUIT" /\ Request("STOP")
        \/ mpc = "QUIT" /\ mpc' = "close" /\ Request("QUIT")
    BY <1>3 DEF MainRequest, At
  <2>2. mpc' \in {"QUIT", "close"} /\ session' # "PLAY" /\ (mpc' = "close" => session' = "NONE")
    BY <2>1, RequestIs DEF Words
  <2>3. tpc' = tpc /\ \A t \in Tasks : Leaving(t)
    BY <1>3, <2>1 DEF MainRequest, loop, AloneInv
  <2>4. QED
    BY <2>2, <2>3 DEF Leaving
<1>4. CASE MainRequest("INIT", "PLAY") \/ MainRequest("PLAY", "top") \/ StartPlaying
  <2>1. mpc' \in {"PLAY", "top", "INIT"} /\ tpc' = tpc
    BY <1>4 DEF MainRequest, StartPlaying, At, loop
  <2>2. session' = session \/ \A t \in Tasks : tpc[t] = "off"
    BY <1>4 DEF MainRequest, StartPlaying, At, AloneInv, Present, play
  <2>3. QED
    BY <2>1, <2>2
<1>5. CASE Top \/ Reset \/ StartMon \/ StartRec \/ Cont \/ EndEngine \/ EngineEnded
  <2>1. mpc' \notin {"QUIT", "close", "allocate", "launch"} /\ tpc' = tpc /\ session' = session
    BY <1>5 DEF Top, Reset, StartMon, StartRec, Cont, EndEngine, EngineEnded, At, loop, play
  <2>2. QED
    BY <2>1
<1>6. CASE CloseFile \/ Allocate
  <2>1. mpc \in {"close", "allocate"} /\ mpc' # "QUIT" /\ tpc' = tpc /\ session' = session
    BY <1>6 DEF CloseFile, Allocate, At, loop, play
  <2>2. QED
    BY <2>1
<1>7. CASE Launch
  <2>1. mpc = "launch" /\ mpc' = "top" /\ session' = session /\ session = "NONE"
    BY <1>7 DEF Launch, At, play
  <2>2. \A t \in Tasks : tpc'[t] \in {tpc[t], "start"}
    BY <1>7, LaunchIs
  <2>3. QED
    BY <2>1, <2>2
<1>8. CASE \E piece \in Pieces : Take(piece)
  BY <1>1, <1>8 DEF Take, main, loop, play
<1>9. QED
  BY <1>1, <1>2, <1>3, <1>4, <1>5, <1>6, <1>7, <1>8, OthersStill DEF Next, Main

-----------------------------------------------------------------------------
(* A user who changes the direction waits for the flag, so that a session  *)
(* brought up for a task plays from the ASI input or is about to be ended. *)
DirectionInv ==
  /\ kill => upc = "gone"
  /\ mpc \in {"end", "wait", "ended"} => kill
  /\ \A t \in Tasks : tpc[t] = "INIT" => direction = "asi" \/ upc \in {"direction", "gone"}
  /\ \A t \in Tasks : tpc[t] \in {"PLAY", "loop"} =>
       source = "asi" \/ (direction # "asi" /\ upc \in {"direction", "gone"})

LEMMA DirectionStep ==
  Words /\ AloneInv /\ SessionInv /\ DirectionInv /\ [Next]_vars => met' \/ DirectionInv'
<1> SUFFICES ASSUME Words, AloneInv, SessionInv, DirectionInv, [Next]_vars, ~met' PROVE DirectionInv'
  OBVIOUS
<1> USE DEF DirectionInv
<1>1. CASE UNCHANGED <<direction, kill, upc, mpc, tpc, source>>
  BY <1>1
<1>2. CASE SetDirection
  <2>1. upc = "calls" /\ upc' = "direction" /\ UNCHANGED <<kill, mpc, tpc, source>>
    BY <1>2 DEF SetDirection, Calls, main, loop, play
  <2>2. \A t \in Tasks : tpc[t] \in {"PLAY", "loop"} => source = "asi"
    BY <2>1
  <2>3. QED
    BY <2>1, <2>2
<1>3. CASE DirectionSet
  <2>1. upc = "direction" /\ ~flag /\ UNCHANGED <<kill, mpc, tpc>>
    BY <1>3 DEF DirectionSet, main, loop
  <2>2. \A t \in Tasks : tpc[t] \notin {"INIT", "PLAY", "loop"}
    BY <2>1 DEF AloneInv, Working
  <2>3. QED
    BY <2>1, <2>2
<1>4. CASE StartRecord \/ RecordOn \/ Detach
  <2>1. upc \in {"calls", "record"} /\ UNCHANGED <<direction, kill, mpc, tpc, source>>
    BY <1>4 DEF StartRecord, RecordOn, Detach, Ask, Calls, main, loop, play
  <2>2. QED
    BY <2>1
<1>5. CASE DetachKill
  BY <1>5 DEF DetachKill, main, loop, play
<1>6. CASE StartMonitor \/ StartPlay \/ Signal \/ UNCHANGED vars \/ \E piece \in Pieces : Take(piece)
  BY <1>1, <1>6 DEF StartMonitor, StartPlay, Ask, Signal, Take, vars, user, main, loop, play
<1>7. CASE Main
  <2>1. CASE Top
    BY <2>1 DEF Top, user, loop, play
  <2>2. CASE EndEngine
    BY <2>2 DEF EndEngine, At, user, loop, play
  <2>3. CASE EngineEnded
    BY <2>3 DEF EngineEnded, At, loop, play
  <2>4. CASE Launch
    <3>1. mpc' = "top" /\ UNCHANGED <<direction, kill, upc, source>>
      BY <2>4 DEF Launch, At, user, play
    <3>2. \A t \in Tasks : tpc'[t] \in {tpc[t], "start"}
      BY <2>4, LaunchIs
    <3>3. QED
      BY <3>1, <3>2
  <2>5. CASE MainRequest("STOP", "QUIT") \/ MainRequest("QUIT", "close")
    <3>1. mpc' \in {"QUIT", "close"} /\ UNCHANGED <<direction, kill, upc, tpc>>
      BY <2>5 DEF MainRequest, At, user, loop
    <3>2. source' = source
      BY <2>5, RequestIs DEF MainRequest
    <3>3. QED
      BY <3>1, <3>2
  <2>6. CASE MainRequest("INIT", "PLAY") \/ MainRequest("PLAY", "top")
    <3>1. mpc' \in {"PLAY", "top"} /\ UNCHANGED <<direction, kill, upc, tpc>>
      BY <2>6 DEF MainRequest, At, user, loop
    <3>2. \A t \in Tasks : tpc[t] = "off"
      BY <2>6 DEF MainRequest, At, AloneInv, Present
    <3>3. QED
      BY <3>1, <3>2
  <2>7. CASE Reset \/ StartMon \/ StartRec \/ StartPlaying \/ Cont \/ CloseFile \/ Allocate
    <3>1. UNCHANGED <<direction, kill, upc, tpc, source>> /\ mpc' \notin {"end", "wait", "ended"}
      BY <2>7 DEF Reset, StartMon, StartRec, StartPlaying, Cont, CloseFile, Allocate, At, user, loop, play
    <3>2. QED
      BY <3>1
  <2>8. QED
    BY <1>7, <2>1, <2>2, <2>3, <2>4, <2>5, <2>6, <2>7 DEF Main
<1>8. ASSUME NEW t \in Tasks, Task(t)
      PROVE  DirectionInv'
  <2>1. UNCHANGED <<direction, kill, upc, mpc>> /\ tpc \in [Tasks -> Points]
    BY <1>8, TaskStill DEF Words
  <2>2. \A u \in Tasks \ {t} : tpc'[u] = "off"
    BY <1>8, TaskMoves DEF AloneInv, Present
  <2>3. ASSUME tpc'[t] \notin {"INIT", "PLAY", "loop"}
        PROVE  DirectionInv'
    BY <2>1, <2>2, <2>3
  <2>4. CASE SearchLost(t) \/ Search(t) \/ NoPackets(t) \/ Capture(t)
    BY <1>1, <2>1, <2>4 DEF SearchLost, Search, NoPackets, Capture, loop, play
  <2>5. CASE Found(t)
    <3>1. tpc'[t] = "INIT" /\ direction = "asi"
      BY <2>1, <2>5 DEF Found, Searching, CapMode, Goto
    <3>2. QED
      BY <2>1, <2>2, <3>1
  <2>6. CASE TaskRequest(t, "INIT", "INIT", "PLAY")
    <3>1. tpc[t] = "INIT" /\ tpc'[t] = "PLAY" /\ Request("INIT") /\ session = "NONE"
      BY <2>1, <2>6 DEF TaskRequest, Goto, SessionInv, Outset
    <3>2. source' = IF LoopThruState THEN "asi" ELSE "file"
      BY <3>1, RequestIs
    <3>3. QED
      BY <2>1, <2>2, <3>1, <3>2 DEF LoopThruState
  <2>7. CASE TaskRequest(t, "PLAY", "PLAY", "loop")
    <3>1. tpc[t] = "PLAY" /\ tpc'[t] = "loop" /\ Request("PLAY")
      BY <2>1, <2>7 DEF TaskRequest, Goto
    <3>2. source' = source
      BY <3>1, RequestIs
    <3>3. QED
      BY <2>1, <2>2, <3>1, <3>2
  <2>8. CASE \/ Begin(t) \/ Lost(t) \/ Again(t) \/ EndTask(t) \/ Free(t)
             \/ TaskRequest(t, "STOP", "STOP", "QUIT") \/ TaskRequest(t, "QUIT", "QUIT", "again")
             \/ TaskRequest(t, "end_stop", "STOP", "end_quit") \/ TaskRequest(t, "end_quit", "QUIT", "free")
    <3>1. tpc'[t] \in {"search", "STOP", "end_stop", "off", "QUIT", "again", "end_quit", "free"}
      BY <2>1, <2>8 DEF Begin, Lost, Again, EndTask, Free, TaskRequest, Goto
    <3>2. QED
      BY <2>3, <3>1
  <2>9. QED
    BY <1>8, <2>4, <2>5, <2>6, <2>7, <2>8 DEF Task
<1>9. QED
  BY <1>2, <1>3, <1>4, <1>5, <1>6, <1>7, <1>8 DEF Next

-----------------------------------------------------------------------------
(* Nobody's flag is set, and no buffer is there for nobody.                *)
HeldInv ==
  /\ flag => \E t \in Tasks : Working(t)
  /\ buffer => mpc = "launch" \/ \E t \in Tasks : Present(t)

LEMMA HeldStep == Words /\ AloneInv /\ HeldInv /\ [Next]_vars => met' \/ HeldInv'
<1> SUFFICES ASSUME Words, AloneInv, HeldInv, [Next]_vars, ~met' PROVE HeldInv'
  OBVIOUS
<1> USE DEF HeldInv
<1>1. CASE UNCHANGED <<mpc, flag, tpc, buffer>>
  BY <1>1 DEF Present, Working
<1>2. ASSUME NEW t \in Tasks, Task(t)
      PROVE  HeldInv'
  <2>1. /\ Present(t)
        /\ flag' => Working(t)' \/ (flag /\ ~Working(t))
        /\ buffer' => Present(t)'
    BY <1>2, TaskMoves
  <2>2. \A u \in Tasks : Working(u) => u = t
    BY <2>1 DEF AloneInv, Present, Working
  <2>3. flag' => Working(t)'
    BY <2>1, <2>2
  <2>4. QED
    BY <2>1, <2>3
<1>3. CASE Main
  <2>1. CASE Allocate
    BY <2>1 DEF Allocate, At, loop, Working
  <2>2. CASE Launch
    <3>1. mpc = "launch" /\ mpc' = "top" /\ UNCHANGED <<flag, buffer>> /\ \A t \in Tasks : ~Present(t)
      BY <2>2 DEF Launch, At, ring, AloneInv
    <3>2. ~flag
      BY <3>1 DEF Present, Working
    <3>3. PICK t \in Tasks : tpc' = [tpc EXCEPT ![t] = "start"]
      BY <2>2, <3>2, LaunchIs
    <3>4. tpc'[t] = "start"
      BY <3>3 DEF Words
    <3>5. QED
      BY <3>1, <3>2, <3>4 DEF Present
  <2>3. CASE StartRec
    <3>1. mpc # "launch" /\ flag' = FALSE /\ UNCHANGED <<tpc, buffer>>
      BY <2>3 DEF StartRec, At, ring
    <3>2. QED
      BY <3>1 DEF Present
  <2>4. CASE \/ Top \/ Reset \/ StartMon \/ MainRequest("STOP", "QUIT") \/ MainRequest("QUIT", "close")
             \/ CloseFile \/ StartPlaying \/ MainRequest("INIT", "PLAY") \/ MainRequest("PLAY", "top")
             \/ Cont \/ EndEngine \/ EngineEnded
    <3>1. mpc # "launch" /\ UNCHANGED <<flag, tpc, buffer>>
      BY <2>4 DEF Top, Reset, StartMon, MainRequest, CloseFile, StartPlaying, Cont, EndEngine,
         EngineEnded, At, loop, ring
    <3>2. QED
      BY <3>1 DEF Present, Working
  <2>5. QED
    BY <1>3, <2>1, <2>2, <2>3, <2>4 DEF Main
<1>4. CASE \E piece \in Pieces : Take(piece)
  BY <1>1, <1>4 DEF Take, main, loop
<1>5. QED
  BY <1>1, <1>2, <1>3, <1>4, OthersStill DEF Next

-----------------------------------------------------------------------------
(* The count agrees with the places; a task that searches has put all that *)
(* is counted to the start of the ring, and a session that plays, or is    *)
(* about to, has what its reader leaves.                                   *)
Plenty == cnt \in Level .. Ring - 1
Played == buffer /\ session = "PLAY" /\ source = "asi"

CountInv ==
  /\ Agreed(cnt, offset, wr, rd)
  /\ \A t \in Tasks : tpc[t] = "search" => rd = 0 /\ offset = 0 /\ cnt = wr /\ wr < Enable
  /\ \A t \in Tasks : tpc[t] \in {"INIT", "PLAY"} => Plenty
  /\ Played => Plenty

(* What the main task does to the session brings nobody to play from the   *)
(* buffer.                                                                 *)
LEMMA MainPlays ==
  ASSUME Words, AloneInv, SessionInv, HeldInv, Main, Played'
  PROVE  Played
<1>1. CASE MainRequest("PLAY", "top") \/ MainRequest("INIT", "PLAY")
  <2>1. mpc \in {"INIT", "PLAY"} /\ buffer' = buffer
    BY <1>1 DEF MainRequest, At, ring
  <2>2. ~buffer
    BY <2>1 DEF AloneInv, HeldInv
  <2>3. QED
    BY <2>1, <2>2 DEF Played
<1>2. CASE MainRequest("STOP", "QUIT") \/ MainRequest("QUIT", "close")
  <2>1. buffer' = buffer /\ (Request("STOP") \/ Request("QUIT"))
    BY <1>2 DEF MainRequest, ring
  <2>2. source' = source /\ (session' = "PLAY" => session = "PLAY")
    BY <2>1, RequestIs
  <2>3. QED
    BY <2>1, <2>2 DEF Played
<1>3. CASE Allocate
  <2>1. session' = "NONE"
    BY <1>3 DEF Allocate, At, play, SessionInv
  <2>2. QED
    BY <2>1 DEF Played
<1>4. CASE \/ Top \/ Reset \/ StartMon \/ CloseFile \/ Launch \/ StartRec \/ StartPlaying
           \/ Cont \/ EndEngine \/ EngineEnded
  BY <1>4 DEF Top, Reset, StartMon, CloseFile, Launch, StartRec, StartPlaying, Cont, EndEngine,
     EngineEnded, ring, play, Played
<1>5. QED
  BY <1>1, <1>2, <1>3, <1>4 DEF Main

LEMMA CountStep ==
  Words /\ Numbers /\ AloneInv /\ SessionInv /\ DirectionInv /\ HeldInv /\ CountInv /\ [Next]_vars
    => CountInv'
<1> SUFFICES ASSUME Words, Numbers, AloneInv, SessionInv, DirectionInv, HeldInv, CountInv, [Next]_vars
             PROVE  CountInv'
  OBVIOUS
<1> USE DEF CountInv
<1>0. /\ Ring \in Nat \ {0} /\ Width \in Nat \ {0} /\ Block \in Nat \ {0}
      /\ Level \in Nat /\ Enable \in Nat /\ Level <= Enable /\ Enable + Block <= Ring /\ Ring <= Width
      /\ Pieces \subseteq 1 .. Level
      /\ cnt \in 0 .. Width - 1 /\ wr \in Nat /\ rd \in 0 .. Ring /\ offset \in 0 .. Ring - 1
  BY LoopThroughAssumption DEF Numbers
<1>1. ASSUME UNCHANGED <<cnt, wr, rd, offset>>,
             \A t \in Tasks : tpc'[t] \in {"search", "INIT", "PLAY"} => tpc'[t] = tpc[t],
             Played' => Plenty
      PROVE  CountInv'
  <2>1. Plenty' = Plenty /\ Agreed(cnt, offset, wr, rd)'
    BY <1>1 DEF Plenty, Agreed
  <2>2. QED
    BY <1>1, <2>1
<1>2. CASE UNCHANGED <<cnt, wr, rd, offset, tpc, buffer, session, source>>
  BY <1>1, <1>2 DEF Played
<1>3. CASE Main
  <2>1. UNCHANGED <<cnt, wr, rd, offset>>
    BY <1>3 DEF Main, Top, Reset, StartMon, MainRequest, CloseFile, Allocate, Launch, StartRec,
       StartPlaying, Cont, EndEngine, EngineEnded, ring, count
  <2>2. \A t \in Tasks : tpc'[t] \in {tpc[t], "start"}
    <3>1. CASE Launch
      BY <3>1, LaunchIs
    <3>2. CASE ~Launch
      BY <1>3, <3>2 DEF Main, Top, Reset, StartMon, MainRequest, CloseFile, Allocate, StartRec,
         StartPlaying, Cont, EndEngine, EngineEnded, loop
    <3>3. QED
      BY <3>1, <3>2
  <2>3. Played' => Plenty
    BY <1>3, MainPlays
  <2>4. QED
    BY <1>1, <2>1, <2>2, <2>3
<1>4. ASSUME NEW piece \in Pieces, Take(piece)
      PROVE  CountInv'
  <2>1. /\ Played /\ session = "PLAY"
        /\ (cnt - piece) % Width >= Level /\ cnt' = (cnt - piece) % Width
        /\ rd' = (IF rd + piece > Ring THEN rd + piece - Ring ELSE rd + piece)
        /\ UNCHANGED <<wr, offset, tpc>>
    BY <1>4 DEF Take, Played, loop
  <2>2. piece \in 1 .. Level /\ cnt \in Level .. Ring - 1
    BY <1>0, <2>1 DEF Plenty
  <2>3. cnt - piece \in 0 .. Width - 1
    BY <1>0, <2>2
  <2>4. (cnt - piece) % Width = cnt - piece
    <3> DEFINE left == cnt - piece
    <3>1. left \in 0 .. Width - 1
      BY <2>3
    <3> HIDE DEF left
    <3>2. left % Width = left
      BY <1>0, <3>1, Small
    <3>3. QED
      BY <3>2 DEF left
  <2>5. cnt' = cnt - piece /\ cnt' \in Level .. Ring - 1
    BY <1>0, <2>1, <2>2, <2>4
  <2>6. Agreed(cnt - piece, offset, wr, rd + piece)
    <3>1. cnt \in Int /\ offset \in Int /\ wr \in Int /\ rd \in Int /\ piece \in Int
      BY <1>0, <2>2
    <3>2. QED
      BY <1>0, <3>1, AgreedTake
  <2>7. Agreed(cnt - piece, offset, wr, (rd + piece) - Ring)
    <3> DEFINE left == cnt - piece
               next == rd + piece
    <3>1. left \in Int /\ next \in Int /\ Agreed(left, offset, wr, next)
      BY <1>0, <2>2, <2>6
    <3> HIDE DEF left, next
    <3>2. Agreed(left, offset, wr, next - Ring)
      BY <1>0, <3>1, AgreedTurn
    <3>3. QED
      BY <3>2 DEF left, next
  <2>8. rd' = rd + piece \/ rd' = (rd + piece) - Ring
    BY <1>0, <2>1, <2>2
  <2>9. Agreed(cnt, offset, wr, rd)'
    BY <2>1, <2>5, <2>6, <2>7, <2>8 DEF Agreed
  <2>10. \A t \in Tasks : tpc'[t] # "search"
    BY <2>1 DEF SessionInv, Outset
  <2>11. QED
    BY <2>5, <2>9, <2>10 DEF Plenty
<1>5. ASSUME NEW t \in Tasks, Task(t)
      PROVE  CountInv'
  <2>1. tpc \in [Tasks -> Points]
    BY DEF Words
  <2>2. \A u \in Tasks \ {t} : tpc'[u] = "off"
    BY <1>5, TaskMoves DEF AloneInv, Present
  <2>3. ASSUME NEW next \in Int, Working(t), cnt < Ring - Block, Agreed(cnt + Block, offset, next, rd), Store(next)
        PROVE  /\ cnt' = cnt + Block /\ cnt' < Ring /\ wr' = next
               /\ Agreed(cnt', offset, wr', rd)
    <3>1. buffer
      BY <2>3 DEF AloneInv, Present, Working
    <3>2. cnt' = (cnt + Block) % Width /\ wr' = next
      BY <2>3, <3>1 DEF Store
    <3> DEFINE more == cnt + Block
    <3>3. more \in 0 .. Width - 1 /\ more < Ring /\ cnt' = more % Width
      BY <1>0, <2>3, <3>2
    <3> HIDE DEF more
    <3>4. more % Width = more
      BY <1>0, <3>3, Small
    <3>5. cnt' = more /\ more = cnt + Block
      BY <3>3, <3>4 DEF more
    <3>6. QED
      BY <2>3, <3>2, <3>3, <3>5
  <2>4. CASE Begin(t) \/ Again(t) \/ NoPackets(t) \/ SearchLost(t)
    <3>1. tpc[t] \in {"start", "search", "again"} /\ tpc'[t] \notin {"INIT", "PLAY"}
      BY <2>1, <2>4 DEF Begin, Again, NoPackets, SearchLost, Goto, loop
    <3>2. cnt' = 0 /\ wr' = 0 /\ rd' = 0 /\ offset' = 0
      BY <2>4, <3>1 DEF Begin, Again, NoPackets, SearchLost, Afresh, Goto
    <3>3. session' = "NONE"
      BY <2>4, <3>1 DEF Begin, Again, NoPackets, SearchLost, play, SessionInv, Outset
    <3>4. Agreed(0, 0, 0, 0) /\ 0 < Enable
      BY <1>0, LoopThroughAssumption, AgreedNone
    <3>5. Agreed(cnt, offset, wr, rd)'
      BY <3>2, <3>4 DEF Agreed
    <3>6. QED
      BY <2>2, <3>1, <3>2, <3>3, <3>4, <3>5 DEF Played
  <2>5. Agreed(cnt + Block, offset, wr + Block, rd)
    <3>1. cnt \in Int /\ offset \in Int /\ wr \in Int /\ rd \in Int /\ Block \in Int
      BY <1>0
    <3>2. QED
      BY <1>0, <3>1, AgreedStore
  <2>6. Agreed(cnt + Block, offset, Wrapped(wr + Block), rd)
    <3> DEFINE more == cnt + Block
               next == wr + Block
    <3>1. more \in Int /\ next \in Int /\ Agreed(more, offset, next, rd)
      BY <1>0, <2>5
    <3> HIDE DEF more, next
    <3>2. Agreed(more, offset, Wrapped(next), rd)
      BY <1>0, <3>1, AgreedWrap
    <3>3. QED
      BY <3>2 DEF more, next
  <2>7. CASE Search(t) \/ Found(t)
    <3>1. tpc[t] = "search" /\ Working(t) /\ Store(wr + Block)
      BY <2>7 DEF Search, Found, Searching, Working
    <3>2. rd = 0 /\ offset = 0 /\ cnt = wr /\ wr < Enable /\ session = "NONE"
      BY <3>1 DEF SessionInv, Outset
    <3>3. cnt < Ring - Block
      BY <1>0, <3>2
    <3> DEFINE next == wr + Block
    <3>4. next \in Int /\ Agreed(cnt + Block, offset, next, rd) /\ Store(next)
      BY <1>0, <2>5, <3>1
    <3> HIDE DEF next
    <3>5. cnt' = cnt + Block /\ cnt' < Ring /\ wr' = next /\ Agreed(cnt', offset, wr', rd)
      BY <2>3, <3>1, <3>3, <3>4
    <3>6. cnt' = wr' /\ cnt' \in Nat /\ session' = "NONE"
      BY <1>0, <2>7, <3>2, <3>5 DEF next, Search, Found, play
    <3>7. CASE Search(t)
      <4>1. wr' < Enable /\ rd' = 0 /\ offset' = 0 /\ tpc'[t] = "search"
        BY <3>1, <3>2, <3>7 DEF Search, loop
      <4>2. Agreed(cnt, offset, wr, rd)'
        BY <3>2, <3>5, <4>1 DEF Agreed
      <4>3. QED
        BY <2>2, <3>6, <4>1, <4>2 DEF Played
    <3>8. CASE Found(t)
      <4>1. wr' >= Enable /\ rd' \in Nat /\ offset' = rd' /\ tpc'[t] = "INIT"
        BY <1>0, <2>1, <3>8, LoopThroughAssumption DEF Found, Goto
      <4>2. Agreed(cnt', rd', cnt', rd')
        BY <1>0, <3>6, <4>1, AgreedNone
      <4>3. Agreed(cnt, offset, wr, rd)'
        BY <3>6, <4>1, <4>2 DEF Agreed
      <4>4. Plenty'
        BY <1>0, <3>5, <3>6, <4>1 DEF Plenty
      <4>5. QED
        BY <2>2, <4>1, <4>3, <4>4
    <3>9. QED
      BY <2>7, <3>7, <3>8
  <2>8. CASE Capture(t)
    <3>1. /\ tpc[t] = "loop" /\ Working(t) /\ direction = "asi" /\ Store(Wrapped(wr + Block))
          /\ UNCHANGED <<tpc, rd, offset, buffer, session, source>>
      BY <2>8 DEF Capture, CapMode, Working, loop, play
    <3>2. Played
      BY <3>1 DEF DirectionInv, SessionInv, AloneInv, Present, Played
    <3>3. cnt \in Level .. Ring - 1
      BY <3>2 DEF Plenty
    <3>4. cnt < Ring - Block
      BY <1>0, <3>1, <3>3 DEF Store
    <3> DEFINE next == Wrapped(wr + Block)
    <3>5. next \in Int /\ Agreed(cnt + Block, offset, next, rd) /\ Store(next)
      BY <1>0, <2>6, <3>1 DEF Wrapped
    <3> HIDE DEF next
    <3>6. cnt' = cnt + Block /\ cnt' < Ring /\ Agreed(cnt', offset, wr', rd)
      BY <2>3, <3>1, <3>4, <3>5
    <3>7. Agreed(cnt, offset, wr, rd)'
      BY <3>1, <3>6 DEF Agreed
    <3>8. Plenty'
      BY <1>0, <3>3, <3>6 DEF Plenty
    <3>9. tpc'[t] = "loop"
      BY <3>1
    <3>10. QED
      BY <2>2, <3>7, <3>8, <3>9
  <2>9. CASE Lost(t) \/ EndTask(t) \/ Free(t)
    <3>1. UNCHANGED <<cnt, wr, rd, offset>> /\ tpc'[t] \in {"STOP", "end_stop", "off"}
      BY <2>1, <2>9 DEF Lost, EndTask, Free, Goto, ring, count
    <3>2. Played' => Played
      BY <2>9 DEF Lost, EndTask, Free, ring, play, Played
    <3>3. QED
      BY <1>1, <2>2, <3>1, <3>2
  <2>10. ASSUME NEW here, NEW m, NEW there, TaskRequest(t, here, m, there)
         PROVE  /\ UNCHANGED <<cnt, wr, rd, offset, buffer>> /\ tpc[t] = here /\ tpc'[t] = there /\ Request(m)
                /\ Plenty' = Plenty /\ Agreed(cnt, offset, wr, rd)'
    <3>1. UNCHANGED <<cnt, wr, rd, offset, buffer>> /\ tpc[t] = here /\ tpc'[t] = there /\ Request(m)
      BY <2>1, <2>10 DEF TaskRequest, Goto, ring, count
    <3>2. QED
      BY <3>1 DEF Plenty, Agreed
  <2>11. CASE TaskRequest(t, "INIT", "INIT", "PLAY") \/ TaskRequest(t, "PLAY", "PLAY", "loop")
    <3>1. tpc[t] \in {"INIT", "PLAY"} /\ tpc'[t] \in {"PLAY", "loop"} /\ Plenty' = Plenty /\ Agreed(cnt, offset, wr, rd)'
      BY <2>10, <2>11
    <3>2. QED
      BY <2>2, <3>1
  <2>12. CASE \/ TaskRequest(t, "STOP", "STOP", "QUIT") \/ TaskRequest(t, "QUIT", "QUIT", "again")
              \/ TaskRequest(t, "end_stop", "STOP", "end_quit") \/ TaskRequest(t, "end_quit", "QUIT", "free")
    <3>1. /\ UNCHANGED <<cnt, wr, rd, offset, buffer>> /\ tpc'[t] \in {"QUIT", "again", "end_quit", "free"}
          /\ Request("STOP") \/ Request("QUIT")
      BY <2>10, <2>12
    <3>2. source' = source /\ (session' = "PLAY" => session = "PLAY")
      BY <3>1, RequestIs
    <3>3. Played' => Played
      BY <3>1, <3>2 DEF Played
    <3>4. QED
      BY <1>1, <2>2, <3>1, <3>3
  <2>13. QED
    BY <1>5, <2>4, <2>7, <2>8, <2>9, <2>11, <2>12 DEF Task
<1>6. QED
  BY <1>2, <1>3, <1>4, <1>5, OthersStill DEF Next

-----------------------------------------------------------------------------
SoundInv == met \/ (AloneInv /\ SessionInv /\ DirectionInv /\ HeldInv /\ CountInv)

(* While met is FALSE the count of captured bytes is what lies between the *)
(* places to write and to read, whole turns of the ring apart, and what was*)
(* skipped to find the packets; a session that plays from the buffer leaves*)
(* Level of it, so that the reader is never beyond what was captured by    *)
(* more than the packets were found behind the first Level bytes; a task at*)
(* work has its buffer and its flag, and one that captures feeds a session *)
(* that plays from the ASI input, whatever the user calls, however often   *)
(* the signal comes and goes, and wherever the packets are found           *)
(* (TaskCap_and_LoopThru_DvbT2, GetAsiInputData).                          *)
THEOREM SoundCorrect == Spec => []Sound
<1>1. Init => SoundInv
  <2> SUFFICES ASSUME Init PROVE SoundInv
    OBVIOUS
  <2>1. AloneInv /\ SessionInv /\ DirectionInv /\ HeldInv
    BY DEF Init, AloneInv, SessionInv, DirectionInv, HeldInv, Present, Working, Leaving, Outset
  <2>2. Agreed(0, 0, 0, 0)
    BY LoopThroughAssumption, AgreedNone
  <2>3. CountInv
    BY <2>2 DEF Init, CountInv, Played
  <2>4. QED
    BY <2>1, <2>3 DEF SoundInv
<1>2. TypeOK /\ SoundInv /\ [Next]_vars => SoundInv'
  <2> SUFFICES ASSUME TypeOK, SoundInv, [Next]_vars PROVE SoundInv'
    OBVIOUS
  <2>1. Words /\ Numbers
    BY TypeParts
  <2>2. QED
    BY <2>1, MetStays, AloneStep, SessionStep, DirectionStep, HeldStep, CountStep DEF SoundInv
<1>3. TypeOK /\ SoundInv => Sound
  <2> SUFFICES ASSUME TypeOK, SoundInv, ~met PROVE Sound
    BY DEF Sound
  <2>1. Ring \in Nat \ {0} /\ cnt \in Int /\ offset \in Int /\ wr \in Int /\ rd \in Int
    BY LoopThroughAssumption, TypeParts DEF Numbers
  <2>2. Agreed(cnt, offset, wr, rd) /\ (Played => Plenty)
    BY DEF SoundInv, CountInv
  <2>3. (cnt - offset) % Ring = (wr - rd) % Ring
    BY <2>1, <2>2, AgreedModulo
  <2>4. Agree
    BY <2>2, <2>3 DEF Agree, Played, Plenty
  <2>5. QED
    BY <2>4 DEF SoundInv, AloneInv, SessionInv, DirectionInv, Sound, CapMode, Present, Working
<1>4. QED
  BY <1>1, <1>2, <1>3, TypeCorrect, PTL DEF Spec
=============================================================================
