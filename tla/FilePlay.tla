------------------------------ MODULE FilePlay ------------------------------
(***************************************************************************)
(* Playback of a file by the main task alone, the way of every modulation  *)
(* that has no playback session: HLD_TH_CONT_PLAY and HLD_TH_END_PLAY      *)
(* (hldplayback.cpp), with LLDWrapper.cpp and hld_fs_rdwr.cpp.  A turn     *)
(* reads a bank of the file into the ring TL_szBufferPlay, moves the       *)
(* packets it finds there to the ring TL_sz2ndBufferPlay, with null packets*)
(* to make up the play rate, and sends a bank of that one to the board.    *)
(*                                                                         *)
(* Of a byte the model keeps whether it is 0x47, of the second ring only   *)
(* its indices.  A file has packets of one length.                         *)
(***************************************************************************)
EXTENDS Integers

CONSTANTS
  Bank,       (* SdramSubBankSize                                          *)
  Size,       (* MAX_BUFFER_BYTE_SIZE                                      *)
  SrcPkt,     (* TL_gPacketSize: 188, 204, 208 or 192                      *)
  PktsBefore, (* of the other three lengths those that are tried before    *)
  PktsAfter,  (* SrcPkt, and those that are tried after it                 *)
  OutPkt,     (* what is kept of a packet: 188                             *)
  SearchPkts, (* packets looked at to find the synchronisation: 10         *)
  Files,      (* the files: [len: Nat, syncs: the offsets of 0x47]         *)
  Ratios,     (* gfRatio, in tenths                                        *)
  Repeats,    (* what follows the end of a file, see AtEnd                 *)
  Offsets,    (* g_CurrentOffset, as the user may set it                   *)
  MaxSeeks, MaxLoops  (* bounds: seeks by the user, times a file is played *)

ASSUME FilePlayAssumption ==
  /\ Bank \in Nat \ {0} /\ Size \in Nat \ {0} /\ Size % Bank = 0
  /\ SrcPkt \in Nat \ {0} /\ OutPkt \in 1 .. SrcPkt /\ SearchPkts \in Nat \ 0 .. 2
  /\ SearchPkts * SrcPkt < Bank
  /\ PktsBefore \cup PktsAfter \subseteq Nat \ {0, SrcPkt}
  /\ \A f \in Files : f.len \in Nat /\ f.syncs \subseteq 0 .. f.len - 1
  /\ Ratios \subseteq Nat \ 0 .. 9
  /\ Repeats \subseteq {"restart", "reopen", "once"}
  /\ Offsets \subseteq Nat /\ MaxSeeks \in Nat /\ MaxLoops \in Nat

VARIABLES
  file, ratio, repeat,     (* what is played, and how: chosen once         *)
  loop_state,              (* TH_CONT_PLAY, TH_END_PLAY or TH_NONE         *)
  opened, pos, feof,       (* AP_hFile, its offset and its end-of-file     *)
  next_file_ready, TL_gFirstRead, TL_gNumLoop,
  seek, seeks,             (* the offset asked for, or NoSeek; how many    *)
  syncs, taken,            (* places with 0x47; where a moved packet began *)
  TL_nRIndex, TL_nWIndex, TL_nBCount, TL_nFindSync,
  blind,                   (* history: TL_nFindSync is off without a packet *)
  TL_nReadPos, TL_nWritePos, TL_nBufferCnt, gTotalReadPacket,
  TL_dwBytesRead,
  pc, last                 (* where the turn is; whether it fills no bank  *)

choice == <<file, ratio, repeat>>
handle == <<opened, pos, feof>>
ring == <<syncs, taken, TL_nRIndex, TL_nWIndex, TL_nBCount>>
out == <<TL_nReadPos, TL_nWritePos, TL_nBufferCnt, gTotalReadPacket>>
user == <<next_file_ready, seek, seeks>>
lock == <<TL_nFindSync, blind>>
loops == <<loop_state, TL_gFirstRead, TL_gNumLoop>>
vars == <<choice, loops, handle, user, ring, lock, out, TL_dwBytesRead, pc, last>>

NoSeek == -1
Window == SearchPkts * SrcPkt    \* dwBytesToRead
Places == 0 .. Size - 1
Least(a, b) == IF a <= b THEN a ELSE b

(* The places of n bytes from index i on.                                  *)
Span(i, n) == {(i + k) % Size : k \in 0 .. n - 1}

Init ==
  /\ file \in Files /\ ratio \in Ratios /\ repeat \in Repeats
  /\ loop_state = "CONT_PLAY" /\ opened = TRUE /\ pos = 0 /\ feof = FALSE
  /\ next_file_ready = FALSE /\ TL_gFirstRead = TRUE /\ TL_gNumLoop = 0
  /\ seek = NoSeek /\ seeks = 0 /\ syncs = {} /\ taken = {}
  /\ TL_nRIndex = 0 /\ TL_nWIndex = 0 /\ TL_nBCount = 0
  /\ TL_nFindSync = TRUE /\ blind = FALSE
  /\ TL_nReadPos = 0 /\ TL_nWritePos = 0 /\ TL_nBufferCnt = 0 /\ gTotalReadPacket = 0
  /\ TL_dwBytesRead = 0 /\ pc = "turn" /\ last = FALSE

-----------------------------------------------------------------------------
(* Reading the file, from offset o, into a bank at TL_nWIndex.             *)

(* fread: what the file still has, a bank at most; the rest stays as it    *)
(* was.  A short read leaves the end-of-file mark.                         *)
BytesFrom(o) == IF o >= file.len THEN 0 ELSE Least(Bank, file.len - o)

Fread(o) ==
  LET n == BytesFrom(o) IN
  /\ syncs' = (syncs \ Span(TL_nWIndex, n))
                \cup {TL_nWIndex + (s - o) : s \in {t \in file.syncs : t \in o .. o + n - 1}}
  /\ TL_dwBytesRead' = n /\ pos' = o + n /\ feof' = (n < Bank)

(* SetNewWrAlignPos_of_PlayBuf: a whole bank counts as written, also after *)
(* a short read.                                                           *)
MUT_Filled(w) == IF w > Size THEN 0 ELSE w  \* mutant: one too far
Filled(w) == IF w >= Size THEN 0 ELSE w
CountBank ==
  /\ TL_nWIndex' = Filled(TL_nWIndex + Bank)
  /\ TL_nBCount' = TL_nBCount + Bank
  /\ taken' = taken \ Span(TL_nWIndex, Bank)
  /\ UNCHANGED TL_nRIndex

(* TL_SyncLockFunction on n bytes, s being the places of 0x47: the first   *)
(* place from which one of the lengths fits three packets in a row, if     *)
(* there is one, and whether the length that is answered is SrcPkt.        *)
Lengths == PktsBefore \cup {SrcPkt} \cup PktsAfter
Fits(s, i, l) == {i, i + l, i + 2 * l} \subseteq s
Hits(s, n) == {i \in 0 .. n - 1 : \E l \in Lengths : Fits(s, i, l)}
FirstHit(s, n) == {i \in Hits(s, n) : \A j \in Hits(s, n) : i <= j}
MUT_OfLength(s, i) == TRUE  \* mutant: any length will do
OfLength(s, i) == Fits(s, i, SrcPkt) /\ \A l \in PktsBefore : ~Fits(s, i, l)

(* The first bank of a file is searched.                                   *)
Lockable(s) == Hits(s, Bank) # {}

(* A file has packets of SrcPkt bytes: its first bank, whatever lies behind*)
(* what is read of it, is answered with SrcPkt or not at all.              *)
MayFit(f, i, l) == \A p \in {i, i + l, i + 2 * l} : p \in f.syncs \/ p >= Least(Bank, f.len)
ASSUME FilesAssumption ==
  \A f \in Files :
    LET s == f.syncs \cap 0 .. Least(Bank, f.len) - 1 IN
    \/ ~Lockable(s)
    \/ \E i \in s : /\ Fits(s, i, SrcPkt)
                   /\ \A l \in PktsBefore : ~MayFit(f, i, l)
                   /\ \A j \in 0 .. i - 1, k \in Lengths : ~MayFit(f, j, k)

(* FindSyncPos_and_FillSyncBuf does nothing without enough data, or in a   *)
(* turn that has read none.                                                *)
EnterFindSync(count, bytes) ==
  IF count <= Window \/ bytes = 0 THEN "done"
  ELSE IF TL_nFindSync THEN "search" ELSE "move"

(* and then returns: to the end of the first turn, or to the filling.       *)
Leave(at, l) == IF at # "done" THEN at ELSE IF l THEN "turn" ELSE "fill"

(* FirstFRead_OnPlayCont: the file from its start, whatever offset the     *)
(* user has asked for.  A first bank without synchronisation is read again *)
(* by the next turn; in a later loop it is answered as in the first one.   *)
FirstRead ==
  /\ pc = "turn" /\ loop_state = "CONT_PLAY" /\ opened /\ TL_gFirstRead
  /\ seek' = NoSeek /\ next_file_ready' = FALSE
  /\ Fread(0)
  /\ IF TL_gNumLoop = 0 /\ ~Lockable(syncs')
     THEN /\ UNCHANGED <<taken, TL_nRIndex, TL_nWIndex, TL_nBCount, gTotalReadPacket>>
          /\ UNCHANGED <<TL_gFirstRead, pc, last>>
     ELSE /\ TL_gFirstRead' = FALSE /\ gTotalReadPacket' = 0
          /\ CountBank /\ last' = TRUE
          /\ pc' = Leave(EnterFindSync(TL_nBCount', TL_dwBytesRead'), TRUE)
  /\ UNCHANGED <<choice, loop_state, TL_gNumLoop, opened, seeks, lock, TL_nReadPos, TL_nWritePos,
                 TL_nBufferCnt>>

(* A later turn.  FillPlayBuf_by_Dta_of_RdFile reads nothing while a play  *)
(* rate above the file's has left less than a bank free in the ring.       *)
RingFull == ratio > 10 /\ TL_nBCount > Size - Bank

Turn ==
  LET from == IF seek = NoSeek THEN pos ELSE seek IN
  /\ pc = "turn" /\ loop_state = "CONT_PLAY" /\ opened /\ ~TL_gFirstRead
  /\ seek' = NoSeek /\ next_file_ready' = FALSE /\ last' = FALSE
  /\ \/ /\ TL_nBufferCnt > Bank
        /\ TL_dwBytesRead' = Bank /\ pos' = from /\ feof' = (feof /\ seek = NoSeek)
        /\ pc' = "fill" /\ UNCHANGED ring
     \/ /\ TL_nBufferCnt <= Bank /\ RingFull
        /\ TL_dwBytesRead' = 0 /\ pos' = from /\ feof' = (feof /\ seek = NoSeek)
        /\ pc' = "fill" /\ UNCHANGED ring
     \/ /\ TL_nBufferCnt <= Bank /\ ~RingFull
        /\ Fread(from)
        /\ IF TL_dwBytesRead' > 0
           THEN CountBank
           ELSE UNCHANGED <<taken, TL_nRIndex, TL_nWIndex, TL_nBCount>>
        /\ pc' = Leave(EnterFindSync(TL_nBCount', TL_dwBytesRead'), FALSE)
  /\ UNCHANGED <<choice, loops, opened, seeks, lock, out>>

-----------------------------------------------------------------------------
(* FindSyncPos_and_FillSyncBuf.                                            *)

(* SetNewRdAlignPos_of_PlayBuf                                             *)
Skip(n) ==
  /\ TL_nRIndex' = (LET r == TL_nRIndex + n IN IF r >= Size THEN r - Size ELSE r)
  /\ TL_nBCount' = TL_nBCount - n

Sync(i) == (TL_nRIndex + i) % Size \in syncs

(* TL_SyncLockFunction on the copy of a window in TL_pbBuffer: the last    *)
(* places look past the copy, at what that buffer held before.  There may  *)
(* be anything, of which only what one answer needs makes a difference.    *)
Behind ==
  {{}} \cup {{i, i + l, i + 2 * l} \ (0 .. Window - 1) : i \in 0 .. Window - 1, l \in Lengths}

(* One look at a window.  Without an answer, or with an answer of another  *)
(* length, half of it is skipped; and when the data ends with an answer of *)
(* another length, the ring passes for synchronised all the same.          *)
Search ==
  /\ pc = "search"
  /\ \E behind \in Behind :
       LET seen == {i \in 0 .. Window - 1 : Sync(i)} \cup behind
           right == {i \in FirstHit(seen, Window) : OfLength(seen, i)}
       IN  \/ /\ \E i \in right : Skip(i)
              /\ TL_nFindSync' = FALSE /\ blind' = FALSE /\ pc' = "move"
           \/ /\ right = {}
              /\ Skip(Window \div 2)
              /\ blind' = (Hits(seen, Window) # {} /\ TL_nBCount' <= Window)
              /\ TL_nFindSync' = ~blind'
              /\ pc' = IF TL_nBCount' > Window THEN "search"
                       ELSE IF blind' THEN "move" ELSE Leave("done", last)
  /\ UNCHANGED <<choice, loops, handle, user, syncs, taken, TL_nWIndex, out, TL_dwBytesRead,
                 last>>

(* FillOnePacketToQueue_and_addNull_ifNeed: the null packets that go with  *)
(* the n-th packet, gStuffRatio[0] being the tenths above the file's rate. *)
Nulls(n) == (ratio - 10) \div 10 + (IF n % 10 = 0 THEN (ratio - 10) % 10 ELSE 0)

(* No room for a packet and its null packets, on average.                  *)
SecondFull == 10 * TL_nBufferCnt > 10 * Size - ratio * SrcPkt

Queue(bytes) ==
  /\ TL_nWritePos' = (TL_nWritePos + bytes) % Size
  /\ TL_nBufferCnt' = TL_nBufferCnt + bytes
  /\ gTotalReadPacket' = (gTotalReadPacket + 1) % 10
  /\ UNCHANGED TL_nReadPos

(* A packet goes to the second ring.  If none seems to follow it, it is    *)
(* left in the ring as well, for the search to begin with.                 *)
Move ==
  LET next == (TL_nRIndex + SrcPkt) % Size IN
  /\ pc = "move" /\ TL_nBCount > Window /\ ~SecondFull
  /\ Queue(OutPkt * (1 + Nulls(gTotalReadPacket + 1)))
  /\ taken' = taken \cup {TL_nRIndex} /\ blind' = FALSE
  /\ \/ /\ next \in syncs
        /\ Skip(SrcPkt) /\ UNCHANGED <<TL_nFindSync, pc>>
     \/ /\ next \notin syncs
        /\ TL_nFindSync' = TRUE /\ pc' = "search" /\ UNCHANGED <<TL_nRIndex, TL_nBCount>>
  /\ UNCHANGED <<choice, loops, handle, user, syncs, TL_nWIndex, TL_dwBytesRead, last>>

MoveEnds ==
  /\ pc = "move" /\ (TL_nBCount <= Window \/ SecondFull)
  /\ pc' = Leave("done", last)
  /\ UNCHANGED <<choice, loops, handle, user, ring, lock, out, TL_dwBytesRead, last>>

-----------------------------------------------------------------------------
(* Fill_Playback_DmaBuffer: a bank for the board.  With less than one the  *)
(* playback may be at its end.                                             *)

MUT_AtEnd ==  \* mutant: waits for the second ring to be empty
  TL_dwBytesRead < Bank /\ (ratio > 10 => feof /\ TL_nBufferCnt = 0)

AtEnd ==
  /\ TL_dwBytesRead < Bank
  /\ ratio > 10 => feof /\ TL_nBufferCnt < Bank

Fill ==
  /\ pc = "fill" /\ pc' = "turn"
  /\ \/ /\ TL_nBufferCnt > Bank
        /\ TL_nReadPos' = (TL_nReadPos + Bank) % Size /\ TL_nBufferCnt' = TL_nBufferCnt - Bank
        /\ UNCHANGED <<TL_nWritePos, gTotalReadPacket, loops>>
     \/ /\ TL_nBufferCnt <= Bank
        /\ loop_state' = IF AtEnd THEN "END_PLAY" ELSE "CONT_PLAY"
        /\ UNCHANGED <<TL_gFirstRead, TL_gNumLoop, out>>
  /\ UNCHANGED <<choice, handle, user, ring, lock, TL_dwBytesRead, last>>

(* HLD_TH_END_PLAY, AdjLoopStartingPos_OnPlayEnd: with restamping or a     *)
(* date to set ("restart") the open file is played again.  Otherwise it is *)
(* closed, and played again if AP_fRepeat is set ("reopen") or the user    *)
(* names a file ("once").                                                  *)
Again ==
  /\ loop_state' = "CONT_PLAY" /\ TL_gFirstRead' = TRUE /\ TL_gNumLoop' = TL_gNumLoop + 1

EndRestart ==
  /\ loop_state = "END_PLAY" /\ opened /\ repeat = "restart" /\ TL_gNumLoop + 1 < MaxLoops
  /\ Again /\ pos' = 0 /\ feof' = FALSE
  /\ UNCHANGED <<choice, opened, user, ring, lock, out, TL_dwBytesRead, pc, last>>

EndClose ==
  /\ loop_state = "END_PLAY" /\ opened /\ repeat # "restart"
  /\ opened' = FALSE /\ next_file_ready' = (next_file_ready \/ repeat = "reopen")
  /\ UNCHANGED <<choice, loops, pos, feof, seek, seeks, ring, lock, out, TL_dwBytesRead, pc,
                 last>>

EndReady ==
  /\ loop_state = "END_PLAY" /\ ~opened /\ next_file_ready /\ TL_gNumLoop + 1 < MaxLoops
  /\ Again
  /\ UNCHANGED <<choice, handle, user, ring, lock, out, TL_dwBytesRead, pc, last>>

(* ChkAndOpenPlayFile_OnPlayCont.  When the file cannot be opened any more *)
(* the playback is given up.                                               *)
Reopen ==
  /\ pc = "turn" /\ loop_state = "CONT_PLAY" /\ ~opened
  /\ next_file_ready' = FALSE
  /\ \/ opened' = TRUE /\ pos' = 0 /\ feof' = FALSE /\ UNCHANGED loop_state
     \/ loop_state' = "NONE" /\ UNCHANGED handle
  /\ UNCHANGED <<choice, TL_gFirstRead, TL_gNumLoop, seek, seeks, ring, lock, out,
                 TL_dwBytesRead, pc, last>>

-----------------------------------------------------------------------------
(* The user, at any moment: SetCurrentOffset and SetFileName_NxtPlay, with *)
(* the same file.  A file named while one is played is forgotten.          *)

Seek(o) ==
  /\ seeks < MaxSeeks
  /\ seek' = o /\ seeks' = seeks + 1
  /\ UNCHANGED <<choice, loops, handle, next_file_ready, ring, lock, out, TL_dwBytesRead, pc,
                 last>>

NextFile ==
  /\ repeat = "once" /\ next_file_ready' = TRUE
  /\ UNCHANGED <<choice, loops, handle, seek, seeks, ring, lock, out, TL_dwBytesRead, pc, last>>

Main ==
  \/ FirstRead \/ Turn \/ Search \/ Move \/ MoveEnds \/ Fill
  \/ EndRestart \/ EndClose \/ EndReady \/ Reopen
Next == Main \/ (\E o \in Offsets : Seek(o)) \/ NextFile

Spec == Init /\ [][Next]_vars
(* The main task runs, and the board takes what it is given.               *)
FairSpec == Spec /\ WF_vars(Main)
-----------------------------------------------------------------------------
(* A play rate the buffers are made for: what a ring's rest and a bank     *)
(* become, with a burst of null packets, fits on top of a bank.  A packet  *)
(* that none seems to follow is moved and stays in the ring as well; at    *)
(* most one in three does, as the search after it asks for three in a row, *)
(* so half as many bytes again are moved as were read.                     *)
Roomy ==
  20 * Bank + 3 * ratio * (Bank + Window) + 4 * ratio * SrcPkt + 162 * OutPkt <= 20 * Size

(* Each ring's count and its two indices say the same.                     *)
Consistent ==
  /\ (TL_nRIndex + TL_nBCount) % Size = TL_nWIndex
  /\ (TL_nReadPos + TL_nBufferCnt) % Size = TL_nWritePos

(* No ring holds more than it has places: nothing unread is overwritten.   *)
Fit == TL_nBCount \in 0 .. Size /\ TL_nBufferCnt \in 0 .. Size

(* Synchronised, the next packet begins with the synchronisation byte; all *)
(* but the first one after a search that ran out of data on an answer of   *)
(* another length.                                                         *)
Locked == ~TL_nFindSync /\ ~blind => TL_nRIndex \in syncs

(* The rings are sound at every moment of every turn, through seeks, loops,*)
(* damaged files and the end of the file, at any rate they are made for.   *)
RingsSound == Consistent /\ (Roomy => Fit /\ Locked)

(* A packet goes to the second ring once, however often synchronisation is*)
(* lost and a packet taken back: only at the end of the file, where a bank *)
(* counts that was not read, does the ring give again what it held before. *)
MovedOnce ==
  [][Roomy /\ TL_nBufferCnt' > TL_nBufferCnt => TL_nRIndex \notin taken]_vars

(* A playback comes to the end of its file, or ends when the file cannot be*)
(* opened again; unless the first bank has no synchronisation; with null   *)
(* packets, unless exactly one bank is left at the end; and, at a rate the *)
(* buffers are not made for, unless the ring is too full to read and       *)
(* nothing empties it.                                                     *)
Unlockable == TL_gFirstRead /\ TL_gNumLoop = 0 /\ ~Lockable(syncs)
EvenEnd == ratio > 10 /\ feof /\ TL_nBufferCnt = Bank
Jammed == ~Roomy /\ RingFull /\ TL_nBufferCnt <= Bank
PlaysToEnd ==
  (loop_state = "CONT_PLAY") ~>
    (loop_state \in {"END_PLAY", "NONE"} \/ Unlockable \/ EvenEnd \/ Jammed)
=============================================================================
