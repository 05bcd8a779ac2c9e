------------------------------ MODULE IpSession ------------------------------
(***************************************************************************)
(* The connection of the IP receiver: the user's thread, which asks for a  *)
(* stream or gives it up (CIpApi in IPStreamer/srv_rcver.cpp), and the     *)
(* daemon, which opens a socket, receives and closes it (CSrvSock::Daemon, *)
(* CSrvRcver::TsRecvFunc).  They share four variables and no lock; the     *)
(* user polls connection_connected, the daemon data_sess and               *)
(* connection_requested.                                                   *)
(***************************************************************************)
CONSTANTS
  Ports, Groups,  (* UDP ports and multicast groups the user may ask for   *)
  Patience,       (* whether the user waits until a request took effect    *)
  MallocFails     (* whether the pool of packets may not be had            *)

ASSUME IpSessionAssumption == Patience \subseteq BOOLEAN /\ MallocFails \in BOOLEAN

VARIABLES
  asked,          (* __udp_port__ and __req_mcast_ip__                     *)
  mcast,          (* mcast_dot_notation_buf, which the daemon reads        *)
  made,           (* m_Rcver # NULL                                        *)
  requested,      (* connection_requested                                  *)
  connected,      (* connection_connected                                  *)
  data_sess,      (* data_sess # NULL                                      *)
  upc, again,     (* the user's thread; whether it connects after closing  *)
  dpc,            (* the daemon                                            *)
  socket,         (* what the socket of the daemon is bound to             *)
  patient,        (* the user is one who waits                             *)
  nomem           (* the pool for the last request could not be had        *)

user == <<asked, mcast, made, upc, again, patient>>
shared == <<requested, connected, data_sess>>
conn == <<socket, nomem>>
session == <<user, shared, dpc, conn>>

Configs == [port : Ports, group : Groups]

SessionInit ==
  /\ asked \in Configs /\ socket = asked /\ mcast = asked.group
  /\ made = FALSE /\ requested = FALSE /\ connected = FALSE /\ data_sess = FALSE
  /\ upc = "idle" /\ again = FALSE /\ dpc = "none"
  /\ patient \in Patience /\ nomem = FALSE

-----------------------------------------------------------------------------
(* The user's thread.                                                      *)

(* A patient user calls only when the last call has taken effect or failed.*)
Down == dpc = "wait" /\ ~data_sess
Streaming == dpc \in {"loop", "recv"}
Settled == patient /\ made => IF requested THEN Streaming \/ (nomem /\ Down) ELSE Down

(* run_ip_streaming_srv: what is in progress is left alone, with another   *)
(* configuration it is closed first.                                       *)
Run(c) ==
  /\ upc = "idle" /\ Settled
  /\ ~(made /\ requested /\ c = asked)
  /\ asked' = c
  /\ IF made /\ requested
       THEN upc' = "closing" /\ again' = TRUE /\ requested' = FALSE
       ELSE upc' = "connecting" /\ UNCHANGED <<again, requested>>
  /\ UNCHANGED <<mcast, made, connected, data_sess, dpc, conn, patient>>

(* close_ip_streaming_srv: DisconnectReq, then a poll every 100 ms.        *)
Close ==
  /\ upc = "idle" /\ made /\ Settled
  /\ upc' = "closing" /\ again' = FALSE /\ requested' = FALSE
  /\ UNCHANGED <<asked, mcast, made, connected, data_sess, dpc, conn, patient>>

MUT_Idle == TRUE                        \* mutant: it does not wait
Idle == ~connected

Closed ==
  /\ upc = "closing" /\ Idle
  /\ upc' = IF again THEN "connecting" ELSE "idle"
  /\ UNCHANGED <<asked, mcast, made, again, shared, dpc, conn, patient>>

(* The first time the receiver is made with its daemon, which starts with  *)
(* a request; then ConnectReq.                                             *)
Connect ==
  /\ upc = "connecting"
  /\ mcast' = asked.group /\ requested' = TRUE /\ made' = TRUE /\ nomem' = FALSE
  /\ IF made
       THEN upc' = "adding" /\ UNCHANGED <<data_sess, dpc>>
       ELSE upc' = "idle" /\ data_sess' = TRUE /\ dpc' = "wait"
  /\ UNCHANGED <<asked, again, connected, socket, patient>>

AddDataSess ==
  /\ upc = "adding"
  /\ upc' = "idle" /\ data_sess' = TRUE
  /\ UNCHANGED <<asked, mcast, made, again, requested, connected, dpc, conn, patient>>

-----------------------------------------------------------------------------
(* The daemon.                                                             *)

At(here, there) == dpc = here /\ dpc' = there

(* It sleeps a second before it looks for a request: a patient user's poll *)
(* of 100 ms and what follows it are over by then.                         *)
WaitSess ==
  /\ At("wait", "open") /\ data_sess
  /\ patient => upc = "idle"
  /\ UNCHANGED <<user, shared, conn>>

(* SetSrvOpt on a new socket.                                              *)
Open ==
  /\ At("open", "bind")
  /\ socket' = [socket EXCEPT !.group = mcast]
  /\ UNCHANGED <<user, shared, nomem>>

(* There is no socket to be had: it begins again.                          *)
OpenFails ==
  /\ At("open", "wait")
  /\ UNCHANGED <<user, shared, conn>>

(* Bind is tried each second until the port is free.                       *)
Bind ==
  /\ At("bind", "waiting")
  /\ socket' = [socket EXCEPT !.port = asked.port]
  /\ UNCHANGED <<user, shared, nomem>>

MUT_Served == ~data_sess                \* mutant: the test inverted
Served == data_sess

UdpWaiting ==
  /\ dpc = "waiting"
  /\ dpc' = IF Served THEN "init" ELSE "wait"
  /\ UNCHANGED <<user, shared, conn>>

(* InitRecvLvl1.                                                           *)
InitRecvLvl1 ==
  /\ dpc = "init"
  /\ connected' = TRUE
  /\ \/ dpc' = "loop" /\ nomem' = nomem
     \/ MallocFails /\ dpc' = "term1" /\ nomem' = TRUE
  /\ UNCHANGED <<user, requested, data_sess, socket>>

(* TsRecvFunc: before each packet it looks whether it is still wanted.     *)
Requested ==
  /\ dpc = "loop"
  /\ dpc' = IF requested THEN "recv" ELSE "term1"
  /\ UNCHANGED <<user, shared, conn>>

Received ==
  /\ At("recv", "loop")
  /\ UNCHANGED <<user, shared, conn>>

NetworkError ==
  /\ At("recv", "term2")
  /\ UNCHANGED <<user, shared, conn>>

(* TermRecvLvl1 forgets the request, TermRecvLvl2 makes it anew.           *)
MUT_Forgotten == TRUE                   \* mutant: TermRecvLvl1 like TermRecvLvl2
Forgotten == FALSE

TermRecvLvl1 ==
  /\ At("term1", "term")
  /\ data_sess' = Forgotten
  /\ UNCHANGED <<user, requested, connected, conn>>

MUT_Renewed == FALSE                    \* mutant: TermRecvLvl2 like TermRecvLvl1
Renewed == TRUE

TermRecvLvl2 ==
  /\ At("term2", "term")
  /\ data_sess' = Renewed
  /\ UNCHANGED <<user, requested, connected, conn>>

(* connected is taken back, the pool freed, the socket closed.             *)
TermRecv ==
  /\ At("term", "wait")
  /\ connected' = FALSE
  /\ UNCHANGED <<user, requested, data_sess, conn>>

-----------------------------------------------------------------------------
User == (\E c \in Configs : Run(c)) \/ Close
UserGoesOn == Closed \/ Connect \/ AddDataSess
Daemon ==
  \/ WaitSess \/ Open \/ Bind \/ UdpWaiting \/ InitRecvLvl1
  \/ Requested \/ Received \/ TermRecvLvl1 \/ TermRecvLvl2 \/ TermRecv

SessionNext == User \/ UserGoesOn \/ Daemon \/ NetworkError \/ OpenFails

SessionSpec == SessionInit /\ [][SessionNext]_session

(* Both threads run; a port that is taken becomes free, and a socket can be*)
(* had sooner or later.                                                    *)
SessionFairness == WF_session(UserGoesOn) /\ WF_session(Daemon) /\ SF_session(Open)
SessionFairSpec == SessionSpec /\ SessionFairness

-----------------------------------------------------------------------------
SessionTypeOK ==
  /\ patient \in Patience /\ nomem \in BOOLEAN
  /\ asked \in Configs /\ socket \in Configs /\ mcast \in Groups
  /\ {made, requested, connected, data_sess, again} \subseteq BOOLEAN
  /\ upc \in {"idle", "closing", "connecting", "adding"}
  /\ dpc \in {"none", "wait", "open", "bind", "waiting", "init", "loop", "recv", "term1", "term2", "term"}

(* While a patient user wants a stream, what is received is the stream    *)
(* last asked for, not that of a socket from before (CSrvSock::Daemon reads*)
(* the configuration at two points, run_ip_streaming_srv changes it).      *)
StreamsFromRequested == patient /\ Streaming /\ requested /\ upc = "idle" => socket = asked

(* A stream a patient user asked for is received in the end, unless it is  *)
(* given up: no error of the network and no closing makes the daemon forget*)
(* it, only a pool that cannot be had.                                     *)
RequestServed ==
  (patient /\ requested /\ upc = "idle") ~> (Streaming \/ ~requested \/ nomem)

(* A request that stands is known to the daemon or being served ("in       *)
(* progress"): nobody waits for a connection nobody is going to make.      *)
NoStrandedRequest == ~(requested /\ upc = "idle" /\ Down)

(* close_ip_streaming_srv returns, whatever the network does.              *)
CloseReturns == (upc = "closing") ~> (upc # "closing")

(* A receiver that is told to stop comes to rest, also when it was told    *)
(* while it was connecting.                                                *)
StopsReceiving == (made /\ ~requested) ~> (Down \/ requested)
=============================================================================
