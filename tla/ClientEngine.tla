---------------------------- MODULE ClientEngine ----------------------------
(***************************************************************************)
(* One life of a client's engine (client/core/src/engine.cpp) over its     *)
(* sockets (client/core/src/network.cpp): the application starts it and    *)
(* stops it, the TCP thread handles the server's messages, the UDP thread  *)
(* conceals lost packets and fills the jitter buffer, the maintenance      *)
(* thread sends heartbeats.  The platforms never start an engine again:    *)
(* they destroy it after stop() or a start() that failed, and the          *)
(* destructor's stop() finds nothing left to do but the flags.             *)
(*                                                                         *)
(* The flags are atomic variables; a socket is open or closed.  A thread   *)
(* that joins itself ends the process (std::system_error is not caught).   *)
(***************************************************************************)
EXTENDS Integers

CONSTANTS
  PlcCap,      \* at most this many packets in a row are concealed
  MaxSeq       \* bound: the packets the server sends are 1..MaxSeq

ASSUME SizeAssumption == PlcCap \in Nat /\ MaxSeq \in Nat

VARIABLES
  app,         \* where the application is in start() and stop()
  tpc, msg,    \* where the TCP thread is, and the message it handles
  upc,         \* where the UDP thread is
  mpc,         \* where the maintenance thread is
  running, connected, synced,  \* running_, isConnected_, handshakeComplete_
  tcpRunning, udpRunning,
  tsock, usock,  \* the sockets are open
  srv,         \* what the server has sent so far
  last,        \* lastSeqNum_
  received, concealed,  \* packets decoded and made up
  late         \* a packet has arrived after one with a greater number

threads == <<app, tpc, msg, upc, mpc>>
flags   == <<running, connected, synced>>
sockets == <<tcpRunning, udpRunning, tsock, usock>>
stream  == <<last, received, concealed, late>>
vars    == <<threads, flags, sockets, srv, stream>>

Stopping == {"stop", "joinMaint", "closeTcp", "joinTcp", "closeUdp", "joinUdp", "clear"}

Init ==
  /\ app = "new" /\ tpc = "off" /\ msg = "none" /\ upc = "off" /\ mpc = "off"
  /\ running = FALSE /\ connected = FALSE /\ synced = FALSE
  /\ tcpRunning = FALSE /\ udpRunning = FALSE /\ tsock = FALSE /\ usock = FALSE
  /\ srv = "new"
  /\ last = 0 /\ received = {} /\ concealed = {} /\ late = FALSE

-----------------------------------------------------------------------------
(* start() of the application's thread.  A start that fails is followed by *)
(* the destructor.                                                         *)

StartUDPFails ==
  /\ app = "new"
  /\ app' = "clear"
  /\ UNCHANGED <<tpc, msg, upc, mpc, flags, sockets, srv, stream>>

StartUDP ==
  /\ app = "new"
  /\ app' = "connect" /\ upc' = "top" /\ udpRunning' = TRUE /\ usock' = TRUE
  /\ UNCHANGED <<tpc, msg, mpc, flags, tcpRunning, tsock, srv, stream>>

\* No answer in three seconds: the UDP thread is stopped again.
ConnectFails ==
  /\ app = "connect"
  /\ app' = "closeUdp"
  /\ UNCHANGED <<tpc, msg, upc, mpc, flags, sockets, srv, stream>>

Connect ==
  /\ app = "connect"
  /\ app' = "join" /\ tpc' = "top" /\ tcpRunning' = TRUE /\ tsock' = TRUE
  /\ UNCHANGED <<msg, upc, mpc, flags, udpRunning, usock, srv, stream>>

JoinFails ==
  /\ app = "join"
  /\ app' = "stop"
  /\ UNCHANGED <<tpc, msg, upc, mpc, flags, sockets, srv, stream>>

\* JOIN_REQUEST: from here on the TCP thread is handed messages.
Join ==
  /\ app = "join"
  /\ app' = "launch" /\ srv' = IF srv = "new" THEN "joined" ELSE srv
  /\ UNCHANGED <<tpc, msg, upc, mpc, flags, sockets, stream>>

Launch ==
  /\ app = "launch"
  /\ app' = "up" /\ running' = TRUE /\ mpc' = "top"
  /\ UNCHANGED <<tpc, msg, upc, connected, synced, sockets, srv, stream>>

-----------------------------------------------------------------------------
(* stop() of the application's thread.                                     *)

Stop ==
  /\ app = "up"
  /\ app' = "stop"
  /\ UNCHANGED <<tpc, msg, upc, mpc, flags, sockets, srv, stream>>

StopRunning ==
  /\ app = "stop"
  /\ app' = "joinMaint" /\ running' = FALSE
  /\ UNCHANGED <<tpc, msg, upc, mpc, connected, synced, sockets, srv, stream>>

Over(pc) == pc \in {"off", "ended"}

\* Mutant of JoinMaintenance: the thread is not waited for.
JoinNobody ==
  /\ app = "joinMaint"
  /\ app' = "closeTcp"
  /\ UNCHANGED <<tpc, msg, upc, mpc, flags, sockets, srv, stream>>

JoinMaintenance ==
  /\ app = "joinMaint" /\ Over(mpc)
  /\ app' = "closeTcp"
  /\ UNCHANGED <<tpc, msg, upc, mpc, flags, sockets, srv, stream>>

\* Mutant of CloseTcp: the flag is cleared and the socket left open, so that
\* a read that times out is tried again for ever.
CloseTcpFlag ==
  /\ app = "closeTcp"
  /\ app' = "joinTcp" /\ tcpRunning' = FALSE
  /\ UNCHANGED <<tpc, msg, upc, mpc, flags, udpRunning, tsock, usock, srv, stream>>

\* The flag, shutdown and close: a blocked read returns.
CloseTcp ==
  /\ app = "closeTcp"
  /\ app' = "joinTcp" /\ tcpRunning' = FALSE /\ tsock' = FALSE
  /\ UNCHANGED <<tpc, msg, upc, mpc, flags, udpRunning, usock, srv, stream>>

\* Mutant of JoinTcp: the thread is detached.
DetachTcp ==
  /\ app = "joinTcp"
  /\ app' = "closeUdp"
  /\ UNCHANGED <<tpc, msg, upc, mpc, flags, sockets, srv, stream>>

JoinTcp ==
  /\ app = "joinTcp" /\ Over(tpc)
  /\ app' = "closeUdp"
  /\ UNCHANGED <<tpc, msg, upc, mpc, flags, sockets, srv, stream>>

CloseUdp ==
  /\ app = "closeUdp"
  /\ app' = "joinUdp" /\ udpRunning' = FALSE /\ usock' = FALSE
  /\ UNCHANGED <<tpc, msg, upc, mpc, flags, tcpRunning, tsock, srv, stream>>

JoinUdp ==
  /\ app = "joinUdp" /\ Over(upc)
  /\ app' = "clear"
  /\ UNCHANGED <<tpc, msg, upc, mpc, flags, sockets, srv, stream>>

Clear ==
  /\ app = "clear"
  /\ app' = "ended" /\ connected' = FALSE /\ synced' = FALSE
  /\ UNCHANGED <<tpc, msg, upc, mpc, running, sockets, srv, stream>>

-----------------------------------------------------------------------------
(* The server: it answers the join, then probes the client's clock and     *)
(* sends the offset, then other messages, and may close the connection.    *)

After(m) ==
  CASE m = "accept" -> "accepted" [] m = "reject" -> "rejected"
    [] m = "other" -> srv [] m = "offset" -> "synced"

Sendable(m) ==
  CASE m \in {"accept", "reject"} -> srv = "joined"
    [] m = "offset" -> srv \in {"accepted", "synced"}
    [] m = "other" -> srv \in {"accepted", "synced"}

ServerClose ==
  /\ tsock /\ srv # "closed"
  /\ srv' = "closed"
  /\ UNCHANGED <<threads, flags, sockets, stream>>

-----------------------------------------------------------------------------
(* tcpReadLoop and handleTCPMessage.  A probe is answered and a latency    *)
(* handed to the jitter buffer: "other" messages.                          *)

TcpTop ==
  /\ tpc = "top"
  /\ tpc' = IF tcpRunning THEN "recv" ELSE "ended"
  /\ UNCHANGED <<app, msg, upc, mpc, flags, sockets, srv, stream>>

TcpReceive(m) ==
  /\ tpc = "recv" /\ tsock /\ Sendable(m)
  /\ tpc' = "got" /\ msg' = m /\ srv' = After(m)
  /\ UNCHANGED <<app, upc, mpc, flags, sockets, stream>>

\* The server closed the connection, or disconnectTCP the socket.
TcpClosed ==
  /\ tpc = "recv" /\ (~tsock \/ srv = "closed")
  /\ tpc' = "ended" /\ tcpRunning' = FALSE
  /\ UNCHANGED <<app, msg, upc, mpc, flags, udpRunning, tsock, usock, srv, stream>>

TcpTest ==
  /\ tpc = "got"
  /\ tpc' = IF tcpRunning THEN "handle" ELSE "ended"
  /\ UNCHANGED <<app, msg, upc, mpc, flags, sockets, srv, stream>>

HandleAccept ==
  /\ tpc = "handle" /\ msg = "accept"
  /\ tpc' = "top" /\ msg' = "none" /\ connected' = TRUE
  /\ UNCHANGED <<app, upc, mpc, running, synced, sockets, srv, stream>>

HandleOffset ==
  /\ tpc = "handle" /\ msg = "offset"
  /\ tpc' = "top" /\ msg' = "none" /\ synced' = TRUE
  /\ UNCHANGED <<app, upc, mpc, running, connected, sockets, srv, stream>>

HandleOther ==
  /\ tpc = "handle" /\ msg = "other"
  /\ tpc' = "top" /\ msg' = "none"
  /\ UNCHANGED <<app, upc, mpc, flags, sockets, srv, stream>>

\* JOIN_REJECT calls stop() on this thread.  It may do so while the application
\* launches the maintenance thread, or stops the engine itself.
HandleReject ==
  /\ tpc = "handle" /\ msg = "reject"
  /\ tpc' = "stop" /\ msg' = "none"
  /\ UNCHANGED <<app, upc, mpc, flags, sockets, srv, stream>>

\* Mutant of RejectRunning: the maintenance thread is not told to end.
RejectStillRunning ==
  /\ tpc = "stop"
  /\ tpc' = "joinMaint"
  /\ UNCHANGED <<app, msg, upc, mpc, flags, sockets, srv, stream>>

RejectRunning ==
  /\ tpc = "stop"
  /\ tpc' = "joinMaint" /\ running' = FALSE
  /\ UNCHANGED <<app, msg, upc, mpc, connected, synced, sockets, srv, stream>>

RejectJoin ==
  /\ tpc = "joinMaint" /\ Over(mpc)
  /\ tpc' = "closeTcp"
  /\ UNCHANGED <<app, msg, upc, mpc, flags, sockets, srv, stream>>

RejectClose ==
  /\ tpc = "closeTcp"
  /\ tpc' = "joinTcp" /\ tcpRunning' = FALSE /\ tsock' = FALSE
  /\ UNCHANGED <<app, msg, upc, mpc, flags, udpRunning, usock, srv, stream>>

\* tcpThread_ is joinable, and it is this thread.
RejectJoinsItself ==
  /\ tpc = "joinTcp"
  /\ tpc' = "terminated"
  /\ UNCHANGED <<app, msg, upc, mpc, flags, sockets, srv, stream>>

-----------------------------------------------------------------------------
(* udpReadLoop and handleUDPPacket.                                        *)

UdpTop ==
  /\ upc = "top"
  /\ upc' = IF udpRunning /\ usock THEN "recv" ELSE "ended"
  /\ UNCHANGED <<app, tpc, msg, mpc, flags, sockets, srv, stream>>

\* Whether a close wakes a read that is blocked depends on the platform.
UdpWoken ==
  /\ upc = "recv" /\ ~usock
  /\ upc' = "ended" /\ udpRunning' = FALSE
  /\ UNCHANGED <<app, tpc, msg, mpc, flags, tcpRunning, tsock, usock, srv, stream>>

\* Mutant of Lost: the packet received last is counted among the lost ones.
LostMore(n) == IF last # 0 /\ n > last THEN n - last ELSE 0

Lost(n) == IF last # 0 /\ n > last + 1 THEN n - last - 1 ELSE 0

Capped(k) == IF k > PlcCap THEN PlcCap ELSE k

\* Mutant of UdpReceive: what is kept is the number expected next.
UdpReceiveNext(n) ==
  /\ upc = "recv" /\ connected /\ n \notin received
  /\ upc' = "top"
  /\ concealed' = concealed \cup {n - k : k \in 1..Capped(Lost(n))}
  /\ received' = received \cup {n}
  /\ late' = (late \/ n < last) /\ last' = n + 1
  /\ UNCHANGED <<app, tpc, msg, mpc, flags, sockets, srv>>

\* The packets before the one received are made up, the latest PlcCap of
\* them.  The server streams to a client whose clock it has probed.  Packets
\* are lost and reordered on their way, and one that arrives at the socket
\* just closed still ends a blocked read.
UdpReceive(n) ==
  /\ upc = "recv" /\ connected /\ n \notin received
  /\ upc' = "top"
  /\ concealed' = concealed \cup {n - k : k \in 1..Capped(Lost(n))}
  /\ received' = received \cup {n}
  /\ late' = (late \/ n < last) /\ last' = n
  /\ UNCHANGED <<app, tpc, msg, mpc, flags, sockets, srv>>

-----------------------------------------------------------------------------
(* maintenanceLoop.                                                        *)

MaintTop ==
  /\ mpc = "top"
  /\ mpc' = IF running THEN "sleep" ELSE "ended"
  /\ UNCHANGED <<app, tpc, msg, upc, flags, sockets, srv, stream>>

MaintSleep ==
  /\ mpc = "sleep"
  /\ mpc' = IF connected THEN "send" ELSE "top"
  /\ UNCHANGED <<app, tpc, msg, upc, flags, sockets, srv, stream>>

\* Heartbeat, keep-alive or jitter report, on sockets that may be closed.
MaintSend ==
  /\ mpc = "send"
  /\ mpc' = "top"
  /\ UNCHANGED <<app, tpc, msg, upc, flags, sockets, srv, stream>>

-----------------------------------------------------------------------------
Alive == tpc # "terminated"

AppStep == Alive /\
  (\/ StartUDPFails \/ StartUDP \/ ConnectFails \/ Connect \/ JoinFails \/ Join \/ Launch
   \/ StopRunning \/ JoinMaintenance \/ CloseTcp \/ JoinTcp \/ CloseUdp \/ JoinUdp \/ Clear)
TcpStep == Alive /\
  (\/ TcpTop \/ TcpClosed \/ TcpTest
   \/ HandleAccept \/ HandleOffset \/ HandleOther \/ HandleReject
   \/ RejectRunning \/ RejectJoin \/ RejectClose \/ RejectJoinsItself)
MaintStep == Alive /\ (MaintTop \/ MaintSleep \/ MaintSend)
UdpStep   == Alive /\ UdpTop
NetStep == Alive /\
  (\/ Stop \/ ServerClose \/ UdpWoken
   \/ \E m \in {"accept", "reject", "offset", "other"} : TcpReceive(m)
   \/ \E n \in 1..MaxSeq : UdpReceive(n))

Next == AppStep \/ TcpStep \/ MaintStep \/ UdpStep \/ NetStep

\* The threads are scheduled.  Neither the user nor the server nor the
\* network need do anything, and a close need not wake a blocked recvfrom.
Spec == /\ Init /\ [][Next]_vars
        /\ WF_vars(AppStep) /\ WF_vars(TcpStep) /\ WF_vars(MaintStep) /\ WF_vars(UdpStep)

-----------------------------------------------------------------------------
(* Properties.                                                             *)

\* Every variable has its type, and what is made up are numbers of packets.
TypeOK ==
  /\ app \in Stopping \cup {"new", "connect", "join", "launch", "up", "ended"}
  /\ tpc \in {"off", "top", "recv", "got", "handle", "ended",
              "stop", "joinMaint", "closeTcp", "joinTcp", "terminated"}
  /\ msg \in {"none", "accept", "reject", "offset", "other"}
  /\ upc \in {"off", "top", "recv", "ended"}
  /\ mpc \in {"off", "top", "sleep", "send", "ended"}
  /\ running \in BOOLEAN /\ connected \in BOOLEAN /\ synced \in BOOLEAN
  /\ tcpRunning \in BOOLEAN /\ udpRunning \in BOOLEAN /\ tsock \in BOOLEAN /\ usock \in BOOLEAN
  /\ srv \in {"new", "joined", "accepted", "rejected", "synced", "closed"}
  /\ last \in 0..MaxSeq /\ received \subseteq 1..MaxSeq /\ concealed \subseteq 1..MaxSeq
  /\ late \in BOOLEAN

\* When stop() has returned, or a start() that failed, no thread of the engine
\* is left to use it, the sockets are closed and the audio thread is shut out.
StopQuiesces ==
  app = "ended" =>
    Over(tpc) /\ Over(upc) /\ Over(mpc) /\ ~tsock /\ ~usock /\ ~synced /\ ~connected

Rejecting == tpc \in {"stop", "joinMaint", "closeTcp", "joinTcp", "terminated"}

\* The maintenance thread sends while the connection is the engine's: its
\* heartbeat does not go to a descriptor that is closed and used again.
SendsOnOpenSocket == mpc = "send" => tsock \/ Rejecting

\* Until a packet arrives late, what is made up stands for packets that were
\* not received, and for all of a gap that is not longer than the cap.
ConcealsTheLost ==
  ~late =>
    /\ received \cap concealed = {}
    /\ \A a, b \in received :
         /\ a < b /\ b - a - 1 <= PlcCap
         /\ (a + 1..b - 1) \cap received = {}
         => a + 1..b - 1 \subseteq concealed

\* stop() ends, whatever the four threads are doing, except where the UDP thread
\* is blocked in recvfrom at its join, or a rejection ends the process.
StopEnds ==
  app \in Stopping ~> app = "ended" \/ ~Alive \/ (app = "joinUdp" /\ upc = "recv")

\* A rejection that finds the engine running ends the process: the TCP thread
\* joins itself.
RejectionTerminates == (tpc = "stop" /\ app = "up") ~> ~Alive
=============================================================================
