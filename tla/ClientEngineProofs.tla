------------------------- MODULE ClientEngineProofs -------------------------
(***************************************************************************)
(* The safety of the client's engine for any number of packets and any cap *)
(* on concealment.  What a thread may do depends on how far stop() has     *)
(* come (Phases); the numbers of the packets are kept in order by          *)
(* lastSeqNum_ (Numbers).                                                  *)
(***************************************************************************)
EXTENDS ClientEngine, TLAPS

\* Where start() and stop() are decides which threads and sockets there are.
Phases ==
  /\ app \in {"new", "connect"} => tpc = "off" /\ ~tsock
  /\ app = "new" => upc = "off" /\ ~usock
  /\ app \in {"new", "connect", "join", "launch"} => mpc = "off"
  /\ app \in {"closeTcp", "joinTcp", "closeUdp", "joinUdp", "clear", "ended"} => Over(mpc)
  /\ app \in {"joinTcp", "closeUdp", "joinUdp", "clear", "ended"} => ~tsock
  /\ app \in {"closeUdp", "joinUdp", "clear", "ended"} => Over(tpc)
  /\ app \in {"joinUdp", "clear", "ended"} => ~usock
  /\ app \in {"clear", "ended"} => Over(upc)
  /\ app = "ended" => ~synced /\ ~connected

\* The connection is closed by stop() after the maintenance thread, or by a
\* rejection.
ClosedLast ==
  app \in {"join", "launch", "up", "stop", "joinMaint"} \/ ~Over(mpc) => tsock \/ Rejecting

\* Without late packets lastSeqNum_ is the greatest number.
Numbers ==
  ~late =>
    /\ \A n \in received : n <= last
    /\ \A n \in concealed : n < last
    /\ last # 0 => last \in received

IInv == TypeOK /\ Phases /\ ClosedLast /\ Numbers /\ ConcealsTheLost

-----------------------------------------------------------------------------
\* TypeOK in three parts: where everybody is, the flags, and the packets.
Places ==
  /\ app \in Stopping \cup {"new", "connect", "join", "launch", "up", "ended"}
  /\ tpc \in {"off", "top", "recv", "got", "handle", "ended",
              "stop", "joinMaint", "closeTcp", "joinTcp", "terminated"}
  /\ msg \in {"none", "accept", "reject", "offset", "other"}
  /\ upc \in {"off", "top", "recv", "ended"}
  /\ mpc \in {"off", "top", "sleep", "send", "ended"}
  /\ srv \in {"new", "joined", "accepted", "rejected", "synced", "closed"}

Booleans ==
  /\ running \in BOOLEAN /\ connected \in BOOLEAN /\ synced \in BOOLEAN
  /\ tcpRunning \in BOOLEAN /\ udpRunning \in BOOLEAN /\ tsock \in BOOLEAN /\ usock \in BOOLEAN

Packets ==
  last \in 0..MaxSeq /\ received \subseteq 1..MaxSeq /\ concealed \subseteq 1..MaxSeq
  /\ late \in BOOLEAN

LEMMA TypeParts ==
  /\ TypeOK <=> Places /\ Booleans /\ Packets
  /\ TypeOK' <=> Places' /\ Booleans' /\ Packets'
BY Zenon DEF TypeOK, Places, Booleans, Packets

LEMMA InitIInv == Init => IInv
<1> SUFFICES ASSUME Init PROVE IInv
  OBVIOUS
<1>1. Places /\ Packets
  <2>1. Places
    BY DEF Init, Places, Stopping
  <2>2. last \in 0..MaxSeq /\ received \subseteq 1..MaxSeq /\ concealed \subseteq 1..MaxSeq
    BY SizeAssumption DEF Init
  <2>3. late \in BOOLEAN
    BY Zenon DEF Init
  <2> QED
    BY <2>1, <2>2, <2>3, Zenon DEF Packets
<1>2. Booleans
  BY Zenon DEF Init, Booleans
<1>3. Phases /\ ClosedLast
  BY DEF Init, Phases, ClosedLast, Over
<1>4. Numbers /\ ConcealsTheLost
  BY DEF Init, Numbers, ConcealsTheLost
<1> QED
  BY <1>1, <1>2, <1>3, <1>4, TypeParts DEF IInv

\* A step that receives no packet keeps the numbers.
LEMMA StreamKept == ASSUME IInv, UNCHANGED stream PROVE Packets' /\ Numbers' /\ ConcealsTheLost'
<1>1. Packets'
  BY TypeParts, Zenon DEF IInv, Packets, stream
<1>2. Numbers' /\ ConcealsTheLost'
  BY DEF IInv, stream, Numbers, ConcealsTheLost
<1> QED
  BY <1>1, <1>2

\* The application's steps.
LEMMA AppIInv == ASSUME IInv, AppStep PROVE IInv'
<1>1. Places /\ Booleans /\ Phases /\ ClosedLast
  BY TypeParts DEF IInv
<1>2. UNCHANGED stream
  BY DEF AppStep, StartUDPFails, StartUDP, ConnectFails, Connect, JoinFails, Join, Launch,
     StopRunning, JoinMaintenance, CloseTcp, JoinTcp, CloseUdp, JoinUdp, Clear
<1>3. Places'
  BY <1>1 DEF Places, Stopping, AppStep, StartUDPFails, StartUDP, ConnectFails, Connect,
     JoinFails, Join, Launch, StopRunning, JoinMaintenance, CloseTcp, JoinTcp, CloseUdp,
     JoinUdp, Clear
<1>4. Booleans'
  BY <1>1, Zenon DEF Booleans, AppStep, StartUDPFails, StartUDP, ConnectFails, Connect,
     JoinFails, Join, Launch, StopRunning, JoinMaintenance, CloseTcp, JoinTcp, CloseUdp,
     JoinUdp, Clear, flags, sockets
<1>5. Phases'
  BY <1>1 DEF Booleans, Phases, Over, AppStep, StartUDPFails, StartUDP, ConnectFails,
     Connect, JoinFails, Join, Launch, StopRunning, JoinMaintenance, CloseTcp, JoinTcp,
     CloseUdp, JoinUdp, Clear, flags, sockets
<1>6. ClosedLast'
  BY <1>1 DEF Booleans, Phases, ClosedLast, Over, Rejecting, AppStep,
     StartUDPFails, StartUDP, ConnectFails, Connect, JoinFails, Join, Launch, StopRunning,
     JoinMaintenance, CloseTcp, JoinTcp, CloseUdp, JoinUdp, Clear, flags, sockets
<1> QED
  BY <1>2, <1>3, <1>4, <1>5, <1>6, StreamKept, TypeParts DEF IInv

\* The TCP thread's steps, a rejection's among them.
LEMMA TcpIInv == ASSUME IInv, TcpStep PROVE IInv'
<1>1. Places /\ Booleans /\ Phases /\ ClosedLast
  BY TypeParts DEF IInv
<1>2. UNCHANGED stream
  BY DEF TcpStep, TcpTop, TcpClosed, TcpTest, HandleAccept, HandleOffset, HandleOther,
     HandleReject, RejectRunning, RejectJoin, RejectClose, RejectJoinsItself
<1>3. Places'
  BY <1>1 DEF Places, TcpStep, TcpTop, TcpClosed, TcpTest, HandleAccept, HandleOffset,
     HandleOther, HandleReject, RejectRunning, RejectJoin, RejectClose, RejectJoinsItself
<1>4. Booleans'
  BY <1>1, Zenon DEF Booleans, TcpStep, TcpTop, TcpClosed, TcpTest, HandleAccept,
     HandleOffset, HandleOther, HandleReject, RejectRunning, RejectJoin, RejectClose,
     RejectJoinsItself, flags, sockets
<1>5. Phases'
  BY <1>1 DEF Booleans, Phases, Over, TcpStep, TcpTop, TcpClosed, TcpTest, HandleAccept,
     HandleOffset, HandleOther, HandleReject, RejectRunning, RejectJoin, RejectClose,
     RejectJoinsItself, flags, sockets
<1>6. ClosedLast'
  BY <1>1 DEF Booleans, ClosedLast, Over, Rejecting, TcpStep, TcpTop, TcpClosed,
     TcpTest, HandleAccept, HandleOffset, HandleOther, HandleReject, RejectRunning,
     RejectJoin, RejectClose, RejectJoinsItself, flags, sockets
<1> QED
  BY <1>2, <1>3, <1>4, <1>5, <1>6, StreamKept, TypeParts DEF IInv

\* The steps of the other two threads, the user's, the server's and the
\* network's but for a packet.
OtherStep ==
  \/ MaintStep \/ UdpStep \/ Stop \/ ServerClose \/ UdpWoken
  \/ \E m \in {"accept", "reject", "offset", "other"} : TcpReceive(m)

LEMMA OtherIInv == ASSUME IInv, OtherStep PROVE IInv'
<1>1. Places /\ Booleans /\ Phases /\ ClosedLast
  BY TypeParts DEF IInv
<1>2. UNCHANGED stream
  BY DEF OtherStep, MaintStep, UdpStep, MaintTop, MaintSleep, MaintSend, UdpTop, Stop, ServerClose,
     UdpWoken, TcpReceive
<1>3. Places'
  BY <1>1 DEF Places, Stopping, OtherStep, MaintStep, UdpStep, MaintTop, MaintSleep, MaintSend, UdpTop,
     Stop, ServerClose, UdpWoken, TcpReceive, After, threads
<1>4. Booleans'
  BY <1>1, Zenon DEF Booleans, OtherStep, MaintStep, UdpStep, MaintTop, MaintSleep, MaintSend, UdpTop,
     Stop, ServerClose, UdpWoken, TcpReceive, flags, sockets
<1>5. Phases'
  BY <1>1 DEF Booleans, Phases, Over, OtherStep, MaintStep, UdpStep, MaintTop, MaintSleep, MaintSend,
     UdpTop, Stop, ServerClose, UdpWoken, TcpReceive, threads, flags, sockets
<1>6. ClosedLast'
  BY <1>1 DEF Booleans, ClosedLast, Over, Rejecting, OtherStep, MaintStep, UdpStep, MaintTop,
     MaintSleep, MaintSend, UdpTop, Stop, ServerClose, UdpWoken, TcpReceive, threads, flags,
     sockets
<1> QED
  BY <1>2, <1>3, <1>4, <1>5, <1>6, StreamKept, TypeParts DEF IInv

\* A packet: what is made up lies between it and lastSeqNum_.
LEMMA PacketIInv == ASSUME IInv, NEW n \in 1..MaxSeq, UdpReceive(n) PROVE IInv'
<1>1. /\ Places /\ Booleans /\ Packets
      /\ Phases /\ ClosedLast /\ Numbers /\ ConcealsTheLost
  BY TypeParts DEF IInv
<1>2. /\ UNCHANGED <<app, tpc, msg, mpc, flags, sockets, srv>>
      /\ upc = "recv" /\ upc' = "top" /\ connected /\ n \notin received
      /\ concealed' = concealed \cup {n - k : k \in 1..Capped(Lost(n))}
      /\ received' = received \cup {n} /\ last' = n /\ late' = (late \/ n < last)
  BY DEF UdpReceive
<1>3. Phases' /\ ClosedLast'
  BY <1>1, <1>2 DEF Booleans, Phases, ClosedLast, Over, Rejecting, flags, sockets
<1>4. /\ last \in Nat /\ n \in Nat /\ PlcCap \in Nat /\ MaxSeq \in Nat /\ last <= MaxSeq
      /\ received \subseteq Nat /\ concealed \subseteq Nat
  BY <1>1, SizeAssumption DEF Packets
<1>5. /\ Lost(n) \in Nat /\ Capped(Lost(n)) \in Nat /\ Capped(Lost(n)) <= Lost(n)
      /\ Capped(Lost(n)) > 0 => last # 0 /\ Lost(n) = n - last - 1
      /\ Lost(n) <= PlcCap => Capped(Lost(n)) = Lost(n)
  BY <1>4 DEF Lost, Capped
<1>6. ASSUME NEW k \in 1..Capped(Lost(n))
      PROVE  n - k > last /\ n - k < n /\ n - k \in 1..MaxSeq
  BY <1>4, <1>5
<1>7. TypeOK'
  <2>1. concealed' \subseteq 1..MaxSeq /\ received' \subseteq 1..MaxSeq /\ last' \in 0..MaxSeq
    <3>1. received \subseteq 1..MaxSeq /\ concealed \subseteq 1..MaxSeq
      BY <1>1, Zenon DEF Packets
    <3>2. concealed' = concealed \cup {n - k : k \in 1..Capped(Lost(n))}
          /\ received' = received \cup {n} /\ last' = n
      BY <1>2
    <3>3. n \in 0..MaxSeq
      BY <1>4
    <3> QED
      BY <3>1, <3>2, <3>3, <1>6
  <2>2. late' \in BOOLEAN
    BY <1>2, Zenon
  <2>3. Packets'
    BY <2>1, <2>2, Zenon DEF Packets
  <2>4. Places'
    BY <1>1, <1>2 DEF Places
  <2>5. Booleans'
    BY <1>1, <1>2, Zenon DEF Booleans, flags, sockets
  <2> QED
    BY <2>3, <2>4, <2>5, TypeParts
<1>8. CASE late'
  BY <1>3, <1>7, <1>8 DEF IInv, Numbers, ConcealsTheLost
<1>9. CASE ~late'
  <2>1. ~late /\ n >= last
    <3>1. ~late /\ ~(n < last)
      BY <1>2, <1>9, Zenon
    <3> QED
      BY <1>4, <3>1
  <2>2. n > last
    BY <1>1, <1>2, <1>4, <2>1 DEF Numbers
  <2>3. Numbers'
    BY <1>1, <1>2, <1>4, <1>6, <2>1, <2>2 DEF Numbers
  <2>4. received' \cap concealed' = {}
    <3>1. received \cap concealed = {}
      BY <1>1, <2>1 DEF ConcealsTheLost
    <3>2. n \notin concealed
      BY <1>1, <1>4, <2>1, <2>2 DEF Numbers
    <3>3. \A k \in 1..Capped(Lost(n)) : n - k \notin received /\ n - k # n
      BY <1>1, <1>4, <1>6, <2>1 DEF Numbers
    <3> QED
      BY <1>2, <3>1, <3>2, <3>3
  <2>5. ASSUME NEW a \in received', NEW b \in received', a < b, b - a - 1 <= PlcCap,
               (a + 1..b - 1) \cap received' = {}
        PROVE  a + 1..b - 1 \subseteq concealed'
    <3>1. a \in Nat /\ b \in Nat
      BY <1>2, <1>4
    <3>2. CASE b # n /\ a # n
      <4>1. a \in received /\ b \in received /\ (a + 1..b - 1) \cap received = {}
        BY <1>2, <2>5, <3>2
      <4>2. a + 1..b - 1 \subseteq concealed
        BY <1>1, <2>1, <2>5, <4>1 DEF ConcealsTheLost
      <4> QED
        BY <1>2, <4>2
    <3>3. CASE a = n
      <4>1. b <= last
        BY <1>1, <1>2, <2>1, <2>5, <3>1, <3>3, <1>4 DEF Numbers
      <4> QED
        BY <1>4, <2>2, <2>5, <3>1, <3>3, <4>1
    <3>4. CASE b = n /\ a # n
      <4>1. a \in received /\ a <= last
        BY <1>1, <1>2, <2>1, <3>4 DEF Numbers
      <4>2. last # 0 /\ last \in received'
        <5>1. a \in 1..MaxSeq
          BY <1>1, <4>1 DEF Packets
        <5>2. last # 0
          BY <1>4, <4>1, <5>1
        <5> QED
          BY <1>1, <1>2, <2>1, <5>2 DEF Numbers
      <4>3. a = last
        <5>1. last \notin a + 1..b - 1
          BY <2>5, <4>2
        <5> QED
          BY <1>4, <2>2, <3>1, <3>4, <4>1, <5>1
      <4>4. ASSUME NEW i \in a + 1..b - 1 PROVE i \in concealed'
        <5>1. n > last + 1 /\ n - i \in 1..n - last - 1 /\ i \in Nat /\ n - (n - i) = i
          BY <1>4, <3>1, <3>4, <4>3, <4>4
        <5>2. Lost(n) = n - last - 1
          BY <4>2, <5>1 DEF Lost
        <5>3. n - i \in 1..Capped(Lost(n))
          BY <1>5, <2>5, <3>4, <4>3, <5>1, <5>2
        <5> QED
          BY <1>2, <5>1, <5>3
      <4> QED
        BY <4>4
    <3> QED
      BY <3>2, <3>3, <3>4
  <2>6. ConcealsTheLost'
    BY <2>4, <2>5 DEF ConcealsTheLost
  <2> QED
    BY <1>3, <1>7, <2>3, <2>6 DEF IInv
<1> QED
  BY <1>8, <1>9

LEMMA NextIInv == ASSUME IInv, [Next]_vars PROVE IInv'
<1>1. CASE UNCHANGED vars
  <2>1. UNCHANGED <<threads, flags, sockets, srv>> /\ UNCHANGED stream
    BY <1>1 DEF vars
  <2>2. Places /\ Booleans /\ Phases /\ ClosedLast
    BY TypeParts DEF IInv
  <2>3. Places' /\ Phases' /\ ClosedLast'
    BY <2>1, <2>2 DEF Places, Booleans, Phases, ClosedLast, Over, Rejecting,
       threads, flags, sockets
  <2>4. Booleans'
    BY <2>1, <2>2, Zenon DEF Booleans, flags, sockets
  <2> QED
    BY <2>1, <2>3, <2>4, StreamKept, TypeParts DEF IInv
<1>2. CASE Next
  <2>1. CASE AppStep \/ TcpStep
    BY <2>1, AppIInv, TcpIInv
  <2>2. CASE MaintStep \/ UdpStep
    BY <2>2, OtherIInv DEF OtherStep
  <2>3. ASSUME NEW n \in 1..MaxSeq, UdpReceive(n) PROVE IInv'
    BY <2>3, PacketIInv
  <2>4. CASE NetStep
    BY <2>3, <2>4, OtherIInv, Zenon DEF NetStep, OtherStep
  <2> QED
    BY <1>2, <2>1, <2>2, <2>4 DEF Next
<1> QED
  BY <1>1, <1>2

-----------------------------------------------------------------------------
\* IInv holds in every state of the engine.
THEOREM Invariance == Spec => []IInv
<1>1. Init => IInv
  BY InitIInv
<1>2. IInv /\ [Next]_vars => IInv'
  BY NextIInv
<1> QED
  BY <1>1, <1>2, PTL DEF Spec

\* Every variable has its type, whatever arrives.
THEOREM TypeCorrect == Spec => []TypeOK
<1>1. IInv => TypeOK
  BY DEF IInv
<1> QED
  BY <1>1, Invariance, PTL

\* After stop() no thread is left, the sockets are closed and the gate is shut.
THEOREM StoppedIsQuiet == Spec => []StopQuiesces
<1>1. IInv => StopQuiesces
  BY DEF IInv, Phases, StopQuiesces
<1> QED
  BY <1>1, Invariance, PTL

\* stop() joins the maintenance thread before it closes the connection.
THEOREM SendsBeforeClose == Spec => []SendsOnOpenSocket
<1>1. IInv => SendsOnOpenSocket
  BY DEF IInv, ClosedLast, Over, SendsOnOpenSocket
<1> QED
  BY <1>1, Invariance, PTL

\* handleUDPPacket makes up lost packets only, and all of a short gap.
THEOREM ConcealmentIsExact == Spec => []ConcealsTheLost
<1>1. IInv => ConcealsTheLost
  BY DEF IInv
<1> QED
  BY <1>1, Invariance, PTL

-----------------------------------------------------------------------------
(* stop() ends: what of it is safety.                                      *)

\* The steps that a thread has left to its end once it has been told to end
\* and, for the TCP thread, once the connection is closed.
MaintLeft == CASE Over(mpc) -> 0 [] mpc = "top" -> 1 [] mpc = "send" -> 2 [] mpc = "sleep" -> 3
TcpLeft   == CASE Over(tpc) \/ tpc = "terminated" -> 0
               [] tpc \in {"top", "recv", "got", "joinTcp"} -> 1
               [] tpc = "closeTcp" -> 2 [] tpc = "joinMaint" -> 3
               [] tpc = "stop" -> 4 [] tpc = "handle" -> 5
UdpLeft   == CASE Over(upc) -> 0 [] upc = "top" -> 1 [] upc = "recv" -> 2

\* The thread that stop() joins only comes nearer to its end, by every step of
\* its own, whatever the others and the server do.
StopAdvances ==
  [][/\ app = "joinMaint" => MaintLeft' <= MaintLeft /\ (MaintStep => MaintLeft' < MaintLeft)
     /\ app = "joinTcp" => TcpLeft' <= TcpLeft /\ (TcpStep => TcpLeft' < TcpLeft)
     /\ app = "joinUdp" => UdpLeft' <= UdpLeft /\ (UdpStep => UdpLeft' < UdpLeft)]_vars

\* The TCP thread that stop() joins has a step to take: it does not wait for
\* a message on the closed connection, nor, in a rejection, for the
\* maintenance thread.
TcpCanMove ==
  \/ tpc \in {"top", "got", "stop", "closeTcp", "joinTcp"}
  \/ tpc = "recv" /\ ~tsock
  \/ tpc = "handle" /\ msg # "none"
  \/ tpc = "joinMaint" /\ Over(mpc)

StopNotStuck == app = "joinTcp" /\ Alive => Over(tpc) \/ TcpCanMove

\* The flags stay cleared once stop() has cleared them: start() does not set
\* them again.
Told ==
  /\ app \notin {"up", "stop"} => ~running
  /\ app \in {"new", "connect", "joinTcp", "closeUdp", "joinUdp", "clear", "ended"} => ~tcpRunning
  /\ tpc \in {"got", "handle"} => msg # "none"

LEMMA NextTold == IInv /\ Told /\ [Next]_vars => Told'
<1> SUFFICES ASSUME IInv, Told, [Next]_vars PROVE Told'
  OBVIOUS
<1>1. CASE AppStep
  BY <1>1 DEF Told, Stopping, AppStep, StartUDPFails, StartUDP, ConnectFails, Connect,
     JoinFails, Join, Launch, StopRunning, JoinMaintenance, CloseTcp, JoinTcp, CloseUdp,
     JoinUdp, Clear, flags, sockets
<1>2. CASE TcpStep
  BY <1>2 DEF Told, TcpStep, TcpTop, TcpClosed, TcpTest, HandleAccept, HandleOffset,
     HandleOther, HandleReject, RejectRunning, RejectJoin, RejectClose, RejectJoinsItself,
     flags, sockets
<1>3. CASE OtherStep
  BY <1>3 DEF Told, OtherStep, MaintStep, UdpStep, MaintTop, MaintSleep, MaintSend, UdpTop, Stop,
     ServerClose, UdpWoken, TcpReceive, threads, flags, sockets
<1>4. ASSUME NEW n \in 1..MaxSeq, UdpReceive(n) PROVE Told'
  BY <1>4 DEF Told, UdpReceive, flags, sockets
<1>5. CASE UNCHANGED vars
  BY <1>5 DEF Told, vars, threads, flags, sockets
<1> QED
  BY <1>1, <1>2, <1>3, <1>4, <1>5, Zenon DEF Next, NetStep, OtherStep

LEMMA NextAdvances ==
  ASSUME IInv, Told, [Next]_vars
  PROVE  /\ app = "joinMaint" => MaintLeft' <= MaintLeft /\ (MaintStep => MaintLeft' < MaintLeft)
         /\ app = "joinTcp" => TcpLeft' <= TcpLeft /\ (TcpStep => TcpLeft' < TcpLeft)
         /\ app = "joinUdp" => UdpLeft' <= UdpLeft /\ (UdpStep => UdpLeft' < UdpLeft)
<1>1. Places /\ Phases
  BY TypeParts DEF IInv
<1>2. MaintLeft \in Nat /\ TcpLeft \in Nat /\ UdpLeft \in Nat
  BY <1>1 DEF Places, MaintLeft, TcpLeft, UdpLeft, Over
<1>3. ASSUME app = "joinMaint"
      PROVE  MaintLeft' <= MaintLeft /\ (MaintStep => MaintLeft' < MaintLeft)
  <2>1. ~running
    BY <1>3 DEF Told
  <2>2. CASE MaintStep
    BY <1>1, <2>1, <2>2 DEF Places, MaintStep, MaintTop, MaintSleep, MaintSend, MaintLeft, Over
  <2>3. CASE ~MaintStep
    <3>1. mpc' = mpc
      BY <1>3, <2>3 DEF Next, AppStep, StartUDPFails, StartUDP, ConnectFails, Connect,
         JoinFails, Join, Launch, StopRunning, JoinMaintenance, CloseTcp, JoinTcp, CloseUdp,
         JoinUdp, Clear, TcpStep, TcpTop, TcpClosed, TcpTest, HandleAccept, HandleOffset,
         HandleOther, HandleReject, RejectRunning, RejectJoin, RejectClose, RejectJoinsItself,
         UdpStep, UdpTop, NetStep, Stop, ServerClose, UdpWoken, TcpReceive, UdpReceive,
         threads, vars
    <3>2. MaintLeft' = MaintLeft
      BY <3>1 DEF MaintLeft, Over
    <3> QED
      BY <1>2, <2>3, <3>2
  <2> QED
    BY <2>2, <2>3
<1>4. ASSUME app = "joinTcp"
      PROVE  TcpLeft' <= TcpLeft /\ (TcpStep => TcpLeft' < TcpLeft)
  <2>1. ~tcpRunning /\ ~tsock
    BY <1>1, <1>4 DEF Told, Phases
  <2>2. CASE TcpStep
    BY <1>1, <2>1, <2>2 DEF Places, TcpStep, TcpTop, TcpClosed, TcpTest, HandleAccept,
       HandleOffset, HandleOther, HandleReject, RejectRunning, RejectJoin, RejectClose,
       RejectJoinsItself, TcpLeft, Over
  <2>3. CASE ~TcpStep
    <3>1. tpc' = tpc
      BY <1>4, <2>1, <2>3 DEF Next, AppStep, StartUDPFails, StartUDP, ConnectFails, Connect,
         JoinFails, Join, Launch, StopRunning, JoinMaintenance, CloseTcp, JoinTcp, CloseUdp,
         JoinUdp, Clear, MaintStep, MaintTop, MaintSleep, MaintSend,
         UdpStep, UdpTop, NetStep, Stop, ServerClose, UdpWoken, TcpReceive, UdpReceive,
         threads, vars
    <3>2. TcpLeft' = TcpLeft
      BY <3>1 DEF TcpLeft, Over
    <3> QED
      BY <1>2, <2>3, <3>2
  <2> QED
    BY <2>2, <2>3
<1>5. ASSUME app = "joinUdp"
      PROVE  UdpLeft' <= UdpLeft /\ (UdpStep => UdpLeft' < UdpLeft)
  <2>1. ~usock
    BY <1>1, <1>5 DEF Phases
  <2>2. CASE UdpStep
    BY <1>1, <2>1, <2>2 DEF Places, UdpStep, UdpTop, UdpLeft, Over
  <2>3. CASE UdpWoken \/ \E n \in 1..MaxSeq : UdpReceive(n)
    BY <1>1, <2>3 DEF Places, UdpWoken, UdpReceive, UdpStep, UdpTop, UdpLeft, Over
  <2>4. CASE ~(UdpStep \/ UdpWoken \/ \E n \in 1..MaxSeq : UdpReceive(n))
    <3>1. upc' = upc
      BY <1>5, <2>4 DEF Next, AppStep, StartUDPFails, StartUDP, ConnectFails, Connect,
         JoinFails, Join, Launch, StopRunning, JoinMaintenance, CloseTcp, JoinTcp, CloseUdp,
         JoinUdp, Clear, MaintStep, MaintTop, MaintSleep, MaintSend,
         TcpStep, TcpTop, TcpClosed, TcpTest, HandleAccept, HandleOffset,
         HandleOther, HandleReject, RejectRunning, RejectJoin, RejectClose, RejectJoinsItself,
         NetStep, Stop, ServerClose, TcpReceive, threads, vars
    <3>2. UdpLeft' = UdpLeft
      BY <3>1 DEF UdpLeft, Over
    <3> QED
      BY <1>2, <2>4, <3>2
  <2> QED
    BY <2>2, <2>3, <2>4
<1> QED
  BY <1>3, <1>4, <1>5

THEOREM ToldToEnd == Spec => []Told
<1>1. Init => Told
  BY DEF Init, Told
<1> QED
  BY <1>1, NextTold, Invariance, PTL DEF Spec

\* stop() joins threads that have been told to end before it waits for them,
\* in an order that leaves none of them waiting for another: each wait ends
\* after at most as many of their steps as are left.
THEOREM StopComesNearer == Spec => StopAdvances
<1>1. IInv /\ Told /\ [Next]_vars =>
        [/\ app = "joinMaint" => MaintLeft' <= MaintLeft /\ (MaintStep => MaintLeft' < MaintLeft)
         /\ app = "joinTcp" => TcpLeft' <= TcpLeft /\ (TcpStep => TcpLeft' < TcpLeft)
         /\ app = "joinUdp" => UdpLeft' <= UdpLeft /\ (UdpStep => UdpLeft' < UdpLeft)]_vars
  BY NextAdvances
<1> QED
  BY <1>1, Invariance, ToldToEnd, PTL DEF Spec, StopAdvances

\* disconnectTCP leaves the TCP thread nothing to wait for.
THEOREM StopIsNotStuck == Spec => []StopNotStuck
<1>1. ASSUME IInv, Told PROVE StopNotStuck
  <2>1. Places /\ Phases
    BY <1>1, TypeParts DEF IInv
  <2> QED
    BY <1>1, <2>1 DEF Places, Phases, Told, StopNotStuck, TcpCanMove, Alive, Over
<1> QED
  BY <1>1, Invariance, ToldToEnd, PTL
=============================================================================
