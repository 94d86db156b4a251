------------------------ MODULE StreamBroadcastProofs ------------------------
(***************************************************************************)
(* For any clients, buffers and length of the queue: a payload is sent as  *)
(* it was captured, and every client gets its frames in order.             *)
(***************************************************************************)
EXTENDS StreamBroadcast, FiniteSetTheorems, TLAPS

\* A buffer in use has one user, and holds that user's frame.
Owned ==
  /\ held # None => held \notin pool /\ content[held] = next
  /\ packet # None =>
       /\ packet.buf \notin pool /\ packet.buf # held
       /\ content[packet.buf] = packet.n
  /\ \A i \in 1..Len(queue) :
       /\ queue[i].buf \notin pool /\ queue[i].buf # held
       /\ content[queue[i].buf] = queue[i].n
       /\ packet # None => queue[i].buf # packet.buf
  /\ \A i, j \in 1..Len(queue) : queue[i].buf = queue[j].buf => i = j

\* Frames go through the queue in the order of their numbers.
Ordered ==
  /\ \A i \in 1..Len(queue) :
       /\ queue[i].n < next
       /\ packet # None => packet.n < queue[i].n
  /\ \A i, j \in 1..Len(queue) : i < j => queue[i].n < queue[j].n
  /\ packet # None => packet.n < next

\* What a client has been sent lies behind what it will be sent.
Behind ==
  \A c \in Clients :
    /\ wire[c].seq <= seq[c]
    /\ wire[c].n < next
    /\ \A i \in 1..Len(queue) : wire[c].n < queue[i].n
    /\ phase = "select" => wire[c].n < packet.n
    /\ phase = "send" /\ c \in todo => wire[c].n < packet.n

\* No buffer is forgotten.
Kept ==
  \A b \in Buffers :
    \/ b \in pool \/ b = held
    \/ packet # None /\ b = packet.buf
    \/ \E i \in 1..Len(queue) : queue[i].buf = b

IInv == TypeOK /\ Owned /\ Kept /\ Ordered /\ Behind /\ PayloadIntact

-----------------------------------------------------------------------------
\* The empty manager satisfies the invariant.
LEMMA InitIInv == Init => IInv
BY ChannelAssumption, BufferAssumption
   DEF Init, IInv, TypeOK, Owned, Kept, Ordered, Behind, PayloadIntact,
       Packet, Datagram

\* Elements of the queue are packets.
LEMMA QueuedPackets ==
  ASSUME TypeOK, NEW i \in 1..Len(queue)
  PROVE  queue[i] \in Packet /\ queue[i].n \in Nat /\ queue[i].buf \in Buffers
<1>1. queue \in Seq(Packet)
  BY DEF TypeOK
<1>2. queue[i] \in Packet
  BY <1>1
<1>3. QED
  BY <1>2 DEF Packet

\* Every step of the pipeline preserves the invariant.
LEMMA PipelineIInv == IInv /\ Pipeline => IInv'
<1> SUFFICES ASSUME IInv, Pipeline
             PROVE  IInv'
  OBVIOUS
<1>0. TypeOK /\ Owned /\ Kept /\ Ordered /\ Behind /\ PayloadIntact
  BY DEF IInv
<1>1. CASE EncodeFails
  <2>1. TypeOK' /\ Owned' /\ Kept' /\ PayloadIntact'
    BY <1>0, <1>1, BufferAssumption
       DEF EncodeFails, loop, table, sent, TypeOK, Owned, Kept, PayloadIntact
  <2>2. Ordered' /\ Behind'
    BY <1>0, <1>1, QueuedPackets
       DEF EncodeFails, loop, table, sent, TypeOK, Ordered, Behind, Packet,
           Datagram
  <2>3. QED
    BY <2>1, <2>2 DEF IInv
<1>2. ASSUME NEW b \in Buffers, Fill(b)
      PROVE  IInv'
  <2>1. TypeOK' /\ PayloadIntact'
    BY <1>0, <1>2 DEF Fill, loop, table, sent, TypeOK, PayloadIntact
  <2>2. Owned'
    BY <1>0, <1>2, QueuedPackets, BufferAssumption
       DEF Fill, loop, table, sent, TypeOK, Owned, Packet
  <2>3. Ordered' /\ Behind'
    BY <1>0, <1>2 DEF Fill, loop, table, sent, Ordered, Behind
  <2>4. Kept'
    BY <1>0, <1>2, BufferAssumption DEF Fill, loop, Kept
  <2>5. QED
    BY <2>1, <2>2, <2>3, <2>4 DEF IInv
<1>3. CASE Enqueue
  <2> DEFINE new == [n |-> next, buf |-> held]
  <2>1. new \in Packet /\ new.n = next /\ new.buf = held /\ held \in Buffers
    BY <1>0, <1>3 DEF Enqueue, TypeOK, Packet
  <2>2. queue \in Seq(Packet) /\ queue' = Append(queue, new)
    BY <1>0, <1>3 DEF Enqueue, TypeOK
  <2> HIDE DEF new
  <2>3. /\ queue' \in Seq(Packet)
        /\ Len(queue') = Len(queue) + 1
        /\ Len(queue) \in Nat
        /\ queue'[Len(queue) + 1] = new
        /\ \A i \in 1..Len(queue) : queue'[i] = queue[i]
    BY <2>1, <2>2
  <2>4. /\ next \in Nat /\ next' = next + 1 /\ held' = None /\ held # None
        /\ Len(queue) < QueueCap
        /\ pool' = pool /\ content' = content /\ phase' = phase
        /\ packet' = packet /\ todo' = todo /\ wire' = wire /\ seq' = seq
        /\ UNCHANGED <<running, table>>
    BY <1>0, <1>3 DEF Enqueue, loop, sent, TypeOK
  <2>5. TypeOK' /\ PayloadIntact'
    BY <1>0, <2>3, <2>4, BufferAssumption DEF table, TypeOK, PayloadIntact
  <2>6. \A i \in 1..Len(queue') :
          \/ i \in 1..Len(queue) /\ queue'[i] = queue[i]
          \/ i = Len(queue) + 1 /\ queue'[i].n = next /\ queue'[i].buf = held
    BY <2>1, <2>3
  <2>7. \A i \in 1..Len(queue) : queue[i].n \in Nat /\ queue[i].buf \in Buffers
    BY <1>0, QueuedPackets
  <2>8. /\ packet # None => packet.n \in Nat
        /\ \A c \in Clients : wire[c].n \in Nat
    BY <1>0 DEF TypeOK, Packet, Datagram
  <2>9. Owned'
    <3>1. /\ held' # None => held' \notin pool' /\ content'[held'] = next'
          /\ packet' # None =>
               /\ packet'.buf \notin pool' /\ packet'.buf # held'
               /\ content'[packet'.buf] = packet'.n
      <4>1. packet # None => packet.buf # None
        BY <1>0, BufferAssumption DEF TypeOK, Packet
      <4>2. QED
        BY <1>0, <2>4, <4>1 DEF Owned
    <3>2. \A i \in 1..Len(queue') :
            /\ queue'[i].buf \notin pool' /\ queue'[i].buf # held'
            /\ content'[queue'[i].buf] = queue'[i].n
            /\ packet' # None => queue'[i].buf # packet'.buf
      BY <1>0, <2>1, <2>4, <2>6, <2>7, BufferAssumption DEF Owned
    <3>3. \A i, j \in 1..Len(queue') : queue'[i].buf = queue'[j].buf => i = j
      BY <1>0, <2>6 DEF Owned
    <3>4. QED
      BY <3>1, <3>2, <3>3 DEF Owned
  <2>10. Ordered'
    <3>1. \A i \in 1..Len(queue') :
            /\ queue'[i].n < next'
            /\ packet' # None => packet'.n < queue'[i].n
      BY <1>0, <2>4, <2>6, <2>7, <2>8 DEF Ordered
    <3>2. \A i, j \in 1..Len(queue') : i < j => queue'[i].n < queue'[j].n
      BY <1>0, <2>3, <2>6 DEF Ordered
    <3>3. packet' # None => packet'.n < next'
      BY <1>0, <2>4, <2>8 DEF Ordered
    <3>4. QED
      BY <3>1, <3>2, <3>3 DEF Ordered
  <2>11. Behind'
    BY <1>0, <2>4, <2>6, <2>8 DEF Behind
  <2>12. Kept'
    <3>1. \A i \in 1..Len(queue) : i \in 1..Len(queue') /\ queue'[i] = queue[i]
      BY <2>3
    <3>2. Len(queue) + 1 \in 1..Len(queue') /\ queue'[Len(queue) + 1].buf = held
      BY <2>1, <2>3
    <3>3. QED
      BY <1>0, <2>4, <3>1, <3>2 DEF Kept
  <2>13. QED
    BY <2>5, <2>9, <2>10, <2>11, <2>12 DEF IInv
<1>4. CASE Drop
  <2>1. TypeOK' /\ PayloadIntact'
    BY <1>0, <1>4 DEF Drop, loop, table, sent, TypeOK, PayloadIntact
  <2>2. Owned'
    BY <1>0, <1>4, QueuedPackets, BufferAssumption
       DEF Drop, loop, table, sent, TypeOK, Owned, Packet
  <2>3. Ordered' /\ Behind'
    BY <1>0, <1>4, QueuedPackets
       DEF Drop, loop, table, sent, TypeOK, Ordered, Behind, Packet, Datagram
  <2>4. Kept'
    BY <1>0, <1>4 DEF Drop, loop, Kept
  <2>5. QED
    BY <2>1, <2>2, <2>3, <2>4 DEF IInv
<1>5. QED
  BY <1>1, <1>2, <1>3, <1>4 DEF Pipeline

\* Every step of the broadcast loop preserves the invariant.
LEMMA LoopIInv == IInv /\ Loop => IInv'
<1> SUFFICES ASSUME IInv, Loop
             PROVE  IInv'
  OBVIOUS
<1>0. TypeOK /\ Owned /\ Kept /\ Ordered /\ Behind /\ PayloadIntact
  BY DEF IInv
<1>1. CASE Dequeue
  <2>0. /\ queue \in Seq(Packet) /\ queue # <<>> /\ phase = "wait"
        /\ packet' = Head(queue) /\ queue' = Tail(queue) /\ phase' = "select"
        /\ UNCHANGED <<pipeline, pool, content, running, todo, table, sent>>
    BY <1>0, <1>1 DEF Dequeue, TypeOK
  <2>1. /\ Len(queue) \in Nat \ {0}
        /\ packet' = queue[1]
        /\ Len(queue') = Len(queue) - 1
        /\ \A i \in 1..Len(queue') : queue'[i] = queue[i + 1]
        /\ queue' \in Seq(Packet)
    BY <2>0
  <2>2. packet' \in Packet /\ packet' # None /\ packet = None
    <3>1. packet' \in Packet
      BY <2>0
    <3>2. packet = None
      BY <1>0, <2>0 DEF TypeOK
    <3>3. None \notin Packet
      BY NoneAssumption
    <3>4. QED
      BY <3>1, <3>2, <3>3
  <2>3. TypeOK' /\ PayloadIntact'
    <3>1. queue' \in Seq(Packet) /\ Len(queue') <= QueueCap
      BY <1>0, <2>1, BufferAssumption DEF TypeOK
    <3>2. packet' # None <=> phase' \in {"select", "send"}
      BY <2>0, <2>2
    <3>3. QED
      BY <1>0, <2>0, <2>2, <3>1, <3>2
         DEF pipeline, table, sent, TypeOK, PayloadIntact
  <2>4. Owned'
    BY <1>0, <1>1, <2>1, <2>2
       DEF Dequeue, pipeline, table, sent, Owned
  <2>5. Ordered'
    BY <1>0, <1>1, <2>1, <2>2
       DEF Dequeue, pipeline, table, sent, Ordered
  <2>6. Behind'
    BY <1>0, <1>1, <2>1, <2>2
       DEF Dequeue, pipeline, table, sent, Behind
  <2>7. Kept'
    <3>1. \A i \in 1..Len(queue) : \/ queue[i] = packet'
                                 \/ \E j \in 1..Len(queue') : queue'[j] = queue[i]
      <4>1. ASSUME NEW i \in 1..Len(queue), i # 1
            PROVE  i - 1 \in 1..Len(queue') /\ queue'[i - 1] = queue[i]
        BY <2>1, <4>1
      <4>2. QED
        BY <2>1, <4>1
    <3>2. QED
      BY <1>0, <2>0, <2>2, <3>1 DEF pipeline, Kept
  <2>8. QED
    BY <2>3, <2>4, <2>5, <2>6, <2>7 DEF IInv
<1>2. CASE Snapshot
  <2>1. TypeOK' /\ PayloadIntact'
    BY <1>0, <1>2
       DEF Snapshot, pipeline, table, sent, TypeOK, PayloadIntact
  <2>2. Owned' /\ Kept' /\ Ordered'
    BY <1>0, <1>2 DEF Snapshot, pipeline, table, sent, Owned, Kept, Ordered
  <2>3. Behind'
    BY <1>0, <1>2 DEF Snapshot, pipeline, table, sent, TypeOK, Behind
  <2>4. QED
    BY <2>1, <2>2, <2>3 DEF IInv
<1>3. ASSUME NEW c \in Clients, SendPacket(c)
      PROVE  IInv'
  <2>1. packet \in Packet /\ packet # None /\ packet.n \in Nat
        /\ packet.buf \in Buffers /\ content[packet.buf] = packet.n
    BY <1>0, <1>3 DEF SendPacket, Serve, TypeOK, Owned, Packet
  <2>2. /\ wire' = [wire EXCEPT ![c] =
             [seq |-> seq[c] + 1, n |-> packet.n, data |-> packet.n]]
        /\ seq' = [seq EXCEPT ![c] = seq[c] + 1]
        /\ todo' = todo \ {c}
        /\ UNCHANGED <<pipeline, pool, content, queue, running, phase, packet,
                       table>>
    BY <1>3, <2>1 DEF SendPacket, Serve
  <2>3. TypeOK' /\ PayloadIntact'
    BY <1>0, <2>1, <2>2
       DEF pipeline, table, TypeOK, PayloadIntact, Datagram
  <2>4. Owned' /\ Kept' /\ Ordered'
    BY <1>0, <2>2 DEF pipeline, Owned, Kept, Ordered
  <2>5. \A d \in Clients : d # c => wire'[d] = wire[d] /\ seq'[d] = seq[d]
    BY <1>0, <2>2 DEF TypeOK
  <2>6. wire'[c].seq = seq'[c] /\ wire'[c].n = packet.n /\ seq'[c] \in Nat
    BY <1>0, <2>1, <2>2 DEF TypeOK
  <2>7. Behind'
    BY <1>0, <1>3, <2>1, <2>2, <2>5, <2>6
       DEF SendPacket, Serve, pipeline, TypeOK, Ordered, Behind
  <2>8. QED
    BY <2>3, <2>4, <2>7 DEF IInv
<1>4. ASSUME NEW c \in Clients, SendFails(c)
      PROVE  IInv'
  <2>1. TypeOK' /\ PayloadIntact'
    BY <1>0, <1>4 DEF SendFails, Serve, pipeline, table, TypeOK, PayloadIntact
  <2>2. Owned' /\ Kept' /\ Ordered'
    BY <1>0, <1>4 DEF SendFails, Serve, pipeline, table, Owned, Kept, Ordered
  <2>3. Behind'
    BY <1>0, <1>4
       DEF SendFails, Serve, pipeline, table, TypeOK, Behind, Datagram
  <2>4. QED
    BY <2>1, <2>2, <2>3 DEF IInv
<1>5. CASE PutBack
  <2>1. packet \in Packet /\ packet # None
    BY <1>0, <1>5 DEF PutBack, TypeOK
  <2>2. TypeOK' /\ PayloadIntact'
    BY <1>0, <1>5, <2>1
       DEF PutBack, pipeline, table, sent, TypeOK, PayloadIntact, Packet
  <2>3. Owned' /\ Kept'
    BY <1>0, <1>5, <2>1 DEF PutBack, pipeline, table, sent, Owned, Kept
  <2>4. Ordered' /\ Behind'
    BY <1>0, <1>5 DEF PutBack, pipeline, table, sent, Ordered, Behind
  <2>5. QED
    BY <2>2, <2>3, <2>4 DEF IInv
<1>6. CASE LoopReturns
  <2>1. TypeOK' /\ PayloadIntact'
    BY <1>0, <1>6
       DEF LoopReturns, pipeline, table, sent, TypeOK, PayloadIntact
  <2>2. Owned' /\ Kept' /\ Ordered' /\ Behind'
    BY <1>0, <1>6
       DEF LoopReturns, pipeline, table, sent, TypeOK, Owned, Kept, Ordered, Behind
  <2>3. QED
    BY <2>1, <2>2 DEF IInv
<1>7. QED
  BY <1>1, <1>2, <1>3, <1>4, <1>5, <1>6 DEF Loop

\* Callers of the manager change nothing a payload depends on.
LEMMA CallsIInv == IInv /\ Calls => IInv'
<1> SUFFICES ASSUME IInv, Calls
             PROVE  IInv'
  OBVIOUS
<1>0. TypeOK /\ Owned /\ Kept /\ Ordered /\ Behind /\ PayloadIntact
  BY DEF IInv
<1>1. UNCHANGED <<pipeline, pool, content, queue, loop, sent>>
  BY DEF Calls, Stop, AddClient, RemoveClient, SetChannel
<1>2. Owned' /\ Kept' /\ Ordered' /\ Behind' /\ PayloadIntact'
  BY <1>0, <1>1
     DEF pipeline, loop, sent, Owned, Kept, Ordered, Behind, PayloadIntact
<1>3. /\ running' \in BOOLEAN /\ members' \subseteq Clients
      /\ assign' \in [Clients -> Channels \cup {None}]
  BY <1>0 DEF Calls, Stop, AddClient, RemoveClient, SetChannel, table, TypeOK
<1>4. TypeOK'
  BY <1>0, <1>1, <1>3 DEF pipeline, loop, sent, TypeOK
<1>5. QED
  BY <1>2, <1>4 DEF IInv

\* The invariant is preserved by every step.
LEMMA NextIInv == IInv /\ [Next]_vars => IInv'
<1>1. IInv /\ UNCHANGED vars => IInv'
  BY DEF vars, pipeline, loop, table, sent, IInv, TypeOK, Owned, Kept, Ordered,
         Behind, PayloadIntact
<1>2. QED
  BY <1>1, PipelineIInv, LoopIInv, CallsIInv DEF Next

\* The invariant holds in every state.
LEMMA AlwaysIInv == Spec => []IInv
BY InitIInv, NextIInv, PTL DEF Spec

\* The variables of the manager, the pipeline and the loop keep their types.
THEOREM TypeCorrect == Spec => []TypeOK
<1>1. IInv => TypeOK
  BY DEF IInv
<1>2. QED
  BY <1>1, AlwaysIInv, PTL

\* The payload of every datagram is the frame it announces: payload buffers go
\* back to the pool only when their packet has been sent (broadcastLoop) or
\* dropped (SendAudio).
THEOREM PayloadsAreIntact == Spec => []PayloadIntact
<1>1. IInv => PayloadIntact
  BY DEF IInv
<1>2. QED
  BY <1>1, AlwaysIInv, PTL

\* SendAudio always finds a buffer among QueueCap + 2: those in use are in the
\* queue or with the loop.
THEOREM PoolSuffices == Spec => []PoolNeverEmpty
<1>1. IInv => PoolNeverEmpty
  <2> SUFFICES ASSUME IInv, held = None, pool = {}
               PROVE  FALSE
    BY DEF PoolNeverEmpty
  <2>0. TypeOK /\ Kept
    BY DEF IInv
  <2> DEFINE queued == {queue[i].buf : i \in 1..Len(queue)}
             first  == IF packet = None THEN None ELSE packet.buf
             bufAt  == [i \in 1..Len(queue) |-> queue[i].buf]
  <2>1. Len(queue) \in Nat /\ Len(queue) <= QueueCap /\ QueueCap \in Nat
    BY <2>0, BufferAssumption DEF TypeOK
  <2>2. IsFiniteSet(1..Len(queue)) /\ Cardinality(1..Len(queue)) = Len(queue)
    <3>1. \A n \in Nat : IsFiniteSet(1..n) /\ Cardinality(1..n) = n
      <4>1. ASSUME NEW n \in Nat
            PROVE  /\ IsFiniteSet(1..n)
                   /\ Cardinality(1..n) = IF 1 > n THEN 0 ELSE n - 1 + 1
        BY FS_Interval
      <4>2. QED
        BY <4>1
    <3>2. QED
      BY <2>1, <3>1
  <2>3. bufAt \in Surjection(1..Len(queue), queued)
    BY DEF Surjection
  <2>4. IsFiniteSet(queued) /\ Cardinality(queued) <= Len(queue)
    BY <2>2, <2>3, FS_Surjection
  <2> HIDE DEF queued, first
  <2>5. /\ IsFiniteSet(queued \cup {first})
        /\ Cardinality(queued \cup {first}) <= Cardinality(queued) + 1
        /\ Cardinality(queued) \in Nat
    BY <2>4, FS_AddElement, FS_CardinalityType
  <2>6. Buffers \subseteq queued \cup {first}
    BY <2>0, BufferAssumption DEF Kept, queued, first
  <2>7. Cardinality(Buffers) <= Cardinality(queued \cup {first})
    BY <2>5, <2>6, FS_Subset
  <2>8. Cardinality(Buffers) \in Nat /\ Cardinality(queued \cup {first}) \in Nat
    BY <2>5, BufferAssumption, FS_CardinalityType
  <2>9. QED
    BY <2>1, <2>4, <2>5, <2>7, <2>8, BufferAssumption
<1>2. QED
  BY <1>1, AlwaysIInv, PTL

\* Each client's datagrams carry growing sequence numbers and later and later
\* frames (doSendAudio).
THEOREM DatagramsAreInOrder == Spec => WireInOrder
<1> DEFINE Step == \A c \in Clients : wire'[c] # wire[c] =>
                     wire'[c].seq > wire[c].seq /\ wire'[c].n > wire[c].n
<1>1. IInv /\ [Next]_vars => [Step]_vars
  <2> SUFFICES ASSUME IInv, Next
               PROVE  Step
    OBVIOUS
  <2>1. ASSUME NEW c \in Clients, SendPacket(c)
        PROVE  Step
    <3>1. /\ wire[c].n < packet.n /\ wire[c].seq <= seq[c]
          /\ wire[c].n \in Nat /\ packet.n \in Nat
          /\ wire[c].seq \in Nat /\ seq[c] \in Nat
      BY <2>1
         DEF SendPacket, Serve, IInv, TypeOK, Behind, Packet, Datagram
    <3>2. wire'[c].seq = seq[c] + 1 /\ wire'[c].n = packet.n
      BY <2>1 DEF SendPacket, IInv, TypeOK
    <3>3. \A d \in Clients : d # c => wire'[d] = wire[d]
      BY <2>1 DEF SendPacket, IInv, TypeOK
    <3>4. QED
      BY <3>1, <3>2, <3>3
  <2>2. CASE wire' = wire
    BY <2>2
  <2>3. wire' = wire \/ \E c \in Clients : SendPacket(c)
    BY DEF Next, Pipeline, EncodeFails, Fill, Enqueue, Drop, Loop, Dequeue,
           Snapshot, SendFails, PutBack, LoopReturns, Calls, Stop, AddClient,
           RemoveClient, SetChannel, sent
  <2>4. QED
    BY <2>1, <2>2, <2>3
<1>2. QED
  BY <1>1, AlwaysIInv, PTL DEF Spec, WireInOrder

-----------------------------------------------------------------------------
(* Progress of the loop: what QueuedIsServed rests on besides the          *)
(* scheduling of the goroutine.                                            *)

\* The packets of the queue stay in it, at their places ...
QueueStays ==
  \A i \in 1..Len(queue) : i <= Len(queue') /\ queue'[i] = queue[i]

\* ... or each moves up by one, and the loop works on the first.
QueueMovesUp ==
  /\ queue # <<>> /\ packet' = queue[1] /\ phase' = "select"
  /\ \A i \in 2..Len(queue) : i - 1 <= Len(queue') /\ queue'[i - 1] = queue[i]

\* The packet being sent stays until every client selected for it had its turn,
\* each of them once: a turn uses up one number of that client.
PacketStays ==
  /\ phase \in {"select", "send"} =>
       \/ /\ packet' = packet /\ phase' = "send" /\ phase = "select"
          /\ UNCHANGED seq
       \/ /\ packet' = packet /\ phase' = phase /\ todo' \subseteq todo
          /\ \A c \in Clients : seq'[c] = IF c \in todo \ todo' THEN seq[c] + 1 ELSE seq[c]
       \/ phase = "send" /\ todo = {} /\ phase' = "wait"
  /\ phase \notin {"select", "send"} => UNCHANGED <<todo, seq>>

\* Every step of the loop brings the packets nearer to their turn, and no step of
\* the pipeline, of a handler or of a request puts them off.
QueueAdvances ==
  [][/\ QueueStays \/ QueueMovesUp
     /\ PacketStays
     /\ Loop => \/ QueueMovesUp \/ ~running
                \/ phase = "select" /\ phase' = "send"
                \/ phase = "send" /\ (phase' = "wait" \/ todo' # todo)]_vars

LEMMA LoopAdvances ==
  ASSUME TypeOK, Loop
  PROVE  /\ QueueStays \/ QueueMovesUp
         /\ PacketStays
         /\ \/ QueueMovesUp \/ ~running
            \/ phase = "select" /\ phase' = "send"
            \/ phase = "send" /\ (phase' = "wait" \/ todo' # todo)
<1>1. queue \in Seq(Packet) /\ seq \in [Clients -> Nat]
  BY DEF TypeOK
<1>2. CASE Dequeue
  <2>1. queue # <<>> /\ queue' = Tail(queue) /\ packet' = Head(queue) /\ phase' = "select"
        /\ phase = "wait" /\ UNCHANGED <<todo, seq>>
    BY <1>2 DEF Dequeue, sent
  <2>2. QueueMovesUp
    BY <1>1, <2>1 DEF QueueMovesUp
  <2> QED
    BY <2>1, <2>2 DEF PacketStays
<1>3. ASSUME UNCHANGED queue PROVE QueueStays
  BY <1>1, <1>3 DEF QueueStays
<1>4. CASE Snapshot
  BY <1>3, <1>4 DEF Snapshot, PacketStays, sent
<1>5. CASE PutBack
  BY <1>3, <1>5 DEF PutBack, PacketStays
<1>6. CASE LoopReturns
  BY <1>3, <1>6 DEF LoopReturns, PacketStays, sent
<1>7. ASSUME NEW c \in Clients, Serve(c)
      PROVE  PacketStays /\ UNCHANGED queue /\ phase = "send" /\ todo' # todo
  <2>1. /\ phase = "send" /\ c \in todo /\ todo' = todo \ {c}
        /\ seq' = [seq EXCEPT ![c] = seq[c] + 1]
        /\ UNCHANGED <<queue, phase, packet>>
    BY <1>7 DEF Serve
  <2>2. todo \ todo' = {c}
    BY <2>1
  <2>3. \A d \in Clients : seq'[d] = IF d \in todo \ todo' THEN seq[d] + 1 ELSE seq[d]
    BY <1>1, <2>1, <2>2
  <2> QED
    BY <2>1, <2>3 DEF PacketStays
<1> QED
  BY <1>2, <1>3, <1>4, <1>5, <1>6, <1>7
  DEF Loop, SendPacket, SendFails, Snapshot, PutBack, LoopReturns

\* No interleaving of the pipeline, the handlers and the requests takes a packet
\* out of the queue of broadcastLoop or a client out of its selection.
THEOREM QueuedComesNearer == Spec => QueueAdvances
<1> DEFINE Advance == /\ QueueStays \/ QueueMovesUp
                      /\ PacketStays
                      /\ Loop => \/ QueueMovesUp \/ ~running
                                 \/ phase = "select" /\ phase' = "send"
                                 \/ phase = "send" /\ (phase' = "wait" \/ todo' # todo)
<1>1. ASSUME TypeOK, Next PROVE Advance
  <2>1. queue \in Seq(Packet) /\ held \in Buffers \cup {None} /\ next \in Nat
    BY <1>1 DEF TypeOK
  <2>2. CASE Loop
    BY <1>1, <2>2, LoopAdvances
  <2>3. CASE ~Loop
    <3>1. UNCHANGED <<loop, seq>>
      BY <1>1, <2>3 DEF Next, Pipeline, Calls, EncodeFails, Enqueue, Drop, Fill, Stop,
         AddClient, RemoveClient, SetChannel, sent
    <3>2. UNCHANGED queue \/ \E p : queue' = Append(queue, p)
      BY <1>1, <2>3 DEF Next, Pipeline, Calls, EncodeFails, Enqueue, Drop, Fill, Stop,
         AddClient, RemoveClient, SetChannel
    <3>3. QueueStays
      BY <2>1, <3>2 DEF QueueStays
    <3>4. PacketStays
      BY <3>1 DEF loop, PacketStays
    <3> QED
      BY <2>3, <3>3, <3>4
  <2> QED
    BY <2>2, <2>3
<1>2. TypeOK /\ [Next]_vars => [Advance]_vars
  BY <1>1
<1> QED
  BY <1>2, TypeCorrect, PTL DEF Spec, QueueAdvances
=============================================================================
