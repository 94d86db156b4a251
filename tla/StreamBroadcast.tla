--------------------------- MODULE StreamBroadcast ---------------------------
(***************************************************************************)
(* The way of an audio frame through the server: the pipeline encodes it   *)
(* and copies it into a pooled payload buffer (SendAudio), a bounded queue *)
(* hands the buffer to the broadcast loop, and the loop sends it to the    *)
(* clients it selected, meanwhile the connection handlers and the HTTP     *)
(* server add, remove and reassign clients.                                *)
(*                                                                         *)
(* The frames of all channels are numbered from 1 in the order the         *)
(* pipeline encodes them; the number stands for the payload as well.       *)
(* Clients have random IDs, so that none is added twice.                   *)
(***************************************************************************)
EXTENDS Naturals, Sequences, FiniteSets

CONSTANTS
  Clients,     \* connections
  Channels,    \* ChannelMask values a client can have
  StereoMix,   \* ChannelStereoMix, one of them
  Layout,      \* the channels a captured frame is encoded as, in order
  Buffers,     \* payload buffers
  QueueCap,    \* capacity of broadcastChan
  None,
  MaxFrames    \* bound: frames encoded in one behaviour

ASSUME ChannelAssumption ==
  /\ StereoMix \in Channels /\ None \notin Channels
  /\ Layout \in Seq(Channels) /\ Layout # <<>>

\* payloadPool makes a new buffer when it has none: there is one for each place
\* in the queue, one for the pipeline and one for the loop (PoolNeverEmpty).
ASSUME BufferAssumption ==
  /\ QueueCap \in Nat \ {0}
  /\ None \notin Buffers
  /\ IsFiniteSet(Buffers) /\ Cardinality(Buffers) >= QueueCap + 2

VARIABLES
  next,        \* number of the next frame
  held,        \* the buffer SendAudio has filled, or None
  pool,        \* payloadPool: buffers nobody uses
  content,     \* the frame in each buffer, 0 if none yet
  queue,       \* broadcastChan
  running,     \* stopChan is not closed
  phase,       \* where broadcastLoop is
  packet,      \* the packet it works on, or None
  todo,        \* activeClients it has not served yet
  members,     \* Manager.clients
  assign,      \* ClientStream.ChannelAssign, None before AddClient
  seq,         \* ClientStream.SeqNum
  wire         \* what was last sent to each client

pipeline == <<next, held>>
loop     == <<phase, packet, todo>>
table    == <<members, assign>>
sent     == <<seq, wire>>
vars     == <<pipeline, pool, content, queue, running, loop, table, sent>>

\* runAudioPipeline goes through the layout again and again.
Channel(n) == Layout[((n - 1) % Len(Layout)) + 1]

\* broadcastPacket; its channel is Channel(n).
Packet == [n : Nat, buf : Buffers]

ASSUME NoneAssumption == None \notin Packet

Datagram == [seq : Nat, n : Nat, data : Nat]

Init ==
  /\ next = 1 /\ held = None
  /\ pool = Buffers /\ content = [b \in Buffers |-> 0]
  /\ queue = <<>> /\ running = TRUE
  /\ phase = "wait" /\ packet = None /\ todo = {}
  /\ members = {} /\ assign = [c \in Clients |-> None]
  /\ seq = [c \in Clients |-> 0]
  /\ wire = [c \in Clients |-> [seq |-> 0, n |-> 0, data |-> 0]]

-----------------------------------------------------------------------------
(* The pipeline. *)

\* One channel of a frame cannot be encoded and is left out.
EncodeFails ==
  /\ held = None /\ next <= MaxFrames
  /\ next' = next + 1
  /\ UNCHANGED <<held, pool, content, queue, running, loop, table, sent>>

\* SendAudio copies the frame into a buffer of its own ...
Fill(b) ==
  /\ held = None /\ next <= MaxFrames
  /\ b \in pool
  /\ held' = b
  /\ pool' = pool \ {b}
  /\ content' = [content EXCEPT ![b] = next]
  /\ UNCHANGED <<next, queue, running, loop, table, sent>>

\* Mutant of Enqueue: the test for a full queue is off by one.
EnqueueFull ==
  /\ held # None
  /\ Len(queue) <= QueueCap
  /\ queue' = Append(queue, [n |-> next, buf |-> held])
  /\ held' = None /\ next' = next + 1
  /\ UNCHANGED <<pool, content, running, loop, table, sent>>

\* ... and queues it, or drops it for everybody if the queue is full.
Enqueue ==
  /\ held # None
  /\ Len(queue) < QueueCap
  /\ queue' = Append(queue, [n |-> next, buf |-> held])
  /\ held' = None /\ next' = next + 1
  /\ UNCHANGED <<pool, content, running, loop, table, sent>>

\* Mutant of Drop: the buffer of a dropped frame is forgotten.
DropLeaks ==
  /\ held # None
  /\ Len(queue) = QueueCap
  /\ held' = None /\ next' = next + 1
  /\ UNCHANGED <<pool, content, queue, running, loop, table, sent>>

Drop ==
  /\ held # None
  /\ Len(queue) = QueueCap
  /\ pool' = pool \cup {held}
  /\ held' = None /\ next' = next + 1
  /\ UNCHANGED <<content, queue, running, loop, table, sent>>

-----------------------------------------------------------------------------
(* broadcastLoop and doSendAudio. *)

\* Mutant of Dequeue: the buffer goes back before its payload is sent.
DequeueReleases ==
  /\ phase = "wait" /\ queue # <<>>
  /\ packet' = Head(queue) /\ queue' = Tail(queue)
  /\ phase' = "select"
  /\ pool' = pool \cup {Head(queue).buf}
  /\ UNCHANGED <<pipeline, content, running, todo, table, sent>>

Dequeue ==
  /\ phase = "wait" /\ queue # <<>>
  /\ packet' = Head(queue) /\ queue' = Tail(queue)
  /\ phase' = "select"
  /\ UNCHANGED <<pipeline, pool, content, running, todo, table, sent>>

\* The test for the clients that get a frame of channel ch.
Selected(c, ch) ==
  ch = StereoMix \/ assign[c] = StereoMix \/ assign[c] = ch

\* Mutant of Snapshot: the loop waits for somebody to send to.
SnapshotSomebody ==
  /\ phase = "select"
  /\ todo' = {c \in members : Selected(c, Channel(packet.n))}
  /\ todo' # {}
  /\ phase' = "send"
  /\ UNCHANGED <<pipeline, pool, content, queue, running, packet, table, sent>>

\* Under the read lock; the clients selected are served after it is released.
Snapshot ==
  /\ phase = "select"
  /\ todo' = {c \in members : Selected(c, Channel(packet.n))}
  /\ phase' = "send"
  /\ UNCHANGED <<pipeline, pool, content, queue, running, packet, table, sent>>

\* Mutant of Serve: the sequence number is not advanced.
ServeUnnumbered(c) ==
  /\ phase = "send" /\ c \in todo
  /\ todo' = todo \ {c}
  /\ UNCHANGED <<pipeline, pool, content, queue, running, phase, packet, table,
                 seq>>

\* The sequence number counts attempts; clients come in the order of a Go map.
\* Its 32 bits last for months of audio and do not wrap here.
Serve(c) ==
  /\ phase = "send" /\ c \in todo
  /\ seq' = [seq EXCEPT ![c] = @ + 1]
  /\ todo' = todo \ {c}
  /\ UNCHANGED <<pipeline, pool, content, queue, running, phase, packet, table>>

SendPacket(c) ==
  /\ Serve(c)
  /\ wire' = [wire EXCEPT ![c] =
       [seq |-> seq[c] + 1, n |-> packet.n, data |-> content[packet.buf]]]

\* WriteToUDP fails: logged, and the number is used up.
SendFails(c) == Serve(c) /\ UNCHANGED wire

\* The payload goes back to the pool.
PutBack ==
  /\ phase = "send" /\ todo = {}
  /\ pool' = pool \cup {packet.buf}
  /\ packet' = None /\ phase' = "wait"
  /\ UNCHANGED <<pipeline, content, queue, running, todo, table, sent>>

\* With a packet and the closed stopChan both ready, select takes either.
LoopReturns ==
  /\ phase = "wait" /\ ~running
  /\ phase' = "returned"
  /\ UNCHANGED <<pipeline, pool, content, queue, running, packet, todo, table,
                 sent>>

-----------------------------------------------------------------------------
(* Calls of the connection handlers, the HTTP server and main. *)

AddClient(c, ch) ==
  /\ assign[c] = None
  /\ members' = members \cup {c}
  /\ assign' = [assign EXCEPT ![c] = ch]
  /\ UNCHANGED <<pipeline, pool, content, queue, running, loop, sent>>

\* A snapshot keeps pointing to a client that is removed.
RemoveClient(c) ==
  /\ c \in members
  /\ members' = members \ {c}
  /\ UNCHANGED <<pipeline, pool, content, queue, running, loop, assign, sent>>

SetChannel(c, ch) ==
  /\ c \in members
  /\ assign' = [assign EXCEPT ![c] = ch]
  /\ UNCHANGED <<pipeline, pool, content, queue, running, loop, members, sent>>

Stop ==
  /\ running
  /\ running' = FALSE
  /\ UNCHANGED <<pipeline, pool, content, queue, loop, table, sent>>

Pipeline == EncodeFails \/ Enqueue \/ Drop \/ \E b \in Buffers : Fill(b)

Loop == \/ Dequeue \/ Snapshot \/ PutBack \/ LoopReturns
        \/ \E c \in Clients : SendPacket(c) \/ SendFails(c)

Calls == \/ Stop
         \/ \E c \in Clients : RemoveClient(c)
         \/ \E c \in Clients, ch \in Channels :
              AddClient(c, ch) \/ SetChannel(c, ch)

Next == Pipeline \/ Loop \/ Calls

\* The loop is a goroutine of its own whose steps never block: NewManager starts
\* it, the read lock is only held briefly by others, and UDP writes return.
Spec == Init /\ [][Next]_vars /\ WF_vars(Loop)

-----------------------------------------------------------------------------
(* Properties. *)

\* Every variable has its type (Manager, the locals of SendAudio and of the loop).
TypeOK ==
  /\ next \in Nat \ {0}
  /\ held \in Buffers \cup {None}
  /\ pool \subseteq Buffers
  /\ content \in [Buffers -> Nat]
  /\ queue \in Seq(Packet) /\ Len(queue) <= QueueCap
  /\ running \in BOOLEAN
  /\ phase \in {"wait", "select", "send", "returned"}
  /\ packet \in Packet \cup {None}
  /\ packet # None <=> phase \in {"select", "send"}
  /\ members \subseteq Clients
  /\ todo \subseteq Clients
  /\ assign \in [Clients -> Channels \cup {None}]
  /\ seq \in [Clients -> Nat]
  /\ wire \in [Clients -> Datagram]

\* The payload a client is sent is the frame the packet announces: no buffer is
\* given to SendAudio again while a packet that uses it is queued or being sent
\* (stream/manager.go:181-198 and 118-124).
PayloadIntact == \A c \in Clients : wire[c].data = wire[c].n

\* "Copy data using the zero-allocation pool" (stream/manager.go:182): every buffer
\* comes back, on whichever path, so that SendAudio finds one in the pool, once
\* there are two more than the queue has places.
PoolNeverEmpty == held = None => pool # {}

\* Each client gets frames in the order they were captured, none twice, under
\* sequence numbers that only grow, though it may be removed or reassigned
\* between selection and sending (stream/manager.go:202-247).
WireInOrder ==
  [][\A c \in Clients : wire'[c] # wire[c] =>
       wire'[c].seq > wire[c].seq /\ wire'[c].n > wire[c].n]_vars

\* A frame that was queued is served, whoever is or is not connected, unless the
\* server stops: the loop never hangs on a packet (stream/manager.go:111-127).
QueuedIsServed ==
  \A n \in 1..MaxFrames :
    (\E i \in 1..Len(queue) : queue[i].n = n)
      ~> (phase = "send" /\ packet.n = n) \/ ~running

\* "Only send this channel's data to clients assigned to it, or send stereo mix
\* to clients with ChannelStereoMix" (stream/manager.go:209).
SelectedAreAssigned ==
  [][phase = "select" /\ phase' = "send" =>
       \A c \in todo' : assign[c] = Channel(packet.n)]_vars
=============================================================================
