---------------------------- MODULE ControlPlane ----------------------------
(***************************************************************************)
(* The life of a client on the server's control plane.                     *)
(*                                                                         *)
(* One goroutine per TCP connection (internal/server/tcp.go,               *)
(* handleConnection) walks a client through join, clock synchronisation,   *)
(* registration with the audio stream, the read loop and the clean-up.     *)
(* Meanwhile the heartbeat monitor (internal/session/manager.go) evicts    *)
(* silent clients and HTTP handlers (internal/server/http.go) kick clients *)
(* or assign them a surround channel.  Each of these takes the locks of    *)
(* the session, the stream manager, the clock table and the latency        *)
(* equalizer one at a time, so a client is spread over four tables that    *)
(* are never updated together.                                             *)
(*                                                                         *)
(* A step is one critical section, one blocking call or one unlocked read. *)
(* Client identifiers are 8 random bytes and a reconnecting device gets a  *)
(* new one: an element of Clients is one TCP connection, with its ID.      *)
(***************************************************************************)
EXTENDS Integers, FiniteSets

CONSTANTS
  Clients,     \* the connections ever accepted
  Channels,    \* surround channel masks
  StereoMix,   \* protocol.ChannelStereoMix, the mask of a new client
  Requests,    \* HTTP requests the server works on at the same time
  None         \* "no client" / "no channel" in the fields of an idle request

ASSUME StereoMixAssumption == StereoMix \in Channels

VARIABLES
  pc,          \* where the handler goroutine of each connection is
  open,        \* connections whose server end is not closed
  session,     \* Session.Clients
  fresh,       \* Client.LastHeartbeat is at most HeartbeatTimeout old
  chan,        \* Client.ChannelAssign
  chanArg,     \* the handler's copy of ChannelAssign on its way to the stream
  stream,      \* stream.Manager.clients
  streamChan,  \* ClientStream.ChannelAssign
  clocks,      \* ClockSync.clients
  reports,     \* LatencyEqualizer.reports
  op,          \* what each HTTP request does next
  target,      \* ... to which client
  want,        \* ... and with which channel
  evicting,    \* the heartbeat monitor's list of clients still to remove
  evictClose   \* client it deleted and whose connection it closes next

handlerVars == <<pc, chanArg>>
tables      == <<session, stream, clocks, reports>>
channelVars == <<chan, chanArg, streamChan>>
httpVars    == <<op, target, want>>
monitorVars == <<evicting, evictClose>>
vars == <<pc, open, session, fresh, chan, chanArg, stream, streamChan,
          clocks, reports, op, target, want, evicting, evictClose>>

-----------------------------------------------------------------------------
(* Program points of handleConnection, named for the statement to come. *)

Joining  == {"accept", "handshake", "store", "offset"}
Tuning   == {"lookup", "stream"}
Serving  == {"greet", "read", "heartbeat", "jitter"}
Leaving  == {"leaveDelete", "leaveClose", "leaveStream", "leaveClock",
             "leaveReport"}
Failing  == {"failDelete", "failClose"}
Finished == {"done", "turnedAway"}

HandlerPoint == {"idle", "join", "return"} \cup Joining \cup Tuning
                  \cup Serving \cup Leaving \cup Failing \cup Finished

\* AddClient has drawn an ID for the connection.
HasId(c) == pc[c] \notin {"idle", "join", "turnedAway"}

RequestPoint == {"idle", "kickClose", "kickUnstream", "setClient", "setStream"}

Init ==
  /\ pc         = [c \in Clients |-> "idle"]
  /\ open       = {}
  /\ session    = {}
  /\ fresh      = [c \in Clients |-> FALSE]
  /\ chan       = [c \in Clients |-> StereoMix]
  /\ chanArg    = [c \in Clients |-> None]
  /\ stream     = {}
  /\ streamChan = [c \in Clients |-> None]
  /\ clocks     = {}
  /\ reports    = {}
  /\ op         = [r \in Requests |-> "idle"]
  /\ target     = [r \in Requests |-> None]
  /\ want       = [r \in Requests |-> None]
  /\ evicting   = {}
  /\ evictClose = {}

GoTo(c, point) == pc' = [pc EXCEPT ![c] = point]

-----------------------------------------------------------------------------
(* The connection handler. *)

\* acceptLoop: a connection is accepted, its handler goroutine starts.
Accept(c) ==
  /\ pc[c] = "idle"
  /\ GoTo(c, "join")
  /\ open' = open \cup {c}
  /\ UNCHANGED <<tables, fresh, channelVars, httpVars, monitorVars>>

\* No readable JOIN_REQUEST, no session, or a wrong token: the handler returns
\* before an ID exists and its deferred Close runs.
TurnAway(c) ==
  /\ pc[c] = "join"
  /\ GoTo(c, "turnedAway")
  /\ open' = open \ {c}
  /\ UNCHANGED <<tables, fresh, channelVars, httpVars, monitorVars>>

\* Mutant of AddClient: the new Client object has no ChannelAssign.
AddClientUnassigned(c) ==
  /\ pc[c] = "join"
  /\ GoTo(c, "accept")
  /\ session' = session \cup {c}
  /\ fresh' = [fresh EXCEPT ![c] = TRUE]
  /\ chan' = [chan EXCEPT ![c] = None]
  /\ UNCHANGED <<open, stream, clocks, reports, chanArg, streamChan, httpVars,
                 monitorVars>>

\* Session.AddClient: the token matches and the client enters the session.
AddClient(c) ==
  /\ pc[c] = "join"
  /\ GoTo(c, "accept")
  /\ session' = session \cup {c}
  /\ fresh' = [fresh EXCEPT ![c] = TRUE]
  /\ UNCHANGED <<open, stream, clocks, reports, channelVars, httpVars,
                 monitorVars>>

\* A blocking call of the join phase ends well: JOIN_ACCEPT is written, the
\* eight probe rounds are answered, CLOCK_OFFSET is written.
CallSucceeds(c, from, to) ==
  /\ pc[c] = from
  /\ c \in open
  /\ GoTo(c, to)
  /\ UNCHANGED <<open, tables, fresh, channelVars, httpVars, monitorVars>>

SendAccept(c)      == CallSucceeds(c, "accept", "handshake")
HandshakeRounds(c) == CallSucceeds(c, "handshake", "store")
SendOffset(c)      == CallSucceeds(c, "offset", "lookup")

\* One of those calls returns an error, because the peer is gone or the
\* server closed the connection: handleConnection only undoes the session.
JoinFails(c) ==
  /\ pc[c] \in {"accept", "handshake", "offset"}
  /\ GoTo(c, "failDelete")
  /\ UNCHANGED <<open, tables, fresh, channelVars, httpVars, monitorVars>>

\* InitialHandshake stores the offset before it sends it.
StoreClock(c) ==
  /\ pc[c] = "store"
  /\ GoTo(c, "offset")
  /\ clocks' = clocks \cup {c}
  /\ UNCHANGED <<open, session, stream, reports, fresh, channelVars, httpVars,
                 monitorVars>>

\* The argument client.ChannelAssign is read without the client's mutex ...
LookupChannel(c) ==
  /\ pc[c] = "lookup"
  /\ GoTo(c, "stream")
  /\ chanArg' = [chanArg EXCEPT ![c] = chan[c]]
  /\ UNCHANGED <<open, tables, fresh, chan, streamChan, httpVars, monitorVars>>

\* ... and handed to stream.Manager.AddClient, which takes its own.
AddStream(c) ==
  /\ pc[c] = "stream"
  /\ GoTo(c, "greet")
  /\ stream' = stream \cup {c}
  /\ streamChan' = [streamChan EXCEPT ![c] = chanArg[c]]
  /\ chanArg' = [chanArg EXCEPT ![c] = None]
  /\ UNCHANGED <<open, session, clocks, reports, fresh, chan, httpVars,
                 monitorVars>>

\* SET_GLOBAL_LATENCY and CLIENT_LIST are sent, their errors ignored.
Greet(c) ==
  /\ pc[c] = "greet"
  /\ GoTo(c, "read")
  /\ UNCHANGED <<open, tables, fresh, channelVars, httpVars, monitorVars>>

\* clientReadLoop: a message arrives.  A clock reply or an app-state change
\* touches none of the tables and is not a step here.
ReadMessage(c) ==
  /\ pc[c] = "read"
  /\ c \in open
  /\ \E kind \in {"heartbeat", "jitter"} : GoTo(c, kind)
  /\ UNCHANGED <<open, tables, fresh, channelVars, httpVars, monitorVars>>

\* Client.UpdateHeartbeat.
Heartbeat(c) ==
  /\ pc[c] = "heartbeat"
  /\ GoTo(c, "read")
  /\ fresh' = [fresh EXCEPT ![c] = TRUE]
  /\ UNCHANGED <<open, tables, channelVars, httpVars, monitorVars>>

\* LatencyEqualizer.ReportJitter stores the client's report.
JitterReport(c) ==
  /\ pc[c] = "jitter"
  /\ GoTo(c, "read")
  /\ reports' = reports \cup {c}
  /\ UNCHANGED <<open, session, stream, clocks, fresh, channelVars, httpVars,
                 monitorVars>>

\* readTCPMessage fails: end of file, reset, or closed by the server.
ReadFails(c) ==
  /\ pc[c] = "read"
  /\ GoTo(c, "leaveDelete")
  /\ UNCHANGED <<open, tables, fresh, channelVars, httpVars, monitorVars>>

\* Session.RemoveClient, first half: delete under the session lock.  The
\* connection is closed only by the caller that found the client there.
HandlerDelete(c, from, close, otherwise) ==
  /\ pc[c] = from
  /\ GoTo(c, IF c \in session THEN close ELSE otherwise)
  /\ session' = session \ {c}
  /\ UNCHANGED <<open, stream, clocks, reports, fresh, channelVars, httpVars,
                 monitorVars>>

\* Session.RemoveClient, second half: close after the lock is released.
HandlerClose(c, from, to) ==
  /\ pc[c] = from
  /\ GoTo(c, to)
  /\ open' = open \ {c}
  /\ UNCHANGED <<tables, fresh, channelVars, httpVars, monitorVars>>

FailDelete(c)  == HandlerDelete(c, "failDelete", "failClose", "return")
FailClose(c)   == HandlerClose(c, "failClose", "return")
LeaveDelete(c) == HandlerDelete(c, "leaveDelete", "leaveClose", "leaveStream")
LeaveClose(c)  == HandlerClose(c, "leaveClose", "leaveStream")

\* Mutant of LeaveStream: the clean-up forgets StreamManager.RemoveClient.
LeaveStreamForgotten(c) ==
  /\ pc[c] = "leaveStream"
  /\ GoTo(c, "leaveClock")
  /\ UNCHANGED <<open, tables, fresh, channelVars, httpVars, monitorVars>>

\* Mutant of LeaveStream: ClockSync.RemoveClient comes first.
LeaveStreamSwapped(c) ==
  /\ pc[c] = "leaveStream"
  /\ GoTo(c, "leaveClock")
  /\ clocks' = clocks \ {c}
  /\ UNCHANGED <<open, session, stream, reports, fresh, channelVars, httpVars,
                 monitorVars>>

\* StreamManager.RemoveClient.
LeaveStream(c) ==
  /\ pc[c] = "leaveStream"
  /\ GoTo(c, "leaveClock")
  /\ stream' = stream \ {c}
  /\ streamChan' = [streamChan EXCEPT ![c] = None]
  /\ UNCHANGED <<open, session, clocks, reports, fresh, chan, chanArg,
                 httpVars, monitorVars>>

\* ClockSync.RemoveClient.
LeaveClock(c) ==
  /\ pc[c] = "leaveClock"
  /\ GoTo(c, "leaveReport")
  /\ clocks' = clocks \ {c}
  /\ UNCHANGED <<open, session, stream, reports, fresh, channelVars, httpVars,
                 monitorVars>>

\* LatencyEqualizer.RemoveClient.
LeaveReport(c) ==
  /\ pc[c] = "leaveReport"
  /\ GoTo(c, "return")
  /\ reports' = reports \ {c}
  /\ UNCHANGED <<open, session, stream, clocks, fresh, channelVars, httpVars,
                 monitorVars>>

\* The deferred conn.Close of handleConnection.
Return(c) == HandlerClose(c, "return", "done")

-----------------------------------------------------------------------------
(* HTTP requests on existing IDs; the web page may hold an outdated list. *)

Serve(r, point, c, ch) ==
  /\ op' = [op EXCEPT ![r] = point]
  /\ target' = [target EXCEPT ![r] = c]
  /\ want' = [want EXCEPT ![r] = ch]

\* Mutant of KickDelete: the kick closes the connection of a client it has
\* not deleted.
KickKeepsMember(r, c) ==
  /\ op[r] = "idle"
  /\ HasId(c)
  /\ Serve(r, IF c \in session THEN "kickClose" ELSE "kickUnstream", c, None)
  /\ UNCHANGED <<handlerVars, open, tables, fresh, chan, streamChan,
                 monitorVars>>

\* Mutant of KickDelete: audio is taken from the client before it is deleted.
KickMutesFirst(r, c) ==
  /\ op[r] = "idle"
  /\ HasId(c)
  /\ Serve(r, "kickUnstream", c, None)
  /\ stream' = stream \ {c}
  /\ UNCHANGED <<handlerVars, open, session, clocks, reports, fresh, chan,
                 streamChan, monitorVars>>

\* handleKick: Session.RemoveClient deletes ...
KickDelete(r, c) ==
  /\ op[r] = "idle"
  /\ HasId(c)
  /\ Serve(r, IF c \in session THEN "kickClose" ELSE "kickUnstream", c, None)
  /\ session' = session \ {c}
  /\ UNCHANGED <<handlerVars, open, stream, clocks, reports, fresh, chan,
                 streamChan, monitorVars>>

\* ... and closes ...
KickClose(r) ==
  /\ op[r] = "kickClose"
  /\ Serve(r, "kickUnstream", target[r], None)
  /\ open' = open \ {target[r]}
  /\ UNCHANGED <<handlerVars, tables, fresh, chan, streamChan, monitorVars>>

\* ... and the client leaves the stream, whether or not it was in the session.
KickUnstream(r) ==
  /\ op[r] = "kickUnstream"
  /\ Serve(r, "idle", None, None)
  /\ stream' = stream \ {target[r]}
  /\ streamChan' = [streamChan EXCEPT ![target[r]] = None]
  /\ UNCHANGED <<handlerVars, open, session, clocks, reports, fresh, chan,
                 monitorVars>>

\* handleChannelAssign: GetClient finds the client, else 404 and no effect.
AssignLookup(r, c, ch) ==
  /\ op[r] = "idle"
  /\ c \in session
  /\ Serve(r, "setClient", c, ch)
  /\ UNCHANGED <<handlerVars, open, tables, fresh, chan, streamChan,
                 monitorVars>>

\* Client.SetChannel, on the object found, still in the session or not.
AssignClient(r) ==
  /\ op[r] = "setClient"
  /\ Serve(r, "setStream", target[r], want[r])
  /\ chan' = [chan EXCEPT ![target[r]] = want[r]]
  /\ UNCHANGED <<handlerVars, open, tables, fresh, streamChan, monitorVars>>

\* stream.Manager.SetChannel does nothing for a client it does not know.
AssignStream(r) ==
  /\ op[r] = "setStream"
  /\ Serve(r, "idle", None, None)
  /\ streamChan' = IF target[r] \in stream
                     THEN [streamChan EXCEPT ![target[r]] = want[r]]
                     ELSE streamChan
  /\ UNCHANGED <<handlerVars, open, tables, fresh, chan, monitorVars>>

-----------------------------------------------------------------------------
(* Time and the heartbeat monitor. *)

\* HeartbeatTimeout passes without an UpdateHeartbeat of a session member.
GoStale(c) ==
  /\ c \in session
  /\ fresh[c]
  /\ fresh' = [fresh EXCEPT ![c] = FALSE]
  /\ UNCHANGED <<pc, open, tables, channelVars, httpVars, monitorVars>>

\* Mutant of CollectStale: only clients that stream are looked at.
CollectStaleStreamed ==
  /\ evicting = {} /\ evictClose = {}
  /\ evicting' = {c \in stream \cap session : ~fresh[c]}
  /\ UNCHANGED <<pc, open, tables, fresh, channelVars, httpVars, evictClose>>

\* EvictStaleClients lists the stale clients under the session lock ...
CollectStale ==
  /\ evicting = {} /\ evictClose = {}
  /\ evicting' = {c \in session : ~fresh[c]}
  /\ UNCHANGED <<pc, open, tables, fresh, channelVars, httpVars, evictClose>>

\* Mutant of EvictDelete: the evicted client's connection stays open.
EvictWithoutClose(c) ==
  /\ c \in evicting /\ evictClose = {}
  /\ evicting' = evicting \ {c}
  /\ session' = session \ {c}
  /\ UNCHANGED <<pc, open, stream, clocks, reports, fresh, channelVars,
                 httpVars, evictClose>>

\* ... and calls Session.RemoveClient on each after releasing it.
EvictDelete(c) ==
  /\ c \in evicting /\ evictClose = {}
  /\ evicting' = evicting \ {c}
  /\ evictClose' = {c} \cap session
  /\ session' = session \ {c}
  /\ UNCHANGED <<pc, open, stream, clocks, reports, fresh, channelVars,
                 httpVars>>

EvictClose(c) ==
  /\ c \in evictClose
  /\ evictClose' = {}
  /\ open' = open \ {c}
  /\ UNCHANGED <<pc, tables, fresh, channelVars, httpVars, evicting>>

-----------------------------------------------------------------------------
\* Steps a handler takes without waiting for its peer.
HandlerRuns(c) ==
  \/ StoreClock(c) \/ LookupChannel(c) \/ AddStream(c) \/ Greet(c)
  \/ Heartbeat(c) \/ JitterReport(c)
  \/ FailDelete(c) \/ FailClose(c)
  \/ LeaveDelete(c) \/ LeaveClose(c) \/ LeaveStream(c) \/ LeaveClock(c)
  \/ LeaveReport(c) \/ Return(c)

\* Steps that need the peer, or that its silence can withhold for ever.
HandlerWaits(c) ==
  \/ Accept(c) \/ TurnAway(c) \/ AddClient(c)
  \/ SendAccept(c) \/ HandshakeRounds(c) \/ SendOffset(c) \/ JoinFails(c)
  \/ ReadMessage(c) \/ ReadFails(c)

RequestRuns(r) ==
  KickClose(r) \/ KickUnstream(r) \/ AssignClient(r) \/ AssignStream(r)

Request(r) ==
  \/ RequestRuns(r)
  \/ \E c \in Clients : KickDelete(r, c)
  \/ \E c \in Clients, ch \in Channels : AssignLookup(r, c, ch)

Evict(c) == EvictDelete(c) \/ EvictClose(c)

Next ==
  \/ \E c \in Clients : HandlerRuns(c) \/ HandlerWaits(c) \/ GoStale(c)
  \/ \E r \in Requests : Request(r)
  \/ CollectStale
  \/ \E c \in Clients : Evict(c)

Spec == Init /\ [][Next]_vars

\* A call on a connection that the server has closed returns an error.
Unblock(c) == c \notin open /\ (JoinFails(c) \/ ReadFails(c))

(***************************************************************************)
(* Goroutines that can run do run, and the monitor's ticker keeps firing.  *)
(* Nothing is assumed of the peer: it may fall silent in any blocking call *)
(* and never close its end.                                                *)
(***************************************************************************)
Fairness ==
  /\ \A c \in Clients : WF_vars(HandlerRuns(c)) /\ WF_vars(Unblock(c))
  /\ \A r \in Requests : WF_vars(RequestRuns(r))
  /\ WF_vars(CollectStale)
  /\ \A c \in Clients : WF_vars(Evict(c))

FairSpec == Spec /\ Fairness

-----------------------------------------------------------------------------
(* Properties. *)

\* Every variable has its type (the shared tables of session, stream, clock
\* and latency managers, the goroutines' program points).
TypeOK ==
  /\ pc \in [Clients -> HandlerPoint]
  /\ open \subseteq Clients
  /\ session \subseteq Clients
  /\ fresh \in [Clients -> BOOLEAN]
  /\ chan \in [Clients -> Channels]
  /\ chanArg \in [Clients -> Channels \cup {None}]
  /\ stream \subseteq Clients
  /\ streamChan \in [Clients -> Channels \cup {None}]
  /\ clocks \subseteq Clients
  /\ reports \subseteq Clients
  /\ op \in [Requests -> RequestPoint]
  /\ target \in [Requests -> Clients \cup {None}]
  /\ want \in [Requests -> Channels \cup {None}]
  /\ evicting \subseteq Clients
  /\ evictClose \subseteq Clients

\* Once the handler of a connection has returned, by whatever path, and
\* whoever removed the client meanwhile, nothing of it is left in the session,
\* the stream and the latency equalizer (the clean-up of handleConnection).
NoOrphans ==
  \A c \in Clients :
    pc[c] \in Finished => c \notin session \cup stream \cup reports \cup open

\* Whoever is listed in the session has an open connection and a handler that
\* has not begun to clean up: Session.RemoveClient deletes before it closes,
\* in the handler, in the kick and in the eviction alike.
SessionIsLive ==
  /\ session \subseteq open
  /\ \A c \in session :
       pc[c] \in Joining \cup Tuning \cup Serving \cup {"failDelete", "leaveDelete"}

\* Audio goes only to clients with a clock entry: the stream is joined after
\* InitialHandshake and left before ClockSync.RemoveClient.
StreamedIsSynced == stream \subseteq clocks

\* A client that stays in the session keeps sending heartbeats: the monitor
\* removes every client that falls silent, in whatever phase (StartHeartbeatMonitor).
MembersHeartbeat ==
  \A c \in Clients :
    []<>(c \in session) => []<>(c \in session /\ fresh[c])

\* A client that left the session, evicted, kicked or gone, is cleaned up: its
\* handler, even if blocked on a silent peer, is woken and returns.
RemovedIsForgotten ==
  \A c \in Clients :
    (HasId(c) /\ c \notin session) ~> (pc[c] = "done")

\* The control plane implements the roster.
Promise == INSTANCE Roster WITH
  known    <- {c \in Clients : HasId(c)},
  member   <- session,
  audience <- stream,
  retired  <- {c \in Clients : pc[c] = "done"}

ImplementsRoster == Promise!Spec

\* "Update both session client and stream manager" (http.go:249): with no
\* assignment in progress the two agree on the channel of a streamed client.
ChannelsAgree ==
  \A c \in session \cap stream :
    (\A r \in Requests : op[r] \in {"setClient", "setStream"} => target[r] # c)
      => chan[c] = streamChan[c]
=============================================================================
