------------------------- MODULE ControlPlaneProofs -------------------------
(***************************************************************************)
(* The safety invariants of ControlPlane for any number of connections,    *)
(* channels and concurrent HTTP requests.                                  *)
(*                                                                         *)
(* None of the invariants is inductive alone.  That a client in the        *)
(* session has an open connection depends on what the kick and the monitor *)
(* are about to close, and that a finished handler leaves nothing behind   *)
(* depends on which tables a client can be in at each program point, which *)
(* is what Placement records.  The safety part of the roster follows from  *)
(* the same invariant.                                                     *)
(***************************************************************************)
EXTENDS ControlPlane, TLAPS

\* Program points at which the client may still be in the session, must be in
\* the clock table, may be in the stream, may have a report.
MemberPoints == Joining \cup Tuning \cup Serving \cup {"failDelete", "leaveDelete"}
ClockPoints  == {"offset"} \cup Tuning \cup Serving
                  \cup {"leaveDelete", "leaveClose", "leaveStream", "leaveClock"}
StreamPoints == Serving \cup {"leaveDelete", "leaveClose", "leaveStream"}
ReportPoints == {"read", "heartbeat", "jitter"} \cup Leaving

Placement ==
  \A c \in Clients :
    /\ c \in session => pc[c] \in MemberPoints /\ c \in open
    /\ c \in stream => pc[c] \in StreamPoints
    /\ c \in reports => pc[c] \in ReportPoints
    /\ pc[c] \in Finished => c \notin open
    /\ pc[c] = "join" => c \in open

\* The clock is stored before the offset is sent and dropped after the stream.
Synced ==
  \A c \in Clients :
    pc[c] \in ClockPoints => c \in clocks

\* Whatever a kick or the monitor is about to close or to take out of the
\* stream has left the session.
ClosersBehind ==
  /\ \A r \in Requests :
       op[r] \in {"kickClose", "kickUnstream"} =>
         target[r] \notin session /\ HasId(target[r])
  /\ \A c \in evictClose : c \notin session /\ HasId(c)

\* A request under way has its client, a channel assignment its channel.
Wanted ==
  \A r \in Requests :
    /\ op[r] # "idle" => target[r] \in Clients
    /\ op[r] = "setClient" => want[r] \in Channels

IInv == TypeOK /\ Placement /\ Synced /\ ClosersBehind /\ Wanted

-----------------------------------------------------------------------------
\* The server starts with empty tables and no connection, which satisfies the
\* invariant.
LEMMA InitIInv == Init => IInv
BY StereoMixAssumption DEF Init, IInv, TypeOK, Placement, Synced, ClosersBehind, Wanted,
   HandlerPoint, RequestPoint, Finished, ClockPoints, Tuning, Serving

\* Every step of a connection handler, an HTTP request, the heartbeat monitor
\* or the clock preserves it.
LEMMA NextIInv == IInv /\ [Next]_vars => IInv'
<1> SUFFICES ASSUME IInv, [Next]_vars
             PROVE  IInv'
  OBVIOUS
<1> USE DEF IInv, TypeOK, Placement, Synced, ClosersBehind, Wanted, HasId,
            MemberPoints, ClockPoints, StreamPoints, ReportPoints,
            HandlerPoint, RequestPoint, Joining, Tuning, Serving, Leaving,
            Failing, Finished, GoTo, tables, channelVars, handlerVars,
            httpVars, monitorVars
<1>1. ASSUME NEW c \in Clients, HandlerRuns(c)
      PROVE  IInv'
  <2>1. CASE StoreClock(c)
    BY <2>1, SMT DEF StoreClock
  <2>2. CASE LookupChannel(c)
    BY <2>2, SMT DEF LookupChannel
  <2>3. CASE AddStream(c)
    BY <2>3, SMT DEF AddStream
  <2>4. CASE Greet(c)
    BY <2>4, SMT DEF Greet
  <2>5. CASE Heartbeat(c)
    BY <2>5, SMT DEF Heartbeat
  <2>6. CASE JitterReport(c)
    BY <2>6, SMT DEF JitterReport
  <2>7. CASE FailDelete(c)
    BY <2>7, SMT DEF FailDelete, HandlerDelete
  <2>8. CASE FailClose(c)
    BY <2>8, SMT DEF FailClose, HandlerClose
  <2>9. CASE LeaveDelete(c)
    BY <2>9, SMT DEF LeaveDelete, HandlerDelete
  <2>10. CASE LeaveClose(c)
    BY <2>10, SMT DEF LeaveClose, HandlerClose
  <2>11. CASE LeaveStream(c)
    BY <2>11, SMT DEF LeaveStream
  <2>12. CASE LeaveClock(c)
    BY <2>12, SMT DEF LeaveClock
  <2>13. CASE LeaveReport(c)
    BY <2>13, SMT DEF LeaveReport
  <2>14. CASE Return(c)
    BY <2>14, SMT DEF Return, HandlerClose
  <2>15. QED
    BY <1>1, <2>1, <2>2, <2>3, <2>4, <2>5, <2>6, <2>7, <2>8, <2>9,
       <2>10, <2>11, <2>12, <2>13, <2>14
       DEF HandlerRuns
<1>2. ASSUME NEW c \in Clients, HandlerWaits(c)
      PROVE  IInv'
  <2>1. CASE Accept(c)
    BY <2>1, SMT DEF Accept
  <2>2. CASE TurnAway(c)
    BY <2>2, SMT DEF TurnAway
  <2>3. CASE AddClient(c)
    BY <2>3, SMT DEF AddClient
  <2>4. CASE SendAccept(c)
    BY <2>4, SMT DEF SendAccept, CallSucceeds
  <2>5. CASE HandshakeRounds(c)
    BY <2>5, SMT DEF HandshakeRounds, CallSucceeds
  <2>6. CASE SendOffset(c)
    BY <2>6, SMT DEF SendOffset, CallSucceeds
  <2>7. CASE JoinFails(c)
    BY <2>7, SMT DEF JoinFails
  <2>8. CASE ReadMessage(c)
    BY <2>8, SMT DEF ReadMessage
  <2>9. CASE ReadFails(c)
    BY <2>9, SMT DEF ReadFails
  <2>10. QED
    BY <1>2, <2>1, <2>2, <2>3, <2>4, <2>5, <2>6, <2>7, <2>8, <2>9 DEF HandlerWaits
<1>3. ASSUME NEW c \in Clients, GoStale(c)
      PROVE  IInv'
  BY <1>3, SMT DEF GoStale
<1>4. ASSUME NEW r \in Requests, Request(r)
      PROVE  IInv'
  <2>1. CASE KickClose(r)
    BY <2>1, SMT DEF KickClose, Serve
  <2>2. CASE KickUnstream(r)
    BY <2>2, SMT DEF KickUnstream, Serve
  <2>3. CASE AssignClient(r)
    BY <2>3, SMT DEF AssignClient, Serve
  <2>4. CASE AssignStream(r)
    BY <2>4, SMT DEF AssignStream, Serve
  <2>5. ASSUME NEW c \in Clients, KickDelete(r, c)
        PROVE  IInv'
    BY <2>5, SMT DEF KickDelete, Serve
  <2>6. ASSUME NEW c \in Clients, NEW ch \in Channels, AssignLookup(r, c, ch)
        PROVE  IInv'
    BY <2>6, SMT DEF AssignLookup, Serve
  <2>7. QED
    BY <1>4, <2>1, <2>2, <2>3, <2>4, <2>5, <2>6 DEF Request, RequestRuns
<1>5. CASE CollectStale
  BY <1>5, SMT DEF CollectStale
<1>6. ASSUME NEW c \in Clients, Evict(c)
      PROVE  IInv'
  <2>1. CASE EvictDelete(c)
    BY <2>1, SMT DEF EvictDelete
  <2>2. CASE EvictClose(c)
    BY <2>2, SMT DEF EvictClose
  <2>3. QED
    BY <1>6, <2>1, <2>2 DEF Evict
<1>7. CASE UNCHANGED vars
  BY <1>7, SMT DEF vars
<1>8. QED
  BY <1>1, <1>2, <1>3, <1>4, <1>5, <1>6, <1>7 DEF Next

\* The inductive invariant holds in every reachable state of the control
\* plane's four tables and its goroutines.
THEOREM Invariance == Spec => []IInv
BY InitIInv, NextIInv, PTL DEF Spec

-----------------------------------------------------------------------------
\* The control plane's variables keep their types.
THEOREM TypeCorrect == Spec => []TypeOK
BY Invariance, PTL DEF IInv

\* A connection whose handler has returned is in neither the session nor the
\* stream nor the latency equalizer, whichever path the handler took.
THEOREM NothingIsLeftBehind == Spec => []NoOrphans
<1>1. IInv => NoOrphans
  BY DEF IInv, Placement, NoOrphans, Finished, MemberPoints, StreamPoints,
         ReportPoints, Joining, Tuning, Serving, Leaving
<1>2. QED
  BY <1>1, Invariance, PTL

\* Session members have an open connection and a handler that serves them.
THEOREM MembersAreLive == Spec => []SessionIsLive
<1>1. IInv => SessionIsLive
  BY DEF IInv, TypeOK, Placement, SessionIsLive, MemberPoints
<1>2. QED
  BY <1>1, Invariance, PTL

\* Only clients that completed the clock handshake are sent audio.
THEOREM AudioNeedsClock == Spec => []StreamedIsSynced
<1>1. IInv => StreamedIsSynced
  <2>1. StreamPoints \subseteq ClockPoints
    BY DEF StreamPoints, ClockPoints
  <2>2. QED
    BY <2>1 DEF IInv, TypeOK, Placement, Synced, StreamedIsSynced
<1>2. QED
  BY <1>1, Invariance, PTL

-----------------------------------------------------------------------------
(* A removed client is woken. *)

\* The handler waits for its peer.
Blocked(c) == pc[c] \in {"accept", "handshake", "offset", "read"}

\* The connection is closed, or the kick or the monitor closes it next.
Doomed(c) ==
  \/ c \notin open
  \/ c \in evictClose
  \/ \E r \in Requests : op[r] = "kickClose" /\ target[r] = c

\* No handler is left blocked on the connection of a client that somebody
\* removed: the connection is closed, or its closing is under way and waits
\* for nothing.
RemovedIsWoken ==
  \A c \in Clients : c \notin session /\ Blocked(c) => Doomed(c)

\* The same of every handler that has not removed its client itself; the
\* monitor closes one connection at a time.
Woken ==
  /\ \A c \in Clients : c \notin session /\ pc[c] \in MemberPoints => Doomed(c)
  /\ \A c, d \in evictClose : c = d

LEMMA NextWoken == IInv /\ Woken /\ [Next]_vars => Woken'
<1> SUFFICES ASSUME IInv, Woken, [Next]_vars PROVE Woken'
  OBVIOUS
<1> USE DEF Woken, Doomed
<1>1. TypeOK
  BY DEF IInv
\* Handlers that neither join nor leave the member points.
<1>2. ASSUME NEW c \in Clients, UNCHANGED <<session, op, target, evictClose>>,
             open' \subseteq open, NEW point, GoTo(c, point),
             point \in MemberPoints => pc[c] \in MemberPoints
      PROVE  Woken'
  BY <1>1, <1>2, SMT DEF TypeOK, GoTo
<1>3. ASSUME NEW c \in Clients, HandlerRuns(c) \/ HandlerWaits(c)
      PROVE  Woken'
  <2> USE DEF MemberPoints, Joining, Tuning, Serving, tables, httpVars, monitorVars
  <2>1. CASE StoreClock(c) \/ LookupChannel(c) \/ AddStream(c) \/ Greet(c)
             \/ Heartbeat(c) \/ JitterReport(c)
    BY <1>2, <2>1 DEF StoreClock, LookupChannel, AddStream, Greet, Heartbeat, JitterReport
  <2>2. CASE FailClose(c) \/ LeaveClose(c) \/ Return(c) \/ LeaveStream(c) \/ LeaveClock(c)
             \/ LeaveReport(c)
    BY <1>2, <2>2 DEF FailClose, LeaveClose, Return, HandlerClose, LeaveStream, LeaveClock,
       LeaveReport
  <2>3. CASE FailDelete(c) \/ LeaveDelete(c)
    BY <1>1, <2>3, SMT DEF FailDelete, LeaveDelete, HandlerDelete, TypeOK, GoTo
  <2>4. CASE Accept(c)
    BY <1>1, <2>4, SMT DEF Accept, TypeOK, GoTo
  <2>5. CASE AddClient(c)
    BY <1>1, <2>5, SMT DEF AddClient, TypeOK, GoTo
  <2>6. CASE TurnAway(c) \/ SendAccept(c) \/ HandshakeRounds(c) \/ SendOffset(c)
             \/ JoinFails(c) \/ ReadFails(c)
    BY <1>2, <2>6 DEF TurnAway, SendAccept, HandshakeRounds, SendOffset, CallSucceeds,
       JoinFails, ReadFails
  <2>7. CASE ReadMessage(c)
    BY <1>2, <2>7 DEF ReadMessage
  <2> QED
    BY <1>3, <2>1, <2>2, <2>3, <2>4, <2>5, <2>6, <2>7 DEF HandlerRuns, HandlerWaits
<1>4. ASSUME UNCHANGED <<pc, open, session, op, target, evictClose>> PROVE Woken'
  BY <1>4
<1>5. ASSUME NEW r \in Requests, Request(r) PROVE Woken'
  <2>1. ASSUME NEW c \in Clients, KickDelete(r, c) PROVE Woken'
    BY <1>1, <2>1, SMT DEF KickDelete, Serve, TypeOK, handlerVars, monitorVars
  <2>2. CASE KickClose(r)
    BY <1>1, <2>2, SMT DEF KickClose, Serve, TypeOK, handlerVars, tables, monitorVars
  <2>3. CASE KickUnstream(r) \/ AssignClient(r) \/ AssignStream(r)
    BY <1>1, <2>3, SMT DEF KickUnstream, AssignClient, AssignStream, Serve, TypeOK,
       handlerVars, tables, monitorVars
  <2>4. ASSUME NEW c \in Clients, NEW ch \in Channels, AssignLookup(r, c, ch) PROVE Woken'
    BY <1>1, <2>4, SMT DEF AssignLookup, Serve, TypeOK, handlerVars, tables, monitorVars
  <2> QED
    BY <1>5, <2>1, <2>2, <2>3, <2>4 DEF Request, RequestRuns
<1>6. ASSUME NEW c \in Clients, Evict(c) PROVE Woken'
  <2>1. CASE EvictDelete(c)
    BY <2>1 DEF EvictDelete, httpVars
  <2>2. CASE EvictClose(c)
    BY <2>2 DEF EvictClose, tables, httpVars
  <2> QED
    BY <1>6, <2>1, <2>2 DEF Evict
<1>7. CASE \/ CollectStale \/ UNCHANGED vars
           \/ \E c \in Clients : GoStale(c)
  BY <1>4, <1>7 DEF CollectStale, GoStale, vars, tables, httpVars, monitorVars
<1> QED
  BY <1>3, <1>5, <1>6, <1>7 DEF Next

\* Kick and eviction delete a client before they close its connection and
\* never forget to close it: a handler blocked on a silent peer is woken.
THEOREM RemovalWakesHandler == Spec => []RemovedIsWoken
<1>1. Init => Woken
  BY DEF Init, Woken, MemberPoints, Joining, Tuning, Serving
<1>2. Woken => RemovedIsWoken
  BY DEF Woken, RemovedIsWoken, Blocked, MemberPoints, Joining, Serving
<1>3. QED
  BY <1>1, <1>2, NextWoken, Invariance, PTL DEF Spec

-----------------------------------------------------------------------------
(* The safety part of the roster. *)

Known   == {c \in Clients : HasId(c)}
Retired == {c \in Clients : pc[c] = "done"}

\* The mapped state is <<Known, session, stream, Retired>>.
LEMMA PromiseStep ==
  ASSUME NEW c \in Clients,
         \/ Promise!Admit(c) \/ Promise!TuneIn(c) \/ Promise!Dismiss(c)
         \/ Promise!TuneOut(c) \/ Promise!Retire(c)
  PROVE  [Promise!Next]_(Promise!vars)
BY DEF Promise!Next

\* Nothing the roster shows changes.
LEMMA PromiseStutter ==
  ASSUME Known' = Known, session' = session, stream' = stream,
         Retired' = Retired
  PROVE  [Promise!Next]_(Promise!vars)
BY DEF Promise!vars, Known, Retired

\* A handler that moves between program points other than the first and the
\* last changes neither the IDs known nor those retired.
LEMMA MoveKeepsIds ==
  ASSUME TypeOK, NEW c \in Clients, NEW point, GoTo(c, point),
         HasId(c) <=> point \notin {"idle", "join", "turnedAway"},
         pc[c] = "done" <=> point = "done"
  PROVE  Known' = Known /\ Retired' = Retired
BY SMT DEF TypeOK, GoTo, Known, Retired, HasId

\* Every step of the control plane is a step of the roster, or shows nothing.
LEMMA NextRefines == IInv /\ [Next]_vars => [Promise!Next]_(Promise!vars)
<1> SUFFICES ASSUME IInv, [Next]_vars
             PROVE  [Promise!Next]_(Promise!vars)
  OBVIOUS
<1>0. TypeOK /\ Placement
  BY DEF IInv
<1>1. ASSUME NEW c \in Clients, HandlerRuns(c)
      PROVE  [Promise!Next]_(Promise!vars)
  <2>1. CASE \/ StoreClock(c) \/ LookupChannel(c) \/ Greet(c) \/ Heartbeat(c)
             \/ JitterReport(c) \/ FailClose(c) \/ LeaveClose(c)
             \/ LeaveClock(c) \/ LeaveReport(c)
    <3>1. session' = session /\ stream' = stream
      BY <2>1 DEF StoreClock, LookupChannel, Greet, Heartbeat, JitterReport,
             FailClose, LeaveClose, HandlerClose, LeaveClock, LeaveReport, tables
    <3>2. Known' = Known /\ Retired' = Retired
      BY <1>0, <2>1, MoveKeepsIds DEF StoreClock, LookupChannel, Greet,
             Heartbeat, JitterReport, FailClose, LeaveClose, HandlerClose,
             LeaveClock, LeaveReport, HasId
    <3>3. QED
      BY <3>1, <3>2, PromiseStutter
  <2>2. CASE AddStream(c)
    <3>1. Known' = Known /\ Retired' = Retired
      BY <1>0, <2>2, MoveKeepsIds DEF AddStream, HasId
    <3>2. c \notin Retired /\ c \in Known
      BY <2>2 DEF AddStream, Retired, Known, HasId
    <3>3. stream' = stream \cup {c} /\ session' = session
      BY <2>2 DEF AddStream
    <3>4. CASE c \in stream
      BY <3>1, <3>3, <3>4, PromiseStutter
    <3>5. CASE c \notin stream
      <4>1. Promise!TuneIn(c)
        BY <3>1, <3>2, <3>3, <3>5 DEF Promise!TuneIn, Known, Retired
      <4>2. QED
        BY <4>1, PromiseStep
    <3>6. QED
      BY <3>4, <3>5
  <2>3. CASE FailDelete(c) \/ LeaveDelete(c)
    <3>1. Known' = Known /\ Retired' = Retired
      BY <1>0, <2>3, MoveKeepsIds DEF FailDelete, LeaveDelete, HandlerDelete, HasId
    <3>2. stream' = stream /\ session' = session \ {c}
      BY <2>3 DEF FailDelete, LeaveDelete, HandlerDelete
    <3>3. QED
      BY <3>1, <3>2, PromiseStutter, PromiseStep DEF Promise!Dismiss, Known, Retired
  <2>4. CASE LeaveStream(c)
    <3>1. Known' = Known /\ Retired' = Retired
      BY <1>0, <2>4, MoveKeepsIds DEF LeaveStream, HasId
    <3>2. stream' = stream \ {c} /\ session' = session /\ c \notin session
      BY <1>0, <2>4 DEF LeaveStream, Placement, MemberPoints, Joining, Tuning, Serving
    <3>3. QED
      BY <3>1, <3>2, PromiseStutter, PromiseStep DEF Promise!TuneOut, Known, Retired
  <2>5. CASE Return(c)
    <3>1. c \notin session /\ c \notin stream /\ session' = session /\ stream' = stream
      BY <1>0, <2>5 DEF Return, HandlerClose, Placement, MemberPoints,
             StreamPoints, Joining, Tuning, Serving, tables
    <3>2. Known' = Known /\ c \in Known \ Retired /\ Retired' = Retired \cup {c}
      BY <1>0, <2>5, SMT
         DEF Return, HandlerClose, GoTo, TypeOK, Known, Retired, HasId
    <3>3. Promise!Retire(c)
      BY <3>1, <3>2 DEF Promise!Retire, Known, Retired
    <3>4. QED
      BY <3>3, PromiseStep
  <2>6. QED
    BY <1>1, <2>1, <2>2, <2>3, <2>4, <2>5 DEF HandlerRuns
<1>2. ASSUME NEW c \in Clients, HandlerWaits(c)
      PROVE  [Promise!Next]_(Promise!vars)
  <2>1. CASE AddClient(c)
    <3>1. c \notin Known /\ Known' = Known \cup {c} /\ Retired' = Retired
      BY <1>0, <2>1, SMT DEF AddClient, GoTo, TypeOK, Known, Retired, HasId
    <3>2. session' = session \cup {c} /\ stream' = stream
      BY <2>1 DEF AddClient
    <3>3. Promise!Admit(c)
      BY <3>1, <3>2 DEF Promise!Admit, Known, Retired
    <3>4. QED
      BY <3>3, PromiseStep
  <2>2. CASE ~AddClient(c)
    <3>1. session' = session /\ stream' = stream
      BY <1>2, <2>2 DEF HandlerWaits, Accept, TurnAway, SendAccept, HandshakeRounds,
             SendOffset, CallSucceeds, JoinFails, ReadMessage, ReadFails, tables
    <3>2. Known' = Known /\ Retired' = Retired
      BY <1>0, <1>2, <2>2, MoveKeepsIds DEF HandlerWaits, Accept, TurnAway,
             SendAccept, HandshakeRounds, SendOffset, CallSucceeds, JoinFails,
             ReadMessage, ReadFails, HasId
    <3>3. QED
      BY <3>1, <3>2, PromiseStutter
  <2>3. QED
    BY <2>1, <2>2
<1>3. ASSUME pc' = pc, session' = session, stream' = stream
      PROVE  [Promise!Next]_(Promise!vars)
  BY <1>3, PromiseStutter DEF Known, Retired, HasId
<1>4. ASSUME NEW r \in Requests, Request(r)
      PROVE  [Promise!Next]_(Promise!vars)
  <2>1. ASSUME NEW c \in Clients, KickDelete(r, c)
        PROVE  [Promise!Next]_(Promise!vars)
    <3>1. pc' = pc /\ stream' = stream /\ session' = session \ {c}
      BY <2>1 DEF KickDelete, handlerVars
    <3>2. QED
      BY <1>3, <3>1, PromiseStep DEF Promise!Dismiss, HasId
  <2>2. CASE KickUnstream(r)
    <3>1. pc' = pc /\ session' = session /\ stream' = stream \ {target[r]}
      BY <2>2 DEF KickUnstream, handlerVars
    <3>2. target[r] \in Clients /\ target[r] \notin session
      BY <2>2 DEF KickUnstream, IInv, Wanted, ClosersBehind
    <3>3. QED
      BY <1>3, <3>1, <3>2, PromiseStep DEF Promise!TuneOut, HasId
  <2>3. CASE \/ KickClose(r) \/ AssignClient(r) \/ AssignStream(r)
             \/ \E c \in Clients, ch \in Channels : AssignLookup(r, c, ch)
    BY <1>3, <2>3 DEF KickClose, AssignClient, AssignStream, AssignLookup,
           handlerVars, tables
  <2>4. QED
    BY <1>4, <2>1, <2>2, <2>3 DEF Request, RequestRuns
<1>5. ASSUME NEW c \in Clients, Evict(c)
      PROVE  [Promise!Next]_(Promise!vars)
  <2>1. CASE EvictDelete(c)
    <3>1. pc' = pc /\ stream' = stream /\ session' = session \ {c}
      BY <2>1 DEF EvictDelete
    <3>2. QED
      BY <1>3, <3>1, PromiseStep DEF Promise!Dismiss, HasId
  <2>2. CASE EvictClose(c)
    BY <1>3, <2>2 DEF EvictClose, tables
  <2>3. QED
    BY <1>5, <2>1, <2>2 DEF Evict
<1>6. CASE \/ CollectStale \/ UNCHANGED vars
           \/ \E c \in Clients : GoStale(c)
  BY <1>3, <1>6 DEF CollectStale, GoStale, vars, tables
<1>7. QED
  BY <1>1, <1>2, <1>4, <1>5, <1>6 DEF Next

\* The control plane implements the safety part of the roster: an ID is
\* admitted once, audio is only taken from a client that is no longer a
\* member, and an ID retires once it is in neither place.
THEOREM ControlPlaneImplementsRoster == Spec => Promise!Safe
<1>1. Init => Promise!Init
  BY DEF Init, Promise!Init, HasId
<1>2. QED
  BY <1>1, NextRefines, Invariance, PTL DEF Spec, Promise!Safe
=============================================================================
