----------------------------- MODULE ClockSync -----------------------------
(***************************************************************************)
(* Clock synchronization of one client: the handshake and the periodic     *)
(* correction of the server (internal/sync/clock.go, called from           *)
(* internal/server/tcp.go) and the client's answers (client/core/src/      *)
(* engine.cpp, handleTCPMessage and maintenanceLoop), over a connection    *)
(* that delays messages but keeps their order.                             *)
(*                                                                         *)
(* now is the client's steady clock and now + skew the server's, which is  *)
(* a wall clock: skew changes in steps of one unit, whose number is drift. *)
(* The offset the protocol estimates is skew.  A probe is labelled with    *)
(* the value of drift at its sending (mark); no step of the code reads the *)
(* labels, they state the bounds.                                          *)
(***************************************************************************)
EXTENDS Integers, Sequences

CONSTANTS
  Rounds,      \* InitialProbeRounds
  Threshold,   \* DriftCorrectionThresholdUs
  FirstBeat,   \* the first heartbeat is due this long after the beginning
  SlowLink,    \* whether the handshake may still be under way then
  Boot,        \* the client's clock at the beginning
  Skews,       \* initial differences of the clocks
  MaxTime, MaxDrift, MaxProbes, MaxBeats   \* bounds

ASSUME RoundsAssumption == Rounds \in Nat \ {0} /\ Threshold \in Nat
ASSUME ClockAssumption ==
  /\ FirstBeat \in Nat /\ SlowLink \in BOOLEAN /\ Boot \in Nat /\ Skews \subseteq Int
  /\ MaxTime \in Nat /\ MaxDrift \in Nat /\ MaxProbes \in Nat /\ MaxBeats \in Nat

VARIABLES
  now, skew, drift,  \* the clocks
  down, up,    \* messages to the client and to the server
  spc,         \* where the connection's handler is
  sent,        \* serverSendTs of the round under way, and its label
  results,     \* the rounds of the handshake so far
  clock,       \* the client's ClientClock: OffsetUs and RTTUS, and the label
  seen,        \* round trip and label of the reply processed last
  probes,      \* probes sent by the periodic goroutine
  cpc,         \* whether the client is answering a probe
  probe, recvTs,  \* the probe it answers and clientRecvTs
  offset,      \* the client's offsetUs_
  synced,      \* handshakeComplete_
  beats        \* heartbeats sent

clocks == <<now, skew, drift>>
server == <<spc, sent, results, clock, seen, probes>>
client == <<cpc, probe, recvTs, offset, synced, beats>>
vars   == <<clocks, down, up, server, client>>

ServerTimeNow == now + skew

ProbeMsg  == [kind : {"probe"}, ss : Int, mark : Nat]
OffsetMsg == [kind : {"offset"}, off : Int]
ReplyMsg  == [kind : {"reply"}, ss : Int, cr : Int, cs : Int, mark : Nat]
BeatMsg   == [kind : {"beat"}]
Round     == [ss : Int, cr : Int, cs : Int, sr : Int, mark : Nat]

NoProbe == [ss |-> 0, mark |-> 0]

Init ==
  /\ now = Boot /\ skew \in Skews /\ drift = 0
  /\ down = <<>> /\ up = <<>>
  /\ spc = "send" /\ sent = NoProbe /\ results = <<>>
  /\ clock = [off |-> 0, rtt |-> 0, mark |-> 0] /\ seen = [rtt |-> 0, mark |-> 0]
  /\ probes = 0
  /\ cpc = "idle" /\ probe = NoProbe /\ recvTs = 0
  /\ offset = 0 /\ synced = FALSE /\ beats = 0

-----------------------------------------------------------------------------
(* The clocks.                                                             *)

Tick ==
  /\ now < MaxTime
  /\ now' = now + 1
  /\ UNCHANGED <<skew, drift, down, up, server, client>>

\* The clocks run at different rates, or the server's wall clock is set.
Drift(d) ==
  /\ drift < MaxDrift
  /\ drift' = drift + 1 /\ skew' = skew + d
  /\ UNCHANGED <<now, down, up, server, client>>

-----------------------------------------------------------------------------
(* What a round measures.                                                  *)

Rtt(r) == (r.sr - r.ss) - (r.cs - r.cr)

\* Go's division truncates towards zero.
Half(n) == IF n >= 0 THEN n \div 2 ELSE -((-n) \div 2)

\* Mutant of Offset: the difference of the reply has the wrong sign.
OffsetSign(r) == Half((r.ss - r.cr) + (r.cs - r.sr))

Offset(r) == Half((r.ss - r.cr) + (r.sr - r.cs))

Result(reply, ss, mark) ==
  [ss |-> ss, cr |-> reply.cr, cs |-> reply.cs, sr |-> ServerTimeNow, mark |-> mark]

-----------------------------------------------------------------------------
(* InitialHandshake.                                                       *)

SendProbe ==
  /\ spc = "send"
  /\ spc' = "await"
  /\ sent' = [ss |-> ServerTimeNow, mark |-> drift]
  /\ down' = Append(down, [kind |-> "probe", ss |-> ServerTimeNow, mark |-> drift])
  /\ UNCHANGED <<clocks, up, results, clock, seen, probes, client>>

\* Whatever message comes next is decoded as the reply: a heartbeat has none
\* of its fields, which stay zero.
AsReply(m) == IF m.kind = "reply" THEN [cr |-> m.cr, cs |-> m.cs]
              ELSE [cr |-> 0, cs |-> 0]

\* Mutant of ReadReply: the test for the last round is off by one.
ReadReplyMore ==
  /\ spc = "await" /\ up # <<>>
  /\ results' = Append(results, Result(AsReply(Head(up)), sent.ss, sent.mark))
  /\ up' = Tail(up)
  /\ spc' = IF Len(results') > Rounds THEN "store" ELSE "send"
  /\ UNCHANGED <<clocks, down, sent, clock, seen, probes, client>>

ReadReply ==
  /\ spc = "await" /\ up # <<>>
  /\ results' = Append(results, Result(AsReply(Head(up)), sent.ss, sent.mark))
  /\ up' = Tail(up)
  /\ spc' = IF Len(results') = Rounds THEN "store" ELSE "send"
  /\ UNCHANGED <<clocks, down, sent, clock, seen, probes, client>>

\* The first of the rounds with the lowest round trip.
IsBest(i) ==
  /\ \A j \in DOMAIN results : Rtt(results[i]) <= Rtt(results[j])
  /\ \A j \in 1..i - 1 : Rtt(results[i]) < Rtt(results[j])

StoreBest ==
  /\ spc = "store"
  /\ \E i \in DOMAIN results :
       /\ IsBest(i)
       /\ clock' = [off |-> Offset(results[i]), rtt |-> Rtt(results[i]), mark |-> results[i].mark]
       /\ seen' = [rtt |-> Rtt(results[i]), mark |-> results[i].mark]
  /\ spc' = "tell"
  /\ sent' = NoProbe /\ results' = <<>>
  /\ UNCHANGED <<clocks, down, up, probes, client>>

SendOffset ==
  /\ spc = "tell"
  /\ spc' = "loop"
  /\ down' = Append(down, [kind |-> "offset", off |-> clock.off])
  /\ UNCHANGED <<clocks, up, sent, results, clock, seen, probes, client>>

-----------------------------------------------------------------------------
(* The read loop and the periodic probes.                                  *)

\* The ticker does not wait for the reply to an earlier probe.
SendPeriodicProbe ==
  /\ spc \in {"loop", "correct"}
  /\ probes < MaxProbes
  /\ probes' = probes + 1
  /\ down' = Append(down, [kind |-> "probe", ss |-> ServerTimeNow, mark |-> drift])
  /\ UNCHANGED <<clocks, up, spc, sent, results, clock, seen, client>>

Heartbeat ==
  /\ spc = "loop" /\ up # <<>> /\ Head(up).kind = "beat"
  /\ up' = Tail(up)
  /\ UNCHANGED <<clocks, down, server, client>>

Far(a, b) == a - b > Threshold \/ b - a > Threshold

\* Mutant of ProcessPeriodicReply: only a lower offset counts as drift.
ProcessLower ==
  LET r == Result(Head(up), Head(up).ss, Head(up).mark)
  IN /\ spc = "loop" /\ up # <<>> /\ Head(up).kind = "reply"
     /\ up' = Tail(up)
     /\ seen' = [rtt |-> Rtt(r), mark |-> r.mark]
     /\ IF clock.off - Offset(r) > Threshold
        THEN /\ clock' = [off |-> Offset(r), rtt |-> Rtt(r), mark |-> r.mark]
             /\ spc' = "correct"
        ELSE UNCHANGED <<clock, spc>>
     /\ UNCHANGED <<clocks, down, sent, results, probes, client>>

\* Mutant of ProcessPeriodicReply: the correction is stored and not sent.
ProcessSilent ==
  LET r == Result(Head(up), Head(up).ss, Head(up).mark)
  IN /\ spc = "loop" /\ up # <<>> /\ Head(up).kind = "reply"
     /\ up' = Tail(up)
     /\ seen' = [rtt |-> Rtt(r), mark |-> r.mark]
     /\ IF Far(Offset(r), clock.off)
        THEN clock' = [off |-> Offset(r), rtt |-> Rtt(r), mark |-> r.mark]
        ELSE UNCHANGED clock
     /\ UNCHANGED <<clocks, down, spc, sent, results, probes, client>>

\* A reply that differs by more than the threshold replaces the clock,
\* however long its round trip was; the correction is sent afterwards.
ProcessPeriodicReply ==
  LET r == Result(Head(up), Head(up).ss, Head(up).mark)
  IN /\ spc = "loop" /\ up # <<>> /\ Head(up).kind = "reply"
     /\ up' = Tail(up)
     /\ seen' = [rtt |-> Rtt(r), mark |-> r.mark]
     /\ IF Far(Offset(r), clock.off)
        THEN /\ clock' = [off |-> Offset(r), rtt |-> Rtt(r), mark |-> r.mark]
             /\ spc' = "correct"
        ELSE UNCHANGED <<clock, spc>>
     /\ UNCHANGED <<clocks, down, sent, results, probes, client>>

SendCorrection ==
  /\ spc = "correct"
  /\ spc' = "loop"
  /\ down' = Append(down, [kind |-> "offset", off |-> clock.off])
  /\ UNCHANGED <<clocks, up, sent, results, clock, seen, probes, client>>

-----------------------------------------------------------------------------
(* The client: the TCP thread answers probes and takes offsets, the        *)
(* maintenance thread sends heartbeats from JOIN_ACCEPT on.                *)

ReceiveProbe ==
  /\ cpc = "idle" /\ down # <<>> /\ Head(down).kind = "probe"
  /\ cpc' = "reply" /\ recvTs' = now
  /\ probe' = [ss |-> Head(down).ss, mark |-> Head(down).mark]
  /\ down' = Tail(down)
  /\ UNCHANGED <<clocks, up, server, offset, synced, beats>>

\* Mutant of SendReply: the probe is not answered.
SendNoReply ==
  /\ cpc = "reply"
  /\ cpc' = "idle" /\ probe' = NoProbe /\ recvTs' = 0
  /\ UNCHANGED <<clocks, down, up, server, offset, synced, beats>>

SendReply ==
  /\ cpc = "reply"
  /\ cpc' = "idle" /\ probe' = NoProbe /\ recvTs' = 0
  /\ up' = Append(up, [kind |-> "reply", ss |-> probe.ss, cr |-> recvTs,
                       cs |-> now, mark |-> probe.mark])
  /\ UNCHANGED <<clocks, down, server, offset, synced, beats>>

ReceiveOffset ==
  /\ cpc = "idle" /\ down # <<>> /\ Head(down).kind = "offset"
  /\ offset' = Head(down).off /\ synced' = TRUE
  /\ down' = Tail(down)
  /\ UNCHANGED <<clocks, up, server, cpc, probe, recvTs, beats>>

\* The maintenance thread waits for JOIN_ACCEPT, not for the handshake: on a
\* slow link its first heartbeat, two seconds later, is sent during it.
SendHeartbeat ==
  /\ now >= Boot + FirstBeat /\ (SlowLink \/ synced)
  /\ beats < MaxBeats
  /\ beats' = beats + 1
  /\ up' = Append(up, [kind |-> "beat"])
  /\ UNCHANGED <<clocks, down, server, cpc, probe, recvTs, offset, synced>>

-----------------------------------------------------------------------------
ServerStep == \/ SendProbe \/ ReadReply \/ StoreBest \/ SendOffset
              \/ Heartbeat \/ ProcessPeriodicReply \/ SendCorrection
ClientStep == ReceiveProbe \/ SendReply \/ ReceiveOffset

Next == \/ Tick \/ (\E d \in {-1, 1} : Drift(d))
        \/ ServerStep \/ SendPeriodicProbe
        \/ ClientStep \/ SendHeartbeat

\* The handler and the client's TCP thread take every step they can, and the
\* connection delivers; probes and heartbeats need not be sent.
Spec == Init /\ [][Next]_vars /\ WF_vars(ServerStep) /\ WF_vars(ClientStep)

-----------------------------------------------------------------------------
(* Properties.                                                             *)

\* Every variable has its type, and a handshake has at most Rounds rounds.
TypeOK ==
  /\ now \in Nat /\ skew \in Int /\ drift \in Nat
  /\ down \in Seq(ProbeMsg \cup OffsetMsg) /\ up \in Seq(ReplyMsg \cup BeatMsg)
  /\ spc \in {"send", "await", "store", "tell", "loop", "correct"}
  /\ sent \in [ss : Int, mark : Nat]
  /\ results \in Seq(Round)
  /\ Len(results) <= Rounds
  /\ clock \in [off : Int, rtt : Int, mark : Nat] /\ seen \in [rtt : Int, mark : Nat]
  /\ probes \in Nat /\ cpc \in {"idle", "reply"}
  /\ probe \in [ss : Int, mark : Nat] /\ recvTs \in Int
  /\ offset \in Int /\ synced \in BOOLEAN /\ beats \in Nat

Stored == spc \in {"tell", "loop", "correct"}

\* Twice the distance of an estimate from the difference of the clocks.
Within(off, bound) == 2 * (off - skew) <= bound /\ 2 * (skew - off) <= bound

\* The offset the server holds for a client is wrong by at most half of the
\* round trip it holds with it, up to rounding and the drift since the probe
\* was sent.
OffsetBounded ==
  Stored => Within(clock.off, clock.rtt + 1 + 2 * (drift - clock.mark))

\* The reply processed last bounds the error too, whether it corrected the
\* clock or not: drift beyond the threshold does not stay.
DriftBounded ==
  Stored => Within(clock.off, seen.rtt + 1 + 2 * Threshold + 2 * (drift - seen.mark))

\* A client with no offset on its way has the one the server holds.
ClientAgrees ==
  spc = "loop" /\ (\A i \in DOMAIN down : down[i].kind = "probe") => offset = clock.off

\* The handshake ends with a synchronized client.
HandshakeEnds == spc = "send" ~> synced
=============================================================================
