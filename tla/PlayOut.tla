------------------------------ MODULE PlayOut ------------------------------
(***************************************************************************)
(* What the clock synchronization and the latency equalizer are for: two   *)
(* clients that play the same audio in step.  A client asks its jitter     *)
(* buffer for the capture time to be heard at a moment of its local clock, *)
(* moved by the offset it was told and back by the global delay it was     *)
(* told (client/core/src/jitter_buffer.cpp, pull).  The output device is   *)
(* taken to sound when the caller of readAudio says it will.               *)
(*                                                                         *)
(* The state is that of two connections of ClockSync and of one            *)
(* LatencyEqualizer: a record for each, with their variables as fields.    *)
(* The components take their steps as their own modules say; what ties     *)
(* them is that both connections end at the same server clock.             *)
(***************************************************************************)
EXTENDS Integers, TLAPS

CONSTANTS
  Rounds, Threshold, FirstBeat, Skews,      \* of ClockSync, for both clients
  MaxTime, MaxDrift, MaxProbes, MaxBeats,
  BootA, BootB,                             \* local clocks of the two at the start
  Clients, P95, MaxP95, Headroom, MinDelay, MaxDelay, DelayThreshold,
  DownStep, Resolution, IosJitter, IosFrame, Frame, MaxChanges,
                                            \* of LatencyEqualizer
  Ca, Cb,      \* the connections of the two clients
  PerMs        \* units of the clocks in a unit of the delay

VARIABLES
  a, b,        \* the two clients with their ends of the server
  eq           \* the equalizer and its broadcast

A == INSTANCE ClockSyncProofs WITH SlowLink <- FALSE, Boot <- BootA,
  now <- a.now, skew <- a.skew, drift <- a.drift, down <- a.down, up <- a.up,
  spc <- a.spc, sent <- a.sent, results <- a.results, clock <- a.clock,
  seen <- a.seen, probes <- a.probes, cpc <- a.cpc, probe <- a.probe,
  recvTs <- a.recvTs, offset <- a.offset, synced <- a.synced,
  beats <- a.beats

B == INSTANCE ClockSyncProofs WITH SlowLink <- FALSE, Boot <- BootB,
  now <- b.now, skew <- b.skew, drift <- b.drift, down <- b.down, up <- b.up,
  spc <- b.spc, sent <- b.sent, results <- b.results, clock <- b.clock,
  seen <- b.seen, probes <- b.probes, cpc <- b.cpc, probe <- b.probe,
  recvTs <- b.recvTs, offset <- b.offset, synced <- b.synced,
  beats <- b.beats

Equalizer == INSTANCE LatencyEqualizerProofs WITH Threshold <- DelayThreshold,
  stage <- eq.stage, reports <- eq.reports, globalDelay <- eq.globalDelay,
  change <- eq.change, pending <- eq.pending, sends <- eq.sends,
  greeting <- eq.greeting, target <- eq.target, frameMs <- eq.frameMs

\* ServerTimeNow is one clock, whichever connection reads it.
OneServer == a.now + a.skew = b.now + b.skew

Spec == A!Spec /\ B!Spec /\ Equalizer!Spec /\ []OneServer

\* What the modules ask of their constants, of the two connections and of the
\* conversion of the delay.
Assumptions ==
  /\ A!RoundsAssumption /\ A!ClockAssumption /\ B!ClockAssumption
  /\ Equalizer!ReportAssumption /\ Equalizer!DelayAssumption
  /\ Equalizer!StepAssumption /\ Equalizer!FrameAssumption
  /\ Ca \in Clients /\ Cb \in Clients /\ PerMs \in Nat

-----------------------------------------------------------------------------
(* The time line.                                                          *)

\* setGlobalDelayMs, of the delay last told on connection c.
DelayOf(c) == PerMs * eq.target[c].ms

\* targetCaptureUs: the capture time of what client x, on connection c, lets be
\* heard now.
Due(x, c) == x.now + x.offset - DelayOf(c)

\* pull takes samples of the frame captured at ts.
Takes(x, c, ts, len) == Due(x, c) - 2 * len <= ts /\ ts <= Due(x, c) + len

\* The handler is in its read loop and no offset is on its way.
Settled(x) == x.spc = "loop" /\ \A i \in DOMAIN x.down : x.down[i].kind = "probe"

\* Twice the error of a settled client: by the round trip that gave the offset
\* and by the one seen last, with the drift since.
Errors(x) == { x.clock.rtt + 1 + 2 * (x.drift - x.clock.mark),
               x.seen.rtt + 1 + 2 * Threshold + 2 * (x.drift - x.seen.mark) }

\* A client that holds its offset takes a frame for the moment when the server's
\* clock says its capture time plus the delay, up to the error of the offset, a
\* frame early and two frames late.
OnTime(x, c) ==
  Settled(x) =>
    \A e \in Errors(x), ts \in Int, len \in Nat \ {0} :
      Takes(x, c, ts, len) =>
        /\ 2 * (x.now + x.skew - DelayOf(c) - ts) <= e + 4 * len
        /\ 2 * (ts - (x.now + x.skew - DelayOf(c))) <= e + 2 * len

\* Clients last told of the same change of the delay are due to play the same
\* audio, up to the errors of both their offsets.
InStep ==
  /\ Settled(a) /\ Settled(b)
  /\ Equalizer!Told(Ca) /\ Equalizer!Told(Cb)
  /\ eq.target[Ca].n = eq.target[Cb].n
  => \A e \in Errors(a), f \in Errors(b) :
       /\ 2 * (Due(a, Ca) - Due(b, Cb)) <= e + f
       /\ 2 * (Due(b, Cb) - Due(a, Ca)) <= e + f

-----------------------------------------------------------------------------
\* The two numbers differ by at most half of the bound.
Apart(m, n, bound) == 2 * (m - n) <= bound /\ 2 * (n - m) <= bound

\* What ClockSync proves of a client, in the terms of this module.
Close(x) ==
  /\ x.now \in Int /\ x.skew \in Int /\ x.offset \in Int
  /\ Settled(x) => \A e \in Errors(x) : e \in Int /\ Apart(x.offset, x.skew, e)

LEMMA ClientA == ASSUME Assumptions PROVE A!Spec => []Close(a)
<1>1. A!RoundsAssumption /\ A!ClockAssumption
  BY DEF Assumptions, A!RoundsAssumption, B!RoundsAssumption
<1>2. A!Spec => []A!TypeOK
  BY <1>1, A!TypeCorrect
<1>3. A!Spec => []A!OffsetBounded
  BY <1>1, A!OffsetErrorBounded
<1>4. A!Spec => []A!DriftBounded
  BY <1>1, A!DriftErrorBounded
<1>5. A!Spec => []A!ClientAgrees
  BY <1>1, A!ClientOffsetAgrees
<1>6. A!TypeOK /\ A!OffsetBounded /\ A!DriftBounded /\ A!ClientAgrees => Close(a)
  <2> SUFFICES ASSUME A!TypeOK, A!OffsetBounded, A!DriftBounded, A!ClientAgrees
               PROVE  Close(a)
    OBVIOUS
  <2>1. /\ a.now \in Int /\ a.skew \in Int /\ a.drift \in Int /\ a.offset \in Int
        /\ a.clock.off \in Int /\ a.clock.rtt \in Int /\ a.clock.mark \in Int
        /\ a.seen.rtt \in Int /\ a.seen.mark \in Int /\ Threshold \in Int
    <3>1. /\ a.now \in Nat /\ a.skew \in Int /\ a.drift \in Nat /\ a.offset \in Int
          /\ a.clock \in [off : Int, rtt : Int, mark : Nat]
          /\ a.seen \in [rtt : Int, mark : Nat]
      BY Zenon DEF A!TypeOK
    <3>2. Threshold \in Int
      BY <1>1 DEF A!RoundsAssumption
    <3> QED
      BY <3>1, <3>2
  <2>2. SUFFICES ASSUME Settled(a)
                 PROVE  \A e \in Errors(a) : e \in Int /\ Apart(a.offset, a.skew, e)
    BY <2>1 DEF Close
  <2>3. a.offset = a.clock.off
    BY <2>2 DEF Settled, A!ClientAgrees
  <2>4. A!Stored
    BY <2>2 DEF Settled, A!Stored
  <2>5. /\ Apart(a.offset, a.skew, a.clock.rtt + 1 + 2 * (a.drift - a.clock.mark))
        /\ Apart(a.offset, a.skew,
                 a.seen.rtt + 1 + 2 * Threshold + 2 * (a.drift - a.seen.mark))
    BY <2>3, <2>4 DEF A!OffsetBounded, A!DriftBounded, A!Within, Apart
  <2> QED
    BY <2>1, <2>5 DEF Errors
<1> QED
  BY <1>2, <1>3, <1>4, <1>5, <1>6, PTL

LEMMA ClientB == ASSUME Assumptions PROVE B!Spec => []Close(b)
<1>1. B!RoundsAssumption /\ B!ClockAssumption
  BY DEF Assumptions, A!RoundsAssumption, B!RoundsAssumption
<1>2. B!Spec => []B!TypeOK
  BY <1>1, B!TypeCorrect
<1>3. B!Spec => []B!OffsetBounded
  BY <1>1, B!OffsetErrorBounded
<1>4. B!Spec => []B!DriftBounded
  BY <1>1, B!DriftErrorBounded
<1>5. B!Spec => []B!ClientAgrees
  BY <1>1, B!ClientOffsetAgrees
<1>6. B!TypeOK /\ B!OffsetBounded /\ B!DriftBounded /\ B!ClientAgrees => Close(b)
  <2> SUFFICES ASSUME B!TypeOK, B!OffsetBounded, B!DriftBounded, B!ClientAgrees
               PROVE  Close(b)
    OBVIOUS
  <2>1. /\ b.now \in Int /\ b.skew \in Int /\ b.drift \in Int /\ b.offset \in Int
        /\ b.clock.off \in Int /\ b.clock.rtt \in Int /\ b.clock.mark \in Int
        /\ b.seen.rtt \in Int /\ b.seen.mark \in Int /\ Threshold \in Int
    <3>1. /\ b.now \in Nat /\ b.skew \in Int /\ b.drift \in Nat /\ b.offset \in Int
          /\ b.clock \in [off : Int, rtt : Int, mark : Nat]
          /\ b.seen \in [rtt : Int, mark : Nat]
      BY Zenon DEF B!TypeOK
    <3>2. Threshold \in Int
      BY <1>1 DEF B!RoundsAssumption
    <3> QED
      BY <3>1, <3>2
  <2>2. SUFFICES ASSUME Settled(b)
                 PROVE  \A e \in Errors(b) : e \in Int /\ Apart(b.offset, b.skew, e)
    BY <2>1 DEF Close
  <2>3. b.offset = b.clock.off
    BY <2>2 DEF Settled, B!ClientAgrees
  <2>4. B!Stored
    BY <2>2 DEF Settled, B!Stored
  <2>5. /\ Apart(b.offset, b.skew, b.clock.rtt + 1 + 2 * (b.drift - b.clock.mark))
        /\ Apart(b.offset, b.skew,
                 b.seen.rtt + 1 + 2 * Threshold + 2 * (b.drift - b.seen.mark))
    BY <2>3, <2>4 DEF B!OffsetBounded, B!DriftBounded, B!Within, Apart
  <2> QED
    BY <2>1, <2>5 DEF Errors
<1> QED
  BY <1>2, <1>3, <1>4, <1>5, <1>6, PTL

\* What LatencyEqualizer proves of the two connections.
Agreed ==
  /\ DelayOf(Ca) \in Int /\ DelayOf(Cb) \in Int
  /\ Equalizer!Told(Ca) /\ Equalizer!Told(Cb) /\ eq.target[Ca].n = eq.target[Cb].n
       => DelayOf(Ca) = DelayOf(Cb)

LEMMA Delays == ASSUME Assumptions PROVE Equalizer!Spec => []Agreed
<1>1. /\ Equalizer!ReportAssumption /\ Equalizer!DelayAssumption
      /\ Equalizer!StepAssumption /\ Equalizer!FrameAssumption
      /\ Ca \in Clients /\ Cb \in Clients /\ PerMs \in Nat
  BY DEF Assumptions
<1>2. Equalizer!Spec => []Equalizer!TypeOK
  BY <1>1, Equalizer!TypeCorrect
<1>3. Equalizer!Spec => []Equalizer!SameChangeSameDelay
  BY <1>1, Equalizer!AnchorFollowsChange
<1>4. Equalizer!TypeOK /\ Equalizer!SameChangeSameDelay => Agreed
  <2> SUFFICES ASSUME Equalizer!TypeOK, Equalizer!SameChangeSameDelay PROVE Agreed
    OBVIOUS
  <2>1. eq.target[Ca].ms \in Int /\ eq.target[Cb].ms \in Int
    BY <1>1 DEF Equalizer!TypeOK, Equalizer!Message
  <2>2. DelayOf(Ca) \in Int /\ DelayOf(Cb) \in Int
    BY <1>1, <2>1 DEF DelayOf
  <2>3. ASSUME Equalizer!Told(Ca), Equalizer!Told(Cb), eq.target[Ca].n = eq.target[Cb].n
        PROVE  DelayOf(Ca) = DelayOf(Cb)
    BY <1>1, <2>3 DEF Equalizer!SameChangeSameDelay, DelayOf
  <2> QED
    BY <2>2, <2>3 DEF Agreed
<1> QED
  BY <1>2, <1>3, <1>4, PTL

\* clock.go, latency.go and jitter_buffer.cpp together: two settled clients told
\* of the same change are due to play the same audio at every moment, up to half
\* of their two round trips, whatever the delays of the network were.
THEOREM ClientsPlayInStep == ASSUME Assumptions PROVE Spec => []InStep
<1>1. Close(a) /\ Close(b) /\ Agreed /\ OneServer => InStep
  <2> SUFFICES ASSUME Close(a), Close(b), Agreed, OneServer,
                      Settled(a), Settled(b), Equalizer!Told(Ca), Equalizer!Told(Cb),
                      eq.target[Ca].n = eq.target[Cb].n,
                      NEW e \in Errors(a), NEW f \in Errors(b)
               PROVE  Apart(Due(a, Ca), Due(b, Cb), e + f)
    BY DEF InStep, Apart
  <2>1. /\ DelayOf(Ca) \in Int /\ DelayOf(Cb) = DelayOf(Ca)
    BY DEF Agreed
  <2>2. /\ a.now \in Int /\ a.skew \in Int /\ a.offset \in Int
        /\ e \in Int /\ Apart(a.offset, a.skew, e)
    BY DEF Close
  <2>3. /\ b.now \in Int /\ b.skew \in Int /\ b.offset \in Int
        /\ f \in Int /\ Apart(b.offset, b.skew, f)
    BY DEF Close
  <2>4. a.now + a.skew = b.now + b.skew
    BY DEF OneServer
  <2> QED
    BY <2>1, <2>2, <2>3, <2>4 DEF Apart, Due
<1> QED
  BY <1>1, ClientA, ClientB, Delays, PTL DEF Spec

\* pull with the offset clock.go found: each client plays a frame at its capture
\* time plus the delay by the server's clock, a frame early and two late at most.
THEOREM FramesPlayOnTime == ASSUME Assumptions PROVE Spec => [](OnTime(a, Ca) /\ OnTime(b, Cb))
<1>1. ASSUME NEW x, NEW c, Close(x), DelayOf(c) \in Int PROVE OnTime(x, c)
  <2> SUFFICES ASSUME Settled(x), NEW e \in Errors(x), NEW ts \in Int, NEW len \in Nat \ {0},
                      Takes(x, c, ts, len)
               PROVE  /\ 2 * (x.now + x.skew - DelayOf(c) - ts) <= e + 4 * len
                      /\ 2 * (ts - (x.now + x.skew - DelayOf(c))) <= e + 2 * len
    BY DEF OnTime
  <2>1. /\ x.now \in Int /\ x.skew \in Int /\ x.offset \in Int
        /\ e \in Int /\ Apart(x.offset, x.skew, e)
    BY <1>1 DEF Close
  <2> QED
    BY <1>1, <2>1 DEF Apart, Takes, Due
<1>2. Close(a) /\ Close(b) /\ Agreed => OnTime(a, Ca) /\ OnTime(b, Cb)
  BY <1>1 DEF Agreed
<1> QED
  BY <1>2, ClientA, ClientB, Delays, PTL DEF Spec
=============================================================================
