-------------------------- MODULE LatencyEqualizer --------------------------
(***************************************************************************)
(* The global playback delay (internal/sync/latency.go) and its way to the *)
(* clients.                                                                *)
(*                                                                         *)
(* Every client reports the 95th percentile of its transit times.  The     *)
(* equalizer derives one delay for all of them and starts a goroutine per  *)
(* change that sends it to the session's clients (cmd/soundswarm-server/   *)
(* main.go, TCPServer.BroadcastToAll), which starts a goroutine per client *)
(* that writes it (Client.Send).  A client that joins is told the delay by *)
(* its own handler, before Client.WriteFunc exists; until then Send        *)
(* silently drops what it is given.                                        *)
(*                                                                         *)
(* Delays and reports are whole milliseconds.  A message is the delay with *)
(* the number of the change that produced it, which the code does not send *)
(* and which only tells two messages of equal delay apart.                 *)
(***************************************************************************)
EXTENDS Integers, FiniteSets, FiniteSetsExt

CONSTANTS
  Clients,     \* clients of the session
  P95,         \* values a client may report
  MaxP95,      \* no report is larger: push() drops transits of 2 s and more
  Headroom,    \* DefaultHeadroomMs
  MinDelay,    \* MinGlobalDelayMs
  MaxDelay,    \* MaxGlobalDelayMs
  Threshold,   \* ReBroadcastThresholdMs
  DownStep,    \* the most one recalculation lowers the delay
  Resolution,  \* smaller changes of the delay are ignored: 0.5 ms rounded up
  IosJitter,   \* IosBgJitterThresholdMs
  IosFrame,    \* IosBgFrameMs
  Frame,       \* normal frame size
  MaxChanges   \* bound: changes of the delay in one behaviour

ASSUME ReportAssumption == MaxP95 \in Nat /\ P95 \subseteq 0..MaxP95
ASSUME DelayAssumption ==
  /\ Headroom \in Nat /\ MinDelay \in Nat /\ MaxDelay \in Nat
  /\ MinDelay <= MaxDelay
ASSUME StepAssumption ==
  Threshold \in Nat /\ DownStep \in Nat /\ Resolution \in Nat \ {0}
ASSUME FrameAssumption == IosJitter \in Nat /\ IosFrame # Frame

NoReport == -1

VARIABLES
  stage,        \* how far the handler of each client is
  reports,      \* LatencyEqualizer.reports
  globalDelay,  \* LatencyEqualizer.globalDelay
  change,       \* how often globalDelay has changed
  pending,      \* messages whose broadcaster goroutine has not run
  sends,        \* <<client, message>> of the goroutines about to call Send
  greeting,     \* the message a handler has built for its joining client
  target,       \* the last message written to each client
  frameMs       \* ClientStream.FrameSize

vars == <<stage, reports, globalDelay, change, pending, sends, greeting,
          target, frameMs>>
delivery == <<pending, sends, greeting, target>>

\* "joining": in the session, not yet told the delay; "greeting": the delay is
\* read but not sent; "greeted": sent, WriteFunc still nil; "ready": in the
\* read loop; "leaving": out of the session; "gone": out of the equalizer.
Stage == {"out", "joining", "greeting", "greeted", "ready", "leaving", "gone"}
InSession(c) == stage[c] \in {"joining", "greeting", "greeted", "ready"}

Message == [n : Nat, ms : Int]
Current == [n |-> change, ms |-> globalDelay]
NoMessage == [n |-> 0, ms |-> 0]

Init ==
  /\ stage       = [c \in Clients |-> "out"]
  /\ reports     = [c \in Clients |-> NoReport]
  /\ globalDelay = MinDelay
  /\ change      = 0
  /\ pending     = {}
  /\ sends       = {}
  /\ greeting    = [c \in Clients |-> NoMessage]
  /\ target      = [c \in Clients |-> NoMessage]
  /\ frameMs     = [c \in Clients |-> Frame]

-----------------------------------------------------------------------------
(* The computation of the delay. *)

Distance(a, b) == IF a < b THEN b - a ELSE a - b

\* Mutant of Clamp: the upper limit is forgotten.
ClampBelow(ms) == IF ms < MinDelay THEN MinDelay ELSE ms

Clamp(ms) ==
  IF ms < MinDelay THEN MinDelay ELSE IF ms > MaxDelay THEN MaxDelay ELSE ms

Reported(rep) == {rep[c] : c \in Clients} \ {NoReport}

\* The loop over the reports starts from 0.
MaxReport(rep) == Max(Reported(rep) \cup {0})

\* The delay that the reports call for.
Needed(rep) == Clamp(MaxReport(rep) + Headroom)

\* Mutant of Eased: no hysteresis.
NotEased(ms) == ms

\* Mutant of Eased: the step also limits the way up.
EasedBothWays(ms) ==
  IF ms < globalDelay /\ globalDelay - ms > DownStep
    THEN globalDelay - DownStep
  ELSE IF ms > globalDelay + DownStep THEN globalDelay + DownStep ELSE ms

\* Up at once, down by at most DownStep.
Eased(ms) ==
  IF ms < globalDelay /\ globalDelay - ms > DownStep
    THEN globalDelay - DownStep ELSE ms

\* recalculate: the delay after the reports have become rep.
Recalculated(rep) ==
  LET new == Eased(Needed(rep)) IN
  IF Reported(rep) = {} \/ Distance(new, globalDelay) < Resolution
    THEN globalDelay ELSE new

\* A changed delay is handed to a new broadcaster goroutine.
SetDelay(ms) ==
  /\ globalDelay' = ms
  /\ IF ms = globalDelay
       THEN UNCHANGED <<change, pending>>
       ELSE /\ change < MaxChanges
            /\ change' = change + 1
            /\ pending' = pending \cup {[n |-> change + 1, ms |-> ms]}

\* The change from the client's previous report, if any, is large enough.
Significant(c, ms) ==
  reports[c] = NoReport \/ Distance(ms, reports[c]) >= Threshold

\* Mutant of FrameAfter: the threshold is taken for the frame size.
FrameOfThreshold(c, ms) ==
  IF ms > IosJitter THEN IosJitter
  ELSE IF reports[c] > IosJitter THEN Frame
  ELSE frameMs[c]

\* The frame size after a significant report.
FrameAfter(c, ms) ==
  IF ms > IosJitter THEN IosFrame
  ELSE IF reports[c] > IosJitter THEN Frame
  ELSE frameMs[c]

\* ReportJitter stores the report whether or not it is significant.  A client
\* out of the session may have a report left in its connection.
ReportJitter(c, ms) ==
  /\ stage[c] \in {"ready", "leaving"}
  /\ reports' = [reports EXCEPT ![c] = ms]
  /\ IF Significant(c, ms)
       THEN /\ SetDelay(Recalculated(reports'))
            /\ frameMs' = [frameMs EXCEPT ![c] = FrameAfter(c, ms)]
       ELSE UNCHANGED <<globalDelay, change, pending, frameMs>>
  /\ UNCHANGED <<stage, sends, greeting, target>>

\* Mutant of RemoveClient: recalculates before it drops the report.
RemoveClientLate(c) ==
  /\ stage[c] = "leaving"
  /\ stage' = [stage EXCEPT ![c] = "gone"]
  /\ reports' = [reports EXCEPT ![c] = NoReport]
  /\ SetDelay(Recalculated(reports))
  /\ UNCHANGED <<sends, greeting, target, frameMs>>

\* RemoveClient drops the report and recalculates over the others.
RemoveClient(c) ==
  /\ stage[c] = "leaving"
  /\ stage' = [stage EXCEPT ![c] = "gone"]
  /\ reports' = [reports EXCEPT ![c] = NoReport]
  /\ SetDelay(Recalculated(reports'))
  /\ UNCHANGED <<sends, greeting, target, frameMs>>

-----------------------------------------------------------------------------
(* The connection handler, as far as the delay is concerned. *)

Move(c, from, to) == stage[c] = from /\ stage' = [stage EXCEPT ![c] = to]

Join(c) ==
  /\ Move(c, "out", "joining")
  /\ UNCHANGED <<reports, globalDelay, change, delivery, frameMs>>

\* handleConnection evaluates LatencyEq.GlobalDelay() ...
ReadDelay(c) ==
  /\ Move(c, "joining", "greeting")
  /\ greeting' = [greeting EXCEPT ![c] = Current]
  /\ UNCHANGED <<reports, globalDelay, change, pending, sends, target, frameMs>>

\* ... and writes it to the connection.
SendGreeting(c) ==
  /\ Move(c, "greeting", "greeted")
  /\ target' = [target EXCEPT ![c] = greeting[c]]
  /\ greeting' = [greeting EXCEPT ![c] = NoMessage]
  /\ UNCHANGED <<reports, globalDelay, change, pending, sends, frameMs>>

\* clientReadLoop stores safeWrite in Client.WriteFunc.
SetWriteFunc(c) ==
  /\ Move(c, "greeted", "ready")
  /\ UNCHANGED <<reports, globalDelay, change, delivery, frameMs>>

\* The client leaves the session and its connection is closed.
Leave(c) ==
  /\ Move(c, "ready", "leaving")
  /\ UNCHANGED <<reports, globalDelay, change, delivery, frameMs>>

\* A broadcaster goroutine: BroadcastToAll starts one goroutine per client.
BroadcastToAll(m) ==
  /\ m \in pending
  /\ pending' = pending \ {m}
  /\ sends' = sends \cup ({c \in Clients : InSession(c)} \X {m})
  /\ UNCHANGED <<stage, reports, globalDelay, change, greeting, target, frameMs>>

\* Client.Send: written if there is a WriteFunc and the connection is open.
Send(c, m) ==
  /\ <<c, m>> \in sends
  /\ sends' = sends \ {<<c, m>>}
  /\ target' = IF stage[c] = "ready" THEN [target EXCEPT ![c] = m] ELSE target
  /\ UNCHANGED <<stage, reports, globalDelay, change, pending, greeting, frameMs>>

Next ==
  \/ \E c \in Clients :
       \/ Join(c) \/ ReadDelay(c) \/ SendGreeting(c) \/ SetWriteFunc(c)
       \/ Leave(c) \/ RemoveClient(c)
       \/ \E ms \in P95 : ReportJitter(c, ms)
  \/ \E m \in pending : BroadcastToAll(m)
  \/ \E s \in sends : Send(s[1], s[2])

Spec == Init /\ [][Next]_vars

-----------------------------------------------------------------------------
(* Properties. *)

\* Every variable has its type (LatencyEqualizer's fields, the goroutines in
\* flight, what clients were told).
TypeOK ==
  /\ stage \in [Clients -> Stage]
  /\ reports \in [Clients -> P95 \cup {NoReport}]
  /\ globalDelay \in Int
  /\ change \in Nat
  /\ pending \subseteq Message
  /\ sends \subseteq Clients \X Message
  /\ greeting \in [Clients -> Message]
  /\ target \in [Clients -> Message]
  /\ frameMs \in [Clients -> {Frame, IosFrame}]

\* No client is ever told to buffer less than MinGlobalDelayMs or more than
\* MaxGlobalDelayMs, however the delay was eased and whichever message reached
\* it last (recalculate clamps before it eases).
ToldInRange ==
  /\ globalDelay \in MinDelay..MaxDelay
  /\ \A c \in Clients : target[c].n > 0 => target[c].ms \in MinDelay..MaxDelay

\* The delay never drops by more than 2 ms at a time, also when the client
\* that needed it most leaves: "to prevent massive audio skips" (latency.go:174).
GentleDecrease == [][globalDelay' >= globalDelay - DownStep]_globalDelay

\* A report that is new or differs by the threshold leaves a delay that covers
\* the reports of all clients, those ignored before as insignificant included.
SignificantReportIsCovered ==
  [][\A c \in Clients :
       (reports[c] # reports'[c] /\ reports'[c] # NoReport /\
          Significant(c, reports'[c]))
         => globalDelay' > Needed(reports') - Resolution]_vars

\* Nobody raises the delay without need: when it goes up, it goes to exactly
\* what the reports of the connected clients call for.
RaiseIsExact ==
  [][globalDelay' > globalDelay => globalDelay' = Needed(reports')]_vars

\* "This value is broadcast to every client ... ensuring all devices share the
\* same playback timeline anchor" (latency.go:9): when nothing is in flight,
\* every client in the read loop was last told the current delay.
SharedAnchor ==
  pending = {} /\ sends = {} =>
    \A c \in Clients : stage[c] = "ready" => target[c].ms = globalDelay
=============================================================================
