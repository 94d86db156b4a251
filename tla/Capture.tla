------------------------------ MODULE Capture ------------------------------
(***************************************************************************)
(* The audio path up to the encoder: the WASAPI capture thread, which      *)
(* copies packets of the sound device into a ring                          *)
(* (internal/capture/wasapi_windows.go), the audio pipeline, which reads   *)
(* frames from the ring and gives each a timestamp                         *)
(* (cmd/soundswarm-server/main.go, runAudioPipeline), and main, which      *)
(* starts both and stops the capture when the server shuts down.           *)
(*                                                                         *)
(* A sample is named by its ordinal among the samples written to the ring, *)
(* so what a frame contains shows in which order it was read.  Time and    *)
(* samples share a unit, the duration of a sample: a frame of FrameLen     *)
(* samples lasts FrameLen units.  The device delivers in packets, one a    *)
(* period, unless it pauses because nothing is playing.                    *)
(*                                                                         *)
(* The ring's mutex is held by the pipeline while rpc is "park" or "take"; *)
(* the critical section of the capture thread is one step.                 *)
(***************************************************************************)
EXTENDS Integers

CONSTANTS
  RingSize,    \* ringSize: two seconds of samples
  PacketLen,   \* samples in a packet of the device
  FrameLen,    \* samples in a frame of the pipeline
  Snap,        \* 100 ms: a stamp further from the clock is moved to it
  Drift,       \* 5 ms: a stamp further from the clock is slewed
  Slew,        \* 20 us: by this much per frame
  MaxTime      \* bound: the clock stops here

ASSUME LengthAssumption ==
  /\ RingSize \in Nat \ {0} /\ PacketLen \in Nat \ {0} /\ FrameLen \in Nat \ {0}
ASSUME StampAssumption ==
  /\ Snap \in Nat /\ Drift \in Nat /\ Slew \in Nat
  /\ Drift <= Snap /\ Slew <= FrameLen + Snap
ASSUME BoundAssumption == MaxTime \in Nat

VARIABLES
  now,         \* ServerTimeNow(), taken to be steady
  packets,     \* packets waiting in the device
  running,     \* WASAPICapture.running
  client,      \* the COM objects are held (captureClient # 0)
  ring, write, read,  \* ringBuf, ringWrite, ringRead
  spc,         \* where main is
  cancelled,   \* ctx.Done()
  cpc,         \* where captureLoop is
  rpc,         \* where runAudioPipeline is
  frame,       \* interleavedBuf
  base,        \* pipelineStartUs
  total,       \* totalSamplesProcessed
  stamp        \* captureTs of the last frame handed to the encoder

device   == <<now, packets>>
buffer   == <<ring, write>>
clock    == <<base, total, stamp>>
pipeline == <<rpc, read, frame, clock>>
main     == <<spc, cancelled, running, client>>
vars     == <<device, buffer, pipeline, main, cpc>>

Slots == 0..RingSize - 1

Init ==
  /\ now = 0 /\ packets = 0
  /\ ring = [s \in Slots |-> -1] /\ write = 0 /\ read = 0
  /\ running = FALSE /\ client = FALSE
  /\ spc = "start" /\ cancelled = FALSE
  /\ cpc = "off" /\ rpc = "off"
  /\ frame = [i \in 1..FrameLen |-> -1]
  /\ base = 0 /\ total = 0 /\ stamp = 0

-----------------------------------------------------------------------------
(* The sound device (Windows): a started client receives a packet a period *)
(* while something plays.                                                  *)

Elapse ==
  /\ now + PacketLen <= MaxTime
  /\ now' = now + PacketLen
  /\ \/ client /\ packets' = packets + 1
     \/ UNCHANGED packets
  /\ UNCHANGED <<buffer, pipeline, main, cpc>>

-----------------------------------------------------------------------------
(* main: Start, the pipeline's goroutine, and the deferred calls.          *)

\* One of the COM calls fails: main exits.
StartFails ==
  /\ spc = "start"
  /\ spc' = "exited"
  /\ UNCHANGED <<device, buffer, pipeline, cancelled, running, client, cpc>>

\* The client is started, running is set and the capture thread launched.
Start ==
  /\ spc = "start"
  /\ spc' = "started" /\ running' = TRUE /\ client' = TRUE
  /\ cpc' = "init"
  /\ UNCHANGED <<device, buffer, pipeline, cancelled>>

\* The pipeline is anchored to the clock once, before its loop.
StartPipeline ==
  /\ spc = "started"
  /\ spc' = "serving" /\ rpc' = "top" /\ base' = now
  /\ UNCHANGED <<device, buffer, read, frame, total, stamp, cancelled, running, client, cpc>>

\* A signal arrives: the deferred cancel() runs before the deferred Stop().
ShutDown ==
  /\ spc = "serving"
  /\ spc' = "swap" /\ cancelled' = TRUE
  /\ UNCHANGED <<device, buffer, pipeline, running, client, cpc>>

StopSwap ==
  /\ spc = "swap"
  /\ spc' = "broadcast" /\ running' = FALSE
  /\ UNCHANGED <<device, buffer, pipeline, cancelled, client, cpc>>

Awoken(pc) == IF pc = "wait" THEN "test" ELSE pc

\* Mutant of StopBroadcast: blocked readers are not signalled.
StopSilent ==
  /\ spc = "broadcast"
  /\ spc' = "join"
  /\ UNCHANGED <<device, buffer, pipeline, cancelled, running, client, cpc>>

\* The ring's mutex is not taken: the pipeline may be between its test and
\* its wait, and then it is not among the waiters.
StopBroadcast ==
  /\ spc = "broadcast"
  /\ spc' = "join" /\ rpc' = Awoken(rpc)
  /\ UNCHANGED <<device, buffer, read, frame, clock, cancelled, running, client, cpc>>

\* Mutant of StopJoin: the COM objects are released under the capture thread.
StopNoJoin ==
  /\ spc = "join"
  /\ spc' = "stopped" /\ client' = FALSE
  /\ UNCHANGED <<device, buffer, pipeline, cancelled, running, cpc>>

\* wg.Wait, then the COM objects are released.
StopJoin ==
  /\ spc = "join" /\ cpc = "off"
  /\ spc' = "stopped" /\ client' = FALSE
  /\ UNCHANGED <<device, buffer, pipeline, cancelled, running, cpc>>

-----------------------------------------------------------------------------
(* captureLoop and processCaptureBuffer.                                   *)

\* COM may refuse the thread: it ends at once and the ring stays empty.
CaptureInit ==
  /\ cpc = "init"
  /\ cpc' \in {"off", "loop"}
  /\ UNCHANGED <<device, buffer, pipeline, main>>

\* Mutant of CaptureLoop: the loop does not test running.
CaptureForever ==
  /\ cpc = "loop"
  /\ cpc' = "event"
  /\ UNCHANGED <<device, buffer, pipeline, main>>

CaptureLoop ==
  /\ cpc = "loop"
  /\ cpc' = IF running THEN "event" ELSE "off"
  /\ UNCHANGED <<device, buffer, pipeline, main>>

\* WaitForSingleObject: the device's event or its time out of a second.
CaptureEvent ==
  /\ cpc = "event"
  /\ cpc' = "packet"
  /\ UNCHANGED <<device, buffer, pipeline, main>>

CapturePacket ==
  /\ cpc = "packet"
  /\ cpc' = IF running /\ client THEN "fetch" ELSE "loop"
  /\ UNCHANGED <<device, buffer, pipeline, main>>

\* GetNextPacketSize and GetBuffer, each of which may fail.
CaptureFetch ==
  /\ cpc = "fetch"
  /\ \/ packets > 0 /\ cpc' = "copy"
     \/ cpc' = "loop"
  /\ UNCHANGED <<device, buffer, pipeline, main>>

\* The ordinals that the packet leaves in slot s.
Landed(s) ==
  {k \in write..write + PacketLen - 1 :
     k % RingSize = s /\ write + PacketLen - k <= RingSize}

\* Mutant of Filled: the copy stops at the end of the ring.
FilledToEnd == [s \in Slots |->
  IF \E k \in Landed(s) : k \div RingSize = write \div RingSize
  THEN CHOOSE k \in Landed(s) : TRUE ELSE ring[s]]

\* The writer does not look at ringRead: it may lap the reader.
Filled == [s \in Slots |->
  IF Landed(s) = {} THEN ring[s] ELSE CHOOSE k \in Landed(s) : TRUE]

RingFree == rpc \notin {"park", "take"}

\* Mutant of CaptureCopy: the reader is not signalled.
CaptureCopySilent ==
  /\ cpc = "copy" /\ RingFree
  /\ cpc' = "release"
  /\ ring' = Filled /\ write' = write + PacketLen
  /\ UNCHANGED <<device, pipeline, main>>

\* Under the ring's mutex: write the samples (zeros for a silent packet),
\* signal the reader.
CaptureCopy ==
  /\ cpc = "copy" /\ RingFree
  /\ cpc' = "release"
  /\ ring' = Filled /\ write' = write + PacketLen
  /\ rpc' = Awoken(rpc)
  /\ UNCHANGED <<device, read, frame, clock, main>>

CaptureRelease ==
  /\ cpc = "release"
  /\ cpc' = "packet" /\ packets' = packets - 1
  /\ UNCHANGED <<now, buffer, pipeline, main>>

-----------------------------------------------------------------------------
(* runAudioPipeline and Read.                                              *)

PipelineTop ==
  /\ rpc = "top"
  /\ rpc' = IF cancelled THEN "done" ELSE "enter"
  /\ UNCHANGED <<device, buffer, read, frame, clock, main, cpc>>

ReadEnter ==
  /\ rpc = "enter"
  /\ rpc' = IF running THEN "test" ELSE "sleep"
  /\ UNCHANGED <<device, buffer, read, frame, clock, main, cpc>>

Available == write - read

\* Mutant of ReadTest: an error in the test, a frame is taken that is not
\* all there.
ReadTestShort ==
  /\ rpc = "test"
  /\ rpc' = IF Available + 1 < FrameLen /\ running THEN "park" ELSE "take"
  /\ UNCHANGED <<device, buffer, read, frame, clock, main, cpc>>

\* The ring's mutex is taken and the loop's condition evaluated.
ReadTest ==
  /\ rpc = "test"
  /\ rpc' = IF Available < FrameLen /\ running THEN "park" ELSE "take"
  /\ UNCHANGED <<device, buffer, read, frame, clock, main, cpc>>

\* Wait joins the waiters and gives the mutex up.
ReadWait ==
  /\ rpc = "park"
  /\ rpc' = "wait"
  /\ UNCHANGED <<device, buffer, read, frame, clock, main, cpc>>

\* running is loaded again: "capture stopped", or the frame is copied.
ReadTake ==
  /\ rpc = "take"
  /\ \/ /\ ~running
        /\ rpc' = "sleep" /\ UNCHANGED <<read, frame>>
     \/ /\ running
        /\ rpc' = "stamp" /\ read' = read + FrameLen
        /\ frame' = [i \in 1..FrameLen |-> ring[(read + i - 1) % RingSize]]
  /\ UNCHANGED <<device, buffer, clock, main, cpc>>

\* The pause after an error of Read.
PipelineBackoff ==
  /\ rpc = "sleep"
  /\ rpc' = "top"
  /\ UNCHANGED <<device, buffer, read, frame, clock, main, cpc>>

\* Mutant of StampFrame: the test for a large gap forgets negative ones.
StampOneSided ==
  LET ts    == base + total
      delta == now - ts
  IN /\ rpc = "stamp"
     /\ rpc' = "top" /\ total' = total + FrameLen
     /\ stamp' = IF delta > Snap THEN ts + delta ELSE ts
     /\ base' = base + (IF delta > Snap THEN delta
                        ELSE IF delta > Drift THEN Slew
                        ELSE IF delta < -Drift THEN -Slew ELSE 0)
     /\ UNCHANGED <<device, buffer, read, frame, main, cpc>>

\* Mutant of StampFrame: the sign of the snap is wrong.
StampWrongWay ==
  LET ts    == base + total
      delta == now - ts
      far   == delta > Snap \/ delta < -Snap
  IN /\ rpc = "stamp"
     /\ rpc' = "top" /\ total' = total + FrameLen
     /\ stamp' = IF far THEN ts - delta ELSE ts
     /\ base' = base + (IF far THEN -delta
                        ELSE IF delta > Drift THEN Slew
                        ELSE IF delta < -Drift THEN -Slew ELSE 0)
     /\ UNCHANGED <<device, buffer, read, frame, main, cpc>>

\* The stamp is the anchor plus the samples read so far, corrected by the
\* clock; the frame then goes to the encoder and the broadcast.
StampFrame ==
  LET ts    == base + total
      delta == now - ts
      far   == delta > Snap \/ delta < -Snap
  IN /\ rpc = "stamp"
     /\ rpc' = "top" /\ total' = total + FrameLen
     /\ stamp' = IF far THEN ts + delta ELSE ts
     /\ base' = base + (IF far THEN delta
                        ELSE IF delta > Drift THEN Slew
                        ELSE IF delta < -Drift THEN -Slew ELSE 0)
     /\ UNCHANGED <<device, buffer, read, frame, main, cpc>>

-----------------------------------------------------------------------------
MainStep    == StopSwap \/ StopBroadcast \/ StopJoin
CaptureStep == \/ CaptureInit \/ CaptureLoop \/ CaptureEvent \/ CapturePacket
               \/ CaptureFetch \/ CaptureCopy \/ CaptureRelease
PipelineStep == \/ PipelineTop \/ ReadEnter \/ ReadTest \/ ReadWait \/ ReadTake
                \/ PipelineBackoff \/ StampFrame

Next == \/ Elapse \/ StartFails \/ Start \/ StartPipeline \/ ShutDown
        \/ MainStep \/ CaptureStep \/ PipelineStep

\* The goroutines are scheduled; neither sound nor a signal need ever come.
Fairness == WF_vars(MainStep) /\ WF_vars(CaptureStep) /\ WF_vars(PipelineStep)

Spec == Init /\ [][Next]_vars /\ Fairness

-----------------------------------------------------------------------------
(* Properties.                                                             *)

\* Every variable has its type, and the counters of the ring never cross.
TypeOK ==
  /\ now \in Nat /\ packets \in Nat
  /\ running \in BOOLEAN /\ client \in BOOLEAN /\ cancelled \in BOOLEAN
  /\ write \in Nat /\ read \in Nat /\ read <= write
  /\ ring \in [Slots -> Int] /\ frame \in [1..FrameLen -> Int]
  /\ spc \in {"start", "exited", "started", "serving", "swap", "broadcast", "join", "stopped"}
  /\ cpc \in {"off", "init", "loop", "event", "packet", "fetch", "copy", "release"}
  /\ rpc \in {"off", "top", "enter", "test", "park", "wait", "take", "sleep", "stamp", "done"}
  /\ base \in Int /\ total \in Nat /\ stamp \in Int

\* The COM objects are released only after the capture thread has ended
\* (Stop waits for it "to prevent Use-After-Free").
NoUseAfterRelease == ~client => cpc = "off"

\* A pipeline that sleeps in Read, or has decided to, has no frame to take:
\* every packet written meanwhile wakes it.
NoSleepOnData == rpc \in {"park", "wait"} => Available < FrameLen

\* A frame that was read before the writer lapped it holds the samples that
\* follow those of the frame before it, each once and in order.
FrameIntact ==
  rpc = "stamp" /\ write - (read - FrameLen) <= RingSize =>
    \A i \in 1..FrameLen : frame[i] = read - FrameLen + i - 1

\* No frame is stamped more than 100 ms ahead of the server's clock, however
\* late the pipeline is and however fast it catches up.
NotAhead == stamp <= now + Snap

\* The stamp of a frame is never more than 100 ms before the one of the frame
\* before it, whatever pauses of the device and of the pipeline precede it.
StepBackBounded ==
  [][total > 0 /\ stamp' # stamp => stamp' >= stamp - Snap]_vars

\* Stop always returns: the capture thread does not outlive running.
StopReturns == spc = "swap" ~> spc = "stopped"

\* A pipeline that waits in Read when Stop signals blocked readers ends.
WaiterEnds == (spc = "broadcast" /\ rpc = "wait") ~> rpc = "done"
=============================================================================
