--------------------------- MODULE CaptureProofs ---------------------------
(***************************************************************************)
(* Safety of Capture for every ring, packet and frame size and every       *)
(* threshold.  IInv adds to the properties what each step needs: how many  *)
(* packets a fetch has seen, what a reader that holds the mutex knows, and *)
(* where the anchor of the timestamps is.                                  *)
(***************************************************************************)
EXTENDS Capture, TLAPS

\* Before the pipeline starts it has stamped nothing.
NotStarted == spc \in {"start", "started"} => rpc = "off" /\ total = 0

\* The capture thread copies and gives back a packet that is there.
PacketHeld == cpc \in {"copy", "release"} => packets > 0

\* A reader past its wait has a frame to take, unless the capture stopped.
TakeSafe == rpc = "take" => Available >= FrameLen \/ ~running

\* The last RingSize samples written are in the ring.
RingInv ==
  \A k \in Nat : k < write /\ write - k <= RingSize => ring[k % RingSize] = k

\* The stamp of the next frame, unless it snaps, is not far behind the last.
Anchored == total > 0 => base + total >= stamp + FrameLen - Slew

IInv == /\ TypeOK
        /\ NotStarted /\ PacketHeld /\ TakeSafe
        /\ RingInv /\ FrameIntact
        /\ NoUseAfterRelease /\ NoSleepOnData
        /\ NotAhead /\ Anchored

-----------------------------------------------------------------------------
\* Two ordinals less than a ring apart are in different slots.
LEMMA SlotDistinct ==
  ASSUME NEW N \in Nat \ {0}, NEW a \in Nat, NEW b \in Nat,
         a % N = b % N, a < b
  PROVE  b - a >= N
<1>1. a = N * (a \div N) + (a % N) /\ b = N * (b \div N) + (b % N)
  OBVIOUS
<1>2. a \div N \in Int /\ b \div N \in Int
  OBVIOUS
<1>3. b - a = N * (b \div N) - N * (a \div N)
  BY <1>1, <1>2
<1>4. b - a = N * ((b \div N) - (a \div N))
  BY <1>2, <1>3
<1>5. (b \div N) - (a \div N) >= 1
  <2>1. ASSUME (b \div N) - (a \div N) <= 0 PROVE FALSE
    BY <1>2, <1>4, <2>1
  <2> QED  BY <1>2, <2>1
<1> QED
  BY <1>2, <1>4, <1>5

\* The slot of an ordinal is a slot.
LEMMA SlotOf ==
  ASSUME NEW k \in Nat
  PROVE  k % RingSize \in Slots
BY LengthAssumption DEF Slots

\* Two ordinals of the last RingSize written are less than a ring apart.
LEMMA Within ==
  ASSUME NEW w \in Nat, NEW n \in Nat, NEW a \in Nat, NEW b \in Nat,
         a < w, w - b <= n
  PROVE  a - b < n
OBVIOUS

LEMMA InitIInv == Init => IInv
<1> SUFFICES ASSUME Init PROVE IInv
  OBVIOUS
<1>1. TypeOK
  <2>1. ring \in [Slots -> Int] /\ frame \in [1..FrameLen -> Int]
    BY DEF Init
  <2>2. running \in BOOLEAN /\ client \in BOOLEAN /\ cancelled \in BOOLEAN
    BY Zenon DEF Init
  <2> QED
    BY <2>1, <2>2 DEF Init, TypeOK
<1>2. RingInv
  BY DEF Init, RingInv
<1> QED
  BY <1>1, <1>2, StampAssumption
  DEF Init, IInv, NotStarted, PacketHeld, TakeSafe, FrameIntact, NoUseAfterRelease,
      NoSleepOnData, NotAhead, Anchored

-----------------------------------------------------------------------------
\* What the capture thread's copy leaves in the ring.
LEMMA CopyRing ==
  ASSUME TypeOK, RingInv, CaptureCopy
  PROVE  /\ ring' \in [Slots -> Int]
         /\ RingInv'
<1>1. write \in Nat /\ write' = write + PacketLen /\ ring' = Filled
  BY DEF TypeOK, CaptureCopy
<1>2. \A s \in Slots : Landed(s) # {} =>
        (CHOOSE k \in Landed(s) : TRUE) \in Landed(s)
  OBVIOUS
<1>3. \A s \in Slots : Landed(s) \subseteq Nat
  BY <1>1, LengthAssumption DEF Landed
<1>4. ring' \in [Slots -> Int]
  BY <1>1, <1>2, <1>3 DEF Filled, TypeOK
<1>5. ASSUME NEW k \in Nat, k < write', write' - k <= RingSize
      PROVE  ring'[k % RingSize] = k
  <2> DEFINE s == k % RingSize
  <2>1. s \in Slots
    BY SlotOf
  <2>2. \A j \in Landed(s) :
          /\ j \in Nat /\ write <= j /\ j < write'
          /\ j % RingSize = k % RingSize /\ write' - j <= RingSize
    BY <1>1, <2>1, LengthAssumption DEF Landed
  <2>3. \A j \in Landed(s) : j = k
    <3>1. SUFFICES ASSUME NEW j \in Landed(s), j # k PROVE FALSE
      OBVIOUS
    <3>2. j \in Nat /\ j < write' /\ write' - j <= RingSize
      BY <2>2
    <3>3. j % RingSize = k % RingSize
      BY <2>2
    <3>4. write' \in Nat
      BY <1>1, LengthAssumption
    <3>5. k - j < RingSize /\ j - k < RingSize
      <4>1. RingSize \in Nat
        BY LengthAssumption
      <4>2. k < write' /\ write' - k <= RingSize
        BY <1>5
      <4>3. k - j < RingSize
        BY <3>2, <3>4, <4>1, <4>2, Within
      <4>4. j - k < RingSize
        BY <3>2, <3>4, <4>1, <4>2, Within
      <4> QED  BY <4>3, <4>4
    <3>6. CASE j < k
      <4>1. k - j >= RingSize
        BY <3>2, <3>3, <3>6, SlotDistinct, LengthAssumption
      <4> QED  BY <3>2, <3>5, <4>1, LengthAssumption
    <3>7. CASE k < j
      <4>1. j - k >= RingSize
        BY <3>2, <3>3, <3>7, SlotDistinct, LengthAssumption
      <4> QED  BY <3>2, <3>5, <4>1, LengthAssumption
    <3> QED
      BY <3>1, <3>2, <3>6, <3>7
  <2>4. CASE k >= write
    <3>1. k \in Landed(s)
      BY <2>4, <1>1, <1>5, LengthAssumption DEF Landed
    <3> QED
      BY <3>1, <2>1, <2>3, <1>1, <1>2 DEF Filled
  <2>5. CASE k < write
    <3>1. Landed(s) = {}
      BY <2>2, <2>3, <2>5, <1>1
    <3>2. ring'[s] = ring[s]
      BY <3>1, <2>1, <1>1 DEF Filled
    <3>3. write - k <= RingSize
      BY <1>1, <1>5, LengthAssumption
    <3> QED
      BY <3>2, <3>3, <2>5 DEF RingInv
  <2> QED
    BY <2>4, <2>5, <1>1
<1> QED
  BY <1>4, <1>5 DEF RingInv

\* What a frame holds when it has been copied.
LEMMA TakenFrame ==
  ASSUME TypeOK, TakeSafe, RingInv, ReadTake
  PROVE  /\ read' \in Nat /\ read' <= write
         /\ frame' \in [1..FrameLen -> Int]
         /\ FrameIntact'
<1>0. RingSize \in Nat \ {0} /\ FrameLen \in Nat \ {0} /\ read \in Nat /\ write \in Nat
  BY LengthAssumption DEF TypeOK
<1>1. CASE ~running
  BY <1>0, <1>1 DEF ReadTake, TypeOK, FrameIntact
<1>2. CASE running
  <2>1. /\ read' = read + FrameLen /\ read + FrameLen <= write /\ write' = write
        /\ frame' = [i \in 1..FrameLen |-> ring[(read + i - 1) % RingSize]]
    BY <1>0, <1>2 DEF ReadTake, TakeSafe, Available, buffer, TypeOK
  <2>2. \A i \in 1..FrameLen : read + i - 1 \in Nat /\ read + i - 1 < write
    BY <1>0, <2>1
  <2>3. frame' \in [1..FrameLen -> Int]
    <3>1. \A i \in 1..FrameLen : ring[(read + i - 1) % RingSize] \in Int
      BY <2>2, SlotOf DEF TypeOK
    <3> QED  BY <2>1, <3>1
  <2>4. ASSUME write - read <= RingSize, NEW i \in 1..FrameLen
        PROVE  frame'[i] = read + i - 1
    <3>1. write - (read + i - 1) <= RingSize
      BY <1>0, <2>4
    <3> QED
      BY <2>1, <2>2, <2>4, <3>1 DEF RingInv
  <2>5. FrameIntact'
    <3>1. read' - FrameLen = read
      BY <1>0, <2>1
    <3> QED
      BY <2>1, <2>4, <3>1 DEF FrameIntact
  <2>6. read' \in Nat /\ read' <= write
    <3>1. read' = read + FrameLen /\ read + FrameLen <= write
      BY <2>1
    <3> QED  BY ONLY <3>1, <1>0
  <2> QED
    BY ONLY <2>3, <2>5, <2>6
<1> QED
  BY <1>1, <1>2

\* What the stamping of a frame leaves in the clock.
LEMMA StampedClock ==
  ASSUME TypeOK, NotAhead, StampFrame
  PROVE  /\ base' \in Int /\ total' \in Nat /\ stamp' \in Int
         /\ NotAhead' /\ Anchored'
BY StampAssumption, LengthAssumption
DEF TypeOK, NotAhead, StampFrame, Anchored, device, buffer, main

\* A step that leaves ring and frame alone keeps what is known of them.
LEMMA BufferKept ==
  ASSUME RingInv, FrameIntact, UNCHANGED <<ring, write, read, frame>>,
         rpc' = "stamp" => rpc = "stamp"
  PROVE  RingInv' /\ FrameIntact'
BY DEF RingInv, FrameIntact

LEMMA StepIInv == IInv /\ [Next]_vars => IInv'
<1> SUFFICES ASSUME IInv, [Next]_vars PROVE IInv'
  OBVIOUS
<1>0. /\ TypeOK /\ NotStarted /\ PacketHeld /\ TakeSafe /\ RingInv /\ FrameIntact
      /\ NoUseAfterRelease /\ NoSleepOnData /\ NotAhead /\ Anchored
  BY DEF IInv
<1> DEFINE Rest == NotStarted /\ PacketHeld /\ TakeSafe /\ NoUseAfterRelease
                   /\ NoSleepOnData /\ NotAhead /\ Anchored
<1> USE LengthAssumption, StampAssumption
    DEF TypeOK, NotStarted, PacketHeld, TakeSafe, NoUseAfterRelease, NoSleepOnData,
        NotAhead, Anchored, device, buffer, clock, pipeline, main, Available,
        RingFree, Awoken
<1>1. CASE Elapse
  <2>1. TypeOK'
    BY <1>0, <1>1 DEF Elapse
  <2>2. Rest'
    BY <1>0, <1>1 DEF Elapse
  <2>3. RingInv' /\ FrameIntact'
    BY <1>0, <1>1, BufferKept DEF Elapse
  <2> QED  BY <2>1, <2>2, <2>3 DEF IInv
<1>2. CASE StartFails
  <2>1. TypeOK'
    BY <1>0, <1>2 DEF StartFails
  <2>2. Rest'
    BY <1>0, <1>2 DEF StartFails
  <2>3. RingInv' /\ FrameIntact'
    BY <1>0, <1>2, BufferKept DEF StartFails
  <2> QED  BY <2>1, <2>2, <2>3 DEF IInv
<1>3. CASE Start
  <2>1. TypeOK'
    BY <1>0, <1>3 DEF Start
  <2>2. Rest'
    BY <1>0, <1>3 DEF Start
  <2>3. RingInv' /\ FrameIntact'
    BY <1>0, <1>3, BufferKept DEF Start
  <2> QED  BY <2>1, <2>2, <2>3 DEF IInv
<1>4. CASE StartPipeline
  <2>1. TypeOK'
    BY <1>0, <1>4 DEF StartPipeline
  <2>2. Rest'
    BY <1>0, <1>4 DEF StartPipeline
  <2>3. RingInv' /\ FrameIntact'
    BY <1>0, <1>4, BufferKept DEF StartPipeline
  <2> QED  BY <2>1, <2>2, <2>3 DEF IInv
<1>5. CASE ShutDown
  <2>1. TypeOK'
    BY <1>0, <1>5 DEF ShutDown
  <2>2. Rest'
    BY <1>0, <1>5 DEF ShutDown
  <2>3. RingInv' /\ FrameIntact'
    BY <1>0, <1>5, BufferKept DEF ShutDown
  <2> QED  BY <2>1, <2>2, <2>3 DEF IInv
<1>6. CASE StopSwap
  <2>1. TypeOK'
    BY <1>0, <1>6 DEF StopSwap
  <2>2. Rest'
    BY <1>0, <1>6 DEF StopSwap
  <2>3. RingInv' /\ FrameIntact'
    BY <1>0, <1>6, BufferKept DEF StopSwap
  <2> QED  BY <2>1, <2>2, <2>3 DEF IInv
<1>7. CASE StopBroadcast
  <2>1. TypeOK'
    BY <1>0, <1>7 DEF StopBroadcast
  <2>2. Rest'
    BY <1>0, <1>7 DEF StopBroadcast
  <2>3. RingInv' /\ FrameIntact'
    BY <1>0, <1>7, BufferKept DEF StopBroadcast
  <2> QED  BY <2>1, <2>2, <2>3 DEF IInv
<1>8. CASE StopJoin
  <2>1. TypeOK'
    BY <1>0, <1>8 DEF StopJoin
  <2>2. Rest'
    BY <1>0, <1>8 DEF StopJoin
  <2>3. RingInv' /\ FrameIntact'
    BY <1>0, <1>8, BufferKept DEF StopJoin
  <2> QED  BY <2>1, <2>2, <2>3 DEF IInv
<1>9. CASE CaptureInit
  <2>1. TypeOK'
    BY <1>0, <1>9 DEF CaptureInit
  <2>2. Rest'
    BY <1>0, <1>9 DEF CaptureInit
  <2>3. RingInv' /\ FrameIntact'
    BY <1>0, <1>9, BufferKept DEF CaptureInit
  <2> QED  BY <2>1, <2>2, <2>3 DEF IInv
<1>10. CASE CaptureLoop
  <2>1. TypeOK'
    BY <1>0, <1>10 DEF CaptureLoop
  <2>2. Rest'
    BY <1>0, <1>10 DEF CaptureLoop
  <2>3. RingInv' /\ FrameIntact'
    BY <1>0, <1>10, BufferKept DEF CaptureLoop
  <2> QED  BY <2>1, <2>2, <2>3 DEF IInv
<1>11. CASE CaptureEvent
  <2>1. TypeOK'
    BY <1>0, <1>11 DEF CaptureEvent
  <2>2. Rest'
    BY <1>0, <1>11 DEF CaptureEvent
  <2>3. RingInv' /\ FrameIntact'
    BY <1>0, <1>11, BufferKept DEF CaptureEvent
  <2> QED  BY <2>1, <2>2, <2>3 DEF IInv
<1>12. CASE CapturePacket
  <2>1. TypeOK'
    BY <1>0, <1>12 DEF CapturePacket
  <2>2. Rest'
    BY <1>0, <1>12 DEF CapturePacket
  <2>3. RingInv' /\ FrameIntact'
    BY <1>0, <1>12, BufferKept DEF CapturePacket
  <2> QED  BY <2>1, <2>2, <2>3 DEF IInv
<1>13. CASE CaptureFetch
  <2>1. TypeOK'
    BY <1>0, <1>13 DEF CaptureFetch
  <2>2. Rest'
    BY <1>0, <1>13 DEF CaptureFetch
  <2>3. RingInv' /\ FrameIntact'
    BY <1>0, <1>13, BufferKept DEF CaptureFetch
  <2> QED  BY <2>1, <2>2, <2>3 DEF IInv
<1>14. CASE CaptureCopy
  <2>1. TypeOK'
    BY <1>0, <1>14, CopyRing DEF CaptureCopy
  <2>2. Rest'
    BY <1>0, <1>14, CopyRing DEF CaptureCopy
  <2>3. RingInv' /\ FrameIntact'
    BY <1>0, <1>14, CopyRing DEF CaptureCopy, FrameIntact
  <2> QED  BY <2>1, <2>2, <2>3 DEF IInv
<1>15. CASE CaptureRelease
  <2>1. TypeOK'
    BY <1>0, <1>15 DEF CaptureRelease
  <2>2. Rest'
    BY <1>0, <1>15 DEF CaptureRelease
  <2>3. RingInv' /\ FrameIntact'
    BY <1>0, <1>15, BufferKept DEF CaptureRelease
  <2> QED  BY <2>1, <2>2, <2>3 DEF IInv
<1>16. CASE PipelineTop
  <2>1. TypeOK'
    BY <1>0, <1>16 DEF PipelineTop
  <2>2. Rest'
    BY <1>0, <1>16 DEF PipelineTop
  <2>3. RingInv' /\ FrameIntact'
    BY <1>0, <1>16, BufferKept DEF PipelineTop
  <2> QED  BY <2>1, <2>2, <2>3 DEF IInv
<1>17. CASE ReadEnter
  <2>1. TypeOK'
    BY <1>0, <1>17 DEF ReadEnter
  <2>2. Rest'
    BY <1>0, <1>17 DEF ReadEnter
  <2>3. RingInv' /\ FrameIntact'
    BY <1>0, <1>17, BufferKept DEF ReadEnter
  <2> QED  BY <2>1, <2>2, <2>3 DEF IInv
<1>18. CASE ReadTest
  <2>1. TypeOK'
    BY <1>0, <1>18 DEF ReadTest
  <2>2. Rest'
    BY <1>0, <1>18 DEF ReadTest
  <2>3. RingInv' /\ FrameIntact'
    BY <1>0, <1>18, BufferKept DEF ReadTest
  <2> QED  BY <2>1, <2>2, <2>3 DEF IInv
<1>19. CASE ReadWait
  <2>1. TypeOK'
    BY <1>0, <1>19 DEF ReadWait
  <2>2. Rest'
    BY <1>0, <1>19 DEF ReadWait
  <2>3. RingInv' /\ FrameIntact'
    BY <1>0, <1>19, BufferKept DEF ReadWait
  <2> QED  BY <2>1, <2>2, <2>3 DEF IInv
<1>20. CASE ReadTake
  <2>1. TypeOK'
    BY <1>0, <1>20, TakenFrame DEF ReadTake
  <2>2. Rest'
    BY <1>0, <1>20, TakenFrame DEF ReadTake
  <2>3. RingInv' /\ FrameIntact'
    BY <1>0, <1>20, TakenFrame DEF ReadTake, RingInv
  <2> QED  BY <2>1, <2>2, <2>3 DEF IInv
<1>21. CASE PipelineBackoff
  <2>1. TypeOK'
    BY <1>0, <1>21 DEF PipelineBackoff
  <2>2. Rest'
    BY <1>0, <1>21 DEF PipelineBackoff
  <2>3. RingInv' /\ FrameIntact'
    BY <1>0, <1>21, BufferKept DEF PipelineBackoff
  <2> QED  BY <2>1, <2>2, <2>3 DEF IInv
<1>22. CASE StampFrame
  <2>1. TypeOK'
    BY <1>0, <1>22, StampedClock DEF StampFrame
  <2>2. Rest'
    BY <1>0, <1>22, StampedClock DEF StampFrame
  <2>3. RingInv' /\ FrameIntact'
    BY <1>0, <1>22, BufferKept DEF StampFrame
  <2> QED  BY <2>1, <2>2, <2>3 DEF IInv
<1>23. CASE UNCHANGED vars
  BY <1>0, <1>23 DEF IInv, RingInv, FrameIntact, vars
<1> QED
  BY <1>1, <1>2, <1>3, <1>4, <1>5, <1>6, <1>7, <1>8, <1>9, <1>10, <1>11, <1>12,
     <1>13, <1>14, <1>15, <1>16, <1>17, <1>18, <1>19, <1>20, <1>21, <1>22,
     <1>23
  DEF Next, MainStep, CaptureStep, PipelineStep

-----------------------------------------------------------------------------
\* The inductive invariant holds in every state.
THEOREM Invariance == Spec => []IInv
<1>1. Init => IInv
  BY InitIInv
<1>2. IInv /\ [Next]_vars => IInv'
  BY StepIInv
<1> QED
  BY <1>1, <1>2, PTL DEF Spec

\* Every variable keeps its type; in particular the pipeline never takes more
\* samples than the ring was given, and no packet is given back twice.
THEOREM TypeCorrect == Spec => []TypeOK
<1>1. IInv => TypeOK
  BY DEF IInv
<1> QED
  BY <1>1, Invariance, PTL

\* Stop releases the COM objects only after captureLoop has ended.
THEOREM ReleaseIsSafe == Spec => []NoUseAfterRelease
<1>1. IInv => NoUseAfterRelease
  BY DEF IInv
<1> QED
  BY <1>1, Invariance, PTL

\* No wakeup of the pipeline by a packet is lost.
THEOREM NoDataSleeps == Spec => []NoSleepOnData
<1>1. IInv => NoSleepOnData
  BY DEF IInv
<1> QED
  BY <1>1, Invariance, PTL

\* A frame read before the ring was lapped is intact.
THEOREM FramesIntact == Spec => []FrameIntact
<1>1. IInv => FrameIntact
  BY DEF IInv
<1> QED
  BY <1>1, Invariance, PTL

\* No stamp is more than 100 ms ahead of the clock.
THEOREM NeverAhead == Spec => []NotAhead
<1>1. IInv => NotAhead
  BY DEF IInv
<1> QED
  BY <1>1, Invariance, PTL

\* No stamp is more than 100 ms before the stamp of the frame before it.
THEOREM StepsBackBounded == Spec => StepBackBounded
<1>1. IInv /\ [Next]_vars =>
        [total > 0 /\ stamp' # stamp => stamp' >= stamp - Snap]_vars
  <2> SUFFICES ASSUME IInv, [Next]_vars, total > 0, stamp' # stamp
               PROVE  stamp' >= stamp - Snap
    OBVIOUS
  <2>1. StampFrame
    BY DEF Next, MainStep, CaptureStep, PipelineStep, Elapse, StartFails, Start,
       StartPipeline, ShutDown, StopSwap, StopBroadcast, StopJoin, CaptureInit,
       CaptureLoop, CaptureEvent, CapturePacket, CaptureFetch, CaptureCopy,
       CaptureRelease, PipelineTop, ReadEnter, ReadTest, ReadWait, ReadTake,
       PipelineBackoff, vars, pipeline, clock
  <2>2. TypeOK /\ NotAhead /\ Anchored
    BY DEF IInv
  <2> QED
    BY <2>1, <2>2, StampAssumption, LengthAssumption
    DEF StampFrame, TypeOK, NotAhead, Anchored
<1> QED
  BY <1>1, Invariance, PTL DEF Spec, StepBackBounded

-----------------------------------------------------------------------------
(* Progress of Stop: what StopReturns and WaiterEnds rest on besides the   *)
(* scheduling of the goroutines.                                           *)

Stopping == spc \in {"broadcast", "join", "stopped"}

\* The flags that both threads test are set before the broadcast, and the
\* pipeline was started before them.
Halted ==
  /\ Stopping => ~running /\ cancelled /\ rpc # "off"
  /\ spc \in {"serving", "swap"} => rpc # "off"
  /\ spc = "swap" => cancelled
  /\ spc = "stopped" => cpc = "off"

\* The steps each thread can still take; a fetch may find a last packet.
CaptureLeft ==
  CASE cpc = "off" -> 0 [] cpc = "loop" -> 1 [] cpc \in {"init", "packet"} -> 2
    [] cpc \in {"event", "release"} -> 3 [] cpc = "copy" -> 4 [] cpc = "fetch" -> 5

PipelineLeft ==
  CASE rpc \in {"off", "done"} -> 0 [] rpc = "top" -> 1 [] rpc \in {"sleep", "stamp"} -> 2
    [] rpc \in {"take", "enter"} -> 3 [] rpc = "test" -> 4 [] rpc = "wait" -> 5
    [] rpc = "park" -> 6

\* Every step of a thread brings the end nearer, none puts it off, and no reader
\* goes to sleep but one that was on its way into Wait.
StopAdvances ==
  [][Stopping =>
       /\ Stopping'
       /\ CaptureLeft' <= CaptureLeft /\ PipelineLeft' <= PipelineLeft
       /\ CaptureStep => CaptureLeft' < CaptureLeft
       /\ PipelineStep => PipelineLeft' < PipelineLeft
       /\ rpc' = "wait" => rpc \in {"park", "wait"} /\ ~StopBroadcast]_vars

LEMMA NextHalted == IInv /\ Halted /\ [Next]_vars => Halted'
<1> SUFFICES ASSUME TypeOK, NoUseAfterRelease, Halted, [Next]_vars PROVE Halted'
  BY DEF IInv
<1>1. CASE UNCHANGED vars
  BY <1>1 DEF vars, main, pipeline, Halted, Stopping
<1>2. CASE Elapse \/ StartFails \/ Start \/ StartPipeline \/ ShutDown
  BY <1>2 DEF Elapse, StartFails, Start, StartPipeline, ShutDown, device, buffer,
     pipeline, main, Halted, Stopping
<1>3. CASE MainStep
  BY <1>3 DEF MainStep, StopSwap, StopBroadcast, StopJoin, Awoken, pipeline, Halted, Stopping
<1>4. CASE CaptureStep
  BY <1>4 DEF CaptureStep, CaptureInit, CaptureLoop, CaptureEvent, CapturePacket,
     CaptureFetch, CaptureCopy, CaptureRelease, Awoken, pipeline, main, Halted, Stopping
<1>5. CASE PipelineStep
  BY <1>5 DEF PipelineStep, PipelineTop, ReadEnter, ReadTest, ReadWait, ReadTake,
     PipelineBackoff, StampFrame, main, Halted, Stopping
<1> QED
  BY <1>1, <1>2, <1>3, <1>4, <1>5 DEF Next

LEMMA LeftType == TypeOK => CaptureLeft \in 0..5 /\ PipelineLeft \in 0..6
  BY DEF CaptureLeft, PipelineLeft, TypeOK

\* The broadcast and a packet let a reader go on, nothing else moves it.
LEMMA AwokenLeft ==
  ASSUME TypeOK, rpc' = Awoken(rpc)
  PROVE  PipelineLeft' <= PipelineLeft /\ rpc' # "wait"
  BY DEF TypeOK, Awoken, PipelineLeft

LEMMA CaptureAdvances ==
  ASSUME TypeOK, Halted, Stopping, CaptureStep
  PROVE  /\ UNCHANGED main
         /\ CaptureLeft' < CaptureLeft /\ CaptureLeft' <= CaptureLeft
         /\ PipelineLeft' <= PipelineLeft
         /\ rpc' = rpc \/ rpc' # "wait"
<1>1. ~running
  BY DEF Halted
<1>2. UNCHANGED main
  BY DEF CaptureStep, CaptureInit, CaptureLoop, CaptureEvent, CapturePacket,
     CaptureFetch, CaptureCopy, CaptureRelease, main
<1>3. CaptureLeft' < CaptureLeft /\ CaptureLeft' <= CaptureLeft
  BY <1>1 DEF CaptureStep, CaptureInit, CaptureLoop, CaptureEvent, CapturePacket,
     CaptureFetch, CaptureCopy, CaptureRelease, CaptureLeft
<1>4. rpc' = rpc \/ rpc' = Awoken(rpc)
  BY DEF CaptureStep, CaptureInit, CaptureLoop, CaptureEvent, CapturePacket,
     CaptureFetch, CaptureCopy, CaptureRelease, pipeline
<1>5. CASE rpc' = rpc
  <2>1. PipelineLeft' = PipelineLeft
    BY <1>5 DEF PipelineLeft
  <2> QED
    BY <1>2, <1>3, <1>5, <2>1, LeftType
<1>6. CASE rpc' = Awoken(rpc)
  BY <1>2, <1>3, <1>6, AwokenLeft
<1> QED
  BY <1>4, <1>5, <1>6

LEMMA PipelineAdvances ==
  ASSUME TypeOK, Halted, Stopping, PipelineStep
  PROVE  /\ UNCHANGED <<main, cpc>>
         /\ PipelineLeft' < PipelineLeft /\ PipelineLeft' <= PipelineLeft
         /\ rpc' = "wait" => rpc = "park"
<1>1. ~running /\ cancelled
  BY DEF Halted
<1>2. UNCHANGED <<main, cpc>>
  BY DEF PipelineStep, PipelineTop, ReadEnter, ReadTest, ReadWait, ReadTake,
     PipelineBackoff, StampFrame, main
<1>3. /\ PipelineLeft' < PipelineLeft /\ PipelineLeft' <= PipelineLeft
      /\ (rpc' = "wait" => rpc = "park")
  BY <1>1 DEF PipelineStep, PipelineTop, ReadEnter, ReadTest, ReadWait, ReadTake,
     PipelineBackoff, StampFrame, PipelineLeft
<1> QED
  BY <1>2, <1>3

LEMMA NextAdvances ==
  ASSUME TypeOK, Halted, Stopping, [Next]_vars
  PROVE  /\ Stopping'
         /\ CaptureLeft' <= CaptureLeft /\ PipelineLeft' <= PipelineLeft
         /\ CaptureStep => CaptureLeft' < CaptureLeft
         /\ PipelineStep => PipelineLeft' < PipelineLeft
         /\ rpc' = "wait" => rpc \in {"park", "wait"} /\ ~StopBroadcast
<1>1. StopBroadcast => rpc' # "wait"
  BY AwokenLeft DEF StopBroadcast
<1>2. cpc' = cpc => CaptureLeft' = CaptureLeft
  BY DEF CaptureLeft
<1>3. rpc' = rpc => PipelineLeft' = PipelineLeft
  BY DEF PipelineLeft
<1>4. CaptureLeft \in Int /\ PipelineLeft \in Int
  BY LeftType
<1>5. CASE CaptureStep
  <2>1. Stopping' /\ ~StopBroadcast
    BY <1>5, CaptureAdvances DEF main, Stopping, StopBroadcast
  <2>2. PipelineStep => PipelineLeft' < PipelineLeft
    BY PipelineAdvances
  <2>3. /\ CaptureLeft' < CaptureLeft /\ CaptureLeft' <= CaptureLeft
        /\ PipelineLeft' <= PipelineLeft
        /\ rpc' = rpc \/ rpc' # "wait"
    BY <1>5, CaptureAdvances
  <2> QED
    BY <2>1, <2>2, <2>3
<1>6. CASE PipelineStep
  <2>1. Stopping' /\ ~StopBroadcast
    BY <1>6, PipelineAdvances DEF main, Stopping, StopBroadcast
  <2>2. CaptureStep => CaptureLeft' < CaptureLeft
    BY CaptureAdvances
  <2>3. CaptureLeft' = CaptureLeft
    BY <1>2, <1>6, PipelineAdvances
  <2>4. /\ PipelineLeft' < PipelineLeft /\ PipelineLeft' <= PipelineLeft
        /\ rpc' = "wait" => rpc = "park"
    BY <1>6, PipelineAdvances
  <2>5. CaptureLeft' <= CaptureLeft
    BY <1>4, <2>3
  <2> QED
    BY <2>1, <2>2, <2>4, <2>5
<1>7. ASSUME ~CaptureStep, ~PipelineStep
      PROVE  /\ Stopping' /\ cpc' = cpc
             /\ rpc' = rpc \/ StopBroadcast
  BY <1>7 DEF Next, MainStep, Elapse, StartFails, Start, StartPipeline, ShutDown,
     StopSwap, StopBroadcast, StopJoin, vars, main, pipeline, Stopping
<1>8. CASE ~CaptureStep /\ ~PipelineStep
  <2>1. PipelineLeft' <= PipelineLeft
    BY <1>3, <1>4, <1>7, <1>8, AwokenLeft DEF StopBroadcast
  <2> QED
    BY <1>1, <1>2, <1>4, <1>7, <1>8, <2>1
<1> QED
  BY <1>5, <1>6, <1>8

\* Stop waits for a capture thread and a pipeline that have ever less to do:
\* neither a packet of the device nor its failure prolongs them.
THEOREM StopComesNearer == Spec => StopAdvances
<1>1. Init => Halted
  BY DEF Init, Halted, Stopping
<1>2. IInv /\ Halted /\ [Next]_vars => Halted'
  BY NextHalted
<1>3. IInv /\ Halted /\ [Next]_vars =>
        [Stopping =>
           /\ Stopping'
           /\ CaptureLeft' <= CaptureLeft /\ PipelineLeft' <= PipelineLeft
           /\ CaptureStep => CaptureLeft' < CaptureLeft
           /\ PipelineStep => PipelineLeft' < PipelineLeft
           /\ rpc' = "wait" => rpc \in {"park", "wait"} /\ ~StopBroadcast]_vars
  BY NextAdvances DEF IInv
<1> QED
  BY <1>1, <1>2, <1>3, Invariance, PTL DEF Spec, StopAdvances
=============================================================================
