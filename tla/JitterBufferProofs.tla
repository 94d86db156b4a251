------------------------- MODULE JitterBufferProofs -------------------------
(***************************************************************************)
(* For any capacity and any frames: the two threads never meet in a slot,  *)
(* and what is played is due.                                              *)
(***************************************************************************)
EXTENDS JitterBuffer, SequenceTheorems, TLAPS

\* What each thread knows of the indices is a bound on what they are now.
Indices ==
  /\ seenTail <= tail /\ tail <= head /\ head <= tail + Cap
  /\ ppc \in {"writing", "publish"} => head < seenTail + Cap
  /\ cpc \in {"look", "copy"} => tail <= seenHead /\ seenHead <= head
  /\ cpc = "copy" => tail < seenHead

\* The slots from tail up to head hold complete frames.
Filled == \A n \in Nat : tail <= n /\ n < head => slot[Index(n)] \in Frame

Incoming ==
  /\ ppc # "idle" => incoming \in Frame
  /\ ppc = "publish" => slot[Index(head)] = incoming

\* Only a frame still in the ring can be partly played.
Offset == readOffset > 0 => tail < head /\ readOffset < First.len

Pulling ==
  /\ cpc # "idle" => out < need
  /\ cpc = "copy" => ~TooOld(First) /\ ~TooEarly(First)

IInv == TypeOK /\ Indices /\ Filled /\ Incoming /\ Offset /\ Pulling

-----------------------------------------------------------------------------
\* A slot number is in the ring (head & RING_MASK).
LEMMA IndexType == \A n \in Nat : Index(n) \in 0..Cap - 1
BY CapAssumption DEF Index

\* Positions less than a ring apart are in different slots.
LEMMA IndexDistinct ==
  ASSUME NEW a \in Nat, NEW b \in Nat, a < b, b < a + Cap
  PROVE  Index(a) # Index(b)
<1> SUFFICES ASSUME Index(a) = Index(b)
             PROVE  FALSE
  OBVIOUS
<1>1. PICK p \in Int, q \in Int : a = Cap * p + Index(a) /\ b = Cap * q + Index(b)
  <2>1. \A n \in Nat : n = Cap * (n \div Cap) + Index(n) /\ n \div Cap \in Int
    BY CapAssumption DEF Index
  <2>2. QED
    BY <2>1
<1>2. b - a = Cap * (q - p)
  BY <1>1, IndexType, CapAssumption
<1>3. CASE q - p <= 0
  <2>1. Cap * (q - p) <= 0
    BY <1>3, CapAssumption
  <2>2. QED
    BY <1>2, <2>1
<1>4. CASE q - p >= 1
  <2>1. Cap * (q - p) >= Cap
    BY <1>4, CapAssumption
  <2>2. QED
    BY <1>2, <2>1, CapAssumption
<1>5. QED
  BY <1>3, <1>4

-----------------------------------------------------------------------------
\* The empty ring of the constructor satisfies the invariant.
LEMMA InitIInv == Init => IInv
BY CapAssumption
   DEF Init, IInv, TypeOK, Indices, Filled, Incoming, Offset, Pulling

\* A frame has a time and a positive length.
LEMMA FrameType == \A f \in Frame : f.ts \in Int /\ f.len \in Nat \ {0}
BY TimeAssumption DEF Frame

\* Pulling is kept by a step that leaves the consumer and its slot alone.
LEMMA PullingKept ==
  ASSUME Pulling, UNCHANGED <<cpc, target, need, out>>,
         cpc = "copy" => First' = First
  PROVE  Pulling'
BY DEF Pulling, TooOld, TooEarly, Due

\* Offset is kept by a step that leaves the first frame and its offset alone.
LEMMA OffsetKept ==
  ASSUME Offset, UNCHANGED <<readOffset, tail>>, tail < head => First' = First,
         tail < head => tail' < head'
  PROVE  Offset'
BY DEF Offset

\* Every step of push() preserves the invariant.
LEMMA PushIInv == IInv /\ Push => IInv'
<1> SUFFICES ASSUME IInv, Push
             PROVE  IInv'
  OBVIOUS
<1>0. TypeOK /\ Indices /\ Filled /\ Incoming /\ Offset /\ Pulling
  BY DEF IInv
<1>1. cpc = "copy" => tail < head
  BY <1>0 DEF TypeOK, Indices
<1>2. ASSUME NEW f \in Frame, PushLoad(f)
      PROVE  IInv'
  <2>1. First' = First
    BY <1>2 DEF PushLoad, First
  <2>2. Offset' /\ Pulling'
    BY <1>0, <1>2, <2>1, OffsetKept, PullingKept DEF PushLoad, consumer
  <2>3. TypeOK' /\ Indices' /\ Filled' /\ Incoming'
    BY <1>0, <1>2
       DEF PushLoad, consumer, TypeOK, Indices, Filled, Incoming
  <2>4. QED
    BY <2>2, <2>3 DEF IInv
<1>3. CASE PushDrop
  <2>1. First' = First
    BY <1>3 DEF PushDrop, First
  <2>2. Offset' /\ Pulling'
    BY <1>0, <1>3, <2>1, OffsetKept, PullingKept DEF PushDrop, consumer
  <2>3. TypeOK' /\ Indices' /\ Filled' /\ Incoming'
    BY <1>0, <1>3
       DEF PushDrop, consumer, TypeOK, Indices, Filled, Incoming
  <2>4. QED
    BY <2>2, <2>3 DEF IInv
<1>4. ASSUME NEW content \in Frame \cup {Torn}, head < tail + Cap,
             slot' = [slot EXCEPT ![Index(head)] = content],
             UNCHANGED <<head, tail, consumer>>
      PROVE  /\ slot' \in [0..Cap - 1 -> Frame \cup {Torn}]
             /\ slot'[Index(head)] = content
             /\ Filled' /\ Offset' /\ Pulling'
  <2>1. Index(head) \in 0..Cap - 1
    BY <1>0, IndexType DEF TypeOK
  <2>2. /\ slot' \in [0..Cap - 1 -> Frame \cup {Torn}]
        /\ slot'[Index(head)] = content
    BY <1>0, <1>4, <2>1 DEF TypeOK
  <2>3. ASSUME NEW n \in Nat, tail <= n, n < head
        PROVE  slot'[Index(n)] = slot[Index(n)]
    <3>1. Index(n) # Index(head)
      BY <1>0, <1>4, <2>3, IndexDistinct, CapAssumption DEF TypeOK
    <3>2. QED
      BY <1>0, <1>4, <2>3, <3>1, IndexType DEF TypeOK
  <2>4. Filled'
    BY <1>0, <1>4, <2>3 DEF Filled
  <2>5. tail < head => First' = First
    BY <1>0, <1>4, <2>3 DEF First, TypeOK
  <2>6. QED
    BY <1>0, <1>1, <1>4, <2>2, <2>4, <2>5, OffsetKept, PullingKept
       DEF consumer
<1>5. CASE PushWrite
  <2>1. head < tail + Cap /\ head < seenTail + Cap
    BY <1>0, <1>5, CapAssumption DEF PushWrite, TypeOK, Indices
  <2>2. /\ slot' \in [0..Cap - 1 -> Frame \cup {Torn}]
        /\ Filled' /\ Offset' /\ Pulling'
    BY <1>4, <1>5, <2>1 DEF PushWrite
  <2>3. TypeOK' /\ Indices' /\ Incoming'
    BY <1>0, <1>5, <2>1, <2>2
       DEF PushWrite, consumer, TypeOK, Indices, Incoming
  <2>4. QED
    BY <2>2, <2>3 DEF IInv
<1>6. CASE PushWritten
  <2>1. head < tail + Cap /\ incoming \in Frame
    BY <1>0, <1>6, CapAssumption DEF PushWritten, TypeOK, Indices, Incoming
  <2>2. /\ slot' \in [0..Cap - 1 -> Frame \cup {Torn}]
        /\ slot'[Index(head)] = incoming
        /\ Filled' /\ Offset' /\ Pulling'
    BY <1>4, <1>6, <2>1 DEF PushWritten
  <2>3. TypeOK' /\ Indices' /\ Incoming'
    BY <1>0, <1>6, <2>1, <2>2
       DEF PushWritten, consumer, TypeOK, Indices, Incoming
  <2>4. QED
    BY <2>2, <2>3 DEF IInv
<1>7. CASE PushPublish
  <2>1. slot[Index(head)] \in Frame /\ head < tail + Cap
    BY <1>0, <1>7, CapAssumption DEF PushPublish, TypeOK, Indices, Incoming
  <2>2. ASSUME NEW n \in Nat, tail <= n, n < head + 1
        PROVE  slot[Index(n)] \in Frame
    <3>1. n < head \/ n = head
      BY <1>0, <2>2 DEF TypeOK
    <3>2. QED
      BY <1>0, <2>1, <2>2, <3>1 DEF Filled
  <2>3. Filled'
    BY <1>7, <2>2 DEF PushPublish, Filled
  <2>4. Offset' /\ Pulling'
    <3>1. First' = First
      BY <1>7 DEF PushPublish, First
    <3>2. tail < head => tail' < head'
      BY <1>0, <1>7 DEF PushPublish, TypeOK
    <3>3. QED
      BY <1>0, <1>7, <3>1, <3>2, OffsetKept, PullingKept
         DEF PushPublish, consumer
  <2>5. TypeOK' /\ Indices' /\ Incoming'
    BY <1>0, <1>7, <2>1, CapAssumption
       DEF PushPublish, consumer, TypeOK, Indices, Incoming
  <2>6. QED
    BY <2>3, <2>4, <2>5 DEF IInv
<1>8. QED
  BY <1>2, <1>3, <1>5, <1>6, <1>7 DEF Push

\* Every step of pull() preserves the invariant.
LEMMA PullIInv == IInv /\ Pull => IInv'
<1> SUFFICES ASSUME IInv, Pull
             PROVE  IInv'
  OBVIOUS
<1>0. TypeOK /\ Indices /\ Filled /\ Incoming /\ Offset /\ Pulling
  BY DEF IInv
<1>1. ASSUME NEW t \in Targets, NEW n \in Needs, PullBegin(t, n)
      PROVE  IInv'
  BY <1>0, <1>1, TimeAssumption
     DEF PullBegin, producer, IInv, TypeOK, Indices, Filled, Incoming, Offset,
         Pulling, First
<1>2. CASE PullLoad
  BY <1>0, <1>2
     DEF PullLoad, producer, IInv, TypeOK, Indices, Filled, Incoming, Offset,
         Pulling, First
<1>3. CASE PullUnderrun \/ PullEarly
  <2>1. /\ cpc' = "idle" /\ target' = 0 /\ need' = 0 /\ out' = 0
        /\ UNCHANGED <<slot, head, tail, producer, seenHead, readOffset>>
    BY <1>3 DEF PullUnderrun, PullEarly, Return
  <2>2. TypeOK' /\ Indices' /\ Filled' /\ Incoming'
    BY <1>0, <2>1 DEF producer, TypeOK, Indices, Filled, Incoming
  <2>3. First' = First
    BY <2>1 DEF First
  <2>4. Offset' /\ Pulling'
    BY <1>0, <2>1, <2>3 DEF Offset, Pulling
  <2>5. QED
    BY <2>2, <2>4 DEF IInv
<1>4. CASE PullSkip
  BY <1>0, <1>4, CapAssumption
     DEF PullSkip, Available, producer, IInv, TypeOK, Indices, Filled,
         Incoming, Offset, Pulling, First
<1>5. CASE PullCopy
  <2>1. First' = First /\ Due' = Due
    BY <1>5 DEF PullCopy, First, Due
  <2>2. Pulling'
    BY <1>0, <1>5, <2>1 DEF PullCopy, Available, Pulling, TooOld, TooEarly
  <2>3. QED
    BY <1>0, <1>5, <2>1, <2>2
       DEF PullCopy, Available, producer, IInv, TypeOK, Indices, Filled,
           Incoming, Offset
<1>6. CASE PullCopied
  <2> DEFINE n == Portion(First)
  <2>1. tail < head /\ First \in Frame /\ First.len \in Nat \ {0}
    BY <1>0, <1>6, FrameType
       DEF PullCopied, TypeOK, Indices, Filled, First
  <2>2. readOffset < First.len
    BY <1>0, <2>1 DEF TypeOK, Offset
  <2>3. n \in Nat \ {0} /\ out + n <= need
    BY <1>0, <1>6, <2>1, <2>2 DEF PullCopied, TypeOK, Pulling, Portion
  <2>4. UNCHANGED <<slot, head, producer, seenHead>>
    BY <1>6 DEF PullCopied
  <2> HIDE DEF n
  <2>5. /\ cpc' \in {"idle", "load"} /\ target' \in Int
        /\ need' \in Nat /\ out' \in Nat
        /\ cpc' # "idle" => out' < need'
    BY <1>0, <1>6, <2>3 DEF PullCopied, Return, TypeOK, n
  <2>6. CASE readOffset + n >= First.len
    <3>1. tail' = tail + 1 /\ readOffset' = 0
      BY <1>6, <2>6 DEF PullCopied, n
    <3>2. QED
      BY <1>0, <2>1, <2>4, <2>5, <3>1, CapAssumption
         DEF producer, IInv, TypeOK, Indices, Filled, Incoming, Offset, Pulling
  <2>7. CASE ~(readOffset + n >= First.len)
    <3>1. tail' = tail /\ readOffset' = readOffset + n
      BY <1>6, <2>7 DEF PullCopied, n
    <3>2. First' = First
      BY <2>4, <3>1 DEF First
    <3>3. readOffset' \in Nat /\ readOffset' < First'.len
      BY <1>0, <2>1, <2>3, <2>7, <3>1, <3>2 DEF TypeOK
    <3>4. QED
      BY <1>0, <2>1, <2>4, <2>5, <3>1, <3>3
         DEF producer, IInv, TypeOK, Indices, Filled, Incoming, Offset, Pulling
  <2>8. QED
    BY <2>6, <2>7
<1>7. QED
  BY <1>1, <1>2, <1>3, <1>4, <1>5, <1>6 DEF Pull

\* Every step of the ring preserves the invariant.
LEMMA NextIInv == IInv /\ [Next]_vars => IInv'
<1>1. IInv /\ UNCHANGED vars => IInv'
  BY DEF vars, producer, consumer, IInv, TypeOK, Indices, Filled, Incoming,
         Offset, Pulling, First, TooOld, TooEarly, Due
<1>2. QED
  BY <1>1, PushIInv, PullIInv DEF Next

\* The inductive invariant holds in every reachable state of the ring.
THEOREM Invariance == Spec => []IInv
BY InitIInv, NextIInv, PTL DEF Spec

\* The ring's indices and the locals of push() and pull() keep their types.
THEOREM TypeCorrect == Spec => []TypeOK
BY Invariance, PTL DEF IInv

\* The slot the consumer looks at or copies from holds a complete frame and is
\* not the one the producer writes: the ring needs no mutex.
THEOREM SlotsAreNotShared == Spec => []NoSharedSlot
<1>1. IInv => NoSharedSlot
  BY IndexDistinct, TornAssumption, CapAssumption
     DEF IInv, TypeOK, Indices, Filled, NoSharedSlot, Available, First
<1>2. QED
  BY <1>1, Invariance, PTL

\* What pull plays is at most two frame lengths late and less than two early.
THEOREM PlayedWhenDue == Spec => []PlayoutWindow
<1>1. IInv => PlayoutWindow
  <2> SUFFICES ASSUME IInv, cpc = "copy"
               PROVE  LET lag == First.ts + readOffset - Due IN
                      -2 * First.len <= lag /\ lag < 2 * First.len
    BY DEF PlayoutWindow
  <2>0. TypeOK /\ Indices /\ Filled /\ Offset /\ Pulling
    BY DEF IInv
  <2>1. First \in Frame
    BY <2>0 DEF TypeOK, Indices, Filled, First
  <2>2. First.ts \in Int /\ First.len \in Nat \ {0} /\ Due \in Int
    BY <2>0, <2>1, FrameType DEF TypeOK, Due
  <2>3. readOffset \in Nat /\ readOffset < First.len
    BY <2>0, <2>2 DEF TypeOK, Offset
  <2>4. First.ts >= Due - 2 * First.len /\ First.ts <= Due + First.len
    BY <2>0, <2>2 DEF Pulling, TooOld, TooEarly
  <2>5. QED
    BY <2>2, <2>3, <2>4
<1>2. QED
  BY <1>1, Invariance, PTL

-----------------------------------------------------------------------------
(* The ring implements the bounded queue of FrameQueue.                    *)

\* A sequence is the function of its places.
LEMMA SeqIsFunction ==
  ASSUME NEW S, NEW q \in Seq(S)
  PROVE  q = [i \in 1..Len(q) |-> q[i]]
OBVIOUS

\* What the queue holds, and that its first frame is the one pull() looks at.
LEMMA HeldType ==
  ASSUME IInv
  PROVE  /\ Held \in Seq(Frame) /\ Len(Held) = head - tail
         /\ tail < head => Held # <<>> /\ Head(Held) = First
<1>1. head - tail \in Nat /\ tail \in Nat /\ head \in Nat
  BY DEF IInv, TypeOK, Indices
<1>2. \A i \in 1..head - tail : slot[Index(tail + i - 1)] \in Frame
  BY <1>1 DEF IInv, Filled
<1>3. Held \in Seq(Frame) /\ Len(Held) = head - tail
  BY <1>1, <1>2 DEF Held
<1>4. ASSUME tail < head
      PROVE  Held # <<>> /\ Head(Held) = First
  <2>1. 1 \in 1..head - tail /\ tail + 1 - 1 = tail
    BY <1>1, <1>4
  <2>2. Held[1] = First
    BY <2>1 DEF Held, First
  <2>3. QED
    BY <1>1, <1>3, <1>4, <2>2
<1>5. QED
  BY <1>3, <1>4

\* A write to the slot at head is behind every frame that is held.
LEMMA WriteKeepsHeld ==
  ASSUME IInv, head < tail + Cap, NEW content,
         slot' = [slot EXCEPT ![Index(head)] = content],
         UNCHANGED <<head, tail>>
  PROVE  Held' = Held
<1>1. head - tail \in Nat /\ tail \in Nat /\ head \in Nat
  BY DEF IInv, TypeOK, Indices
<1>2. ASSUME NEW i \in 1..head - tail
      PROVE  slot'[Index(tail + i - 1)] = slot[Index(tail + i - 1)]
  <2>1. Index(tail + i - 1) # Index(head)
    BY <1>1, IndexDistinct, CapAssumption
  <2>2. Index(tail + i - 1) \in 0..Cap - 1
    BY <1>1, IndexType
  <2>3. QED
    BY <2>1, <2>2 DEF IInv, TypeOK
<1>3. QED
  BY <1>1, <1>2 DEF Held

\* The ring begins as the empty queue.
LEMMA InitRefines == Init => Queue!Init
<1> SUFFICES ASSUME Init
             PROVE  Held = <<>> /\ readOffset = 0
  BY DEF Queue!Init
<1>1. head - tail = 0
  BY DEF Init
<1>2. 1..head - tail = {}
  BY <1>1
<1>3. Held = <<>>
  BY <1>2 DEF Held
<1>4. QED
  BY <1>3 DEF Init

\* push() puts a frame when it publishes it, and does nothing to the queue
\* before.
LEMMA PushRefines ==
  ASSUME IInv, Push
  PROVE  [Queue!Next]_(Queue!vars)
<1>0. TypeOK /\ Indices /\ Filled /\ Incoming
  BY DEF IInv
<1>1. ASSUME NEW f \in Frame, PushLoad(f)
      PROVE  UNCHANGED <<Held, readOffset>>
  BY <1>1 DEF PushLoad, Held, consumer
<1>2. CASE PushDrop
  BY <1>2 DEF PushDrop, Held, consumer, Queue!vars
<1>3. CASE PushWrite \/ PushWritten
  <2>1. head < tail + Cap
    BY <1>0, <1>3, CapAssumption DEF PushWrite, PushWritten, TypeOK, Indices
  <2>2. Held' = Held
    BY <1>3, <2>1, WriteKeepsHeld DEF PushWrite, PushWritten
  <2>3. QED
    BY <1>3, <2>2 DEF PushWrite, PushWritten, consumer, Queue!vars
<1>4. CASE PushPublish
  <2>1. slot[Index(head)] \in Frame /\ head < tail + Cap
    BY <1>0, <1>4, CapAssumption DEF PushPublish, TypeOK, Indices, Incoming
  <2>2. /\ slot' = slot /\ head' = head + 1 /\ tail' = tail
        /\ readOffset' = readOffset
    BY <1>4 DEF PushPublish, consumer
  <2>3. head - tail \in Nat /\ tail \in Nat /\ head \in Nat
    BY <1>0 DEF TypeOK, Indices
  <2>4. Len(Held) < Cap
    BY <2>1, <2>3, HeldType, CapAssumption
  <2>5. Held' = Append(Held, slot[Index(head)])
    <3>1. Held' = [i \in 1..head + 1 - tail |-> slot[Index(tail + i - 1)]]
      <4>1. Held' = [i \in 1..head' - tail' |-> slot'[Index(tail' + i - 1)]]
        BY DEF Held, Index
      <4>2. QED
        BY <2>2, <2>3, <4>1
    <3> DEFINE m == head - tail
               f == slot[Index(head)]
    <3>2. head + 1 - tail = m + 1 /\ m \in Nat
      BY <2>3
    <3>3. tail + (m + 1) - 1 = head
      BY <2>3
    <3>4. Held \in Seq(Frame) /\ Len(Held) = m
      BY HeldType
    <3>5. \A i \in 1..m : Held[i] = slot[Index(tail + i - 1)]
      BY DEF Held
    <3> HIDE DEF m, f
    <3>6. /\ Append(Held, f) = [i \in 1..m + 1 |-> Append(Held, f)[i]]
          /\ \A i \in 1..m : Append(Held, f)[i] = Held[i]
          /\ Append(Held, f)[m + 1] = f
      BY <2>1, <3>2, <3>4, AppendProperties DEF f
    <3>7. \A i \in 1..m + 1 : slot[Index(tail + i - 1)] = Append(Held, f)[i]
      BY <3>2, <3>3, <3>5, <3>6 DEF f
    <3>8. QED
      BY <3>1, <3>2, <3>6, <3>7 DEF f
  <2>6. Queue!Put(slot[Index(head)])
    BY <2>2, <2>4, <2>5 DEF Queue!Put
  <2>7. QED
    BY <2>1, <2>6 DEF Queue!Next
<1>5. QED
  BY <1>1, <1>2, <1>3, <1>4 DEF Push, Queue!vars

\* A step of pull() that releases the first frame leaves the rest of the queue.
LEMMA ReleaseIsTail ==
  ASSUME IInv, tail < head, tail' = tail + 1, UNCHANGED <<slot, head>>
  PROVE  Held' = Tail(Held)
<1>1. head - tail \in Nat \ {0} /\ tail \in Nat /\ head \in Nat
  BY DEF IInv, TypeOK, Indices
<1>2. Held' = [i \in 1..head - (tail + 1) |-> slot[Index(tail + 1 + i - 1)]]
  BY DEF Held
<1>3. \A i \in 1..head - (tail + 1) :
        /\ i + 1 \in 1..head - tail
        /\ tail + 1 + i - 1 = tail + (i + 1) - 1
  BY <1>1
<1>4. Tail(Held) = [i \in 1..head - tail - 1 |-> Held[i + 1]]
  <2>1. Held \in Seq(Frame) /\ Held # <<>> /\ Len(Held) = head - tail
    BY HeldType
  <2>2. /\ Tail(Held) \in Seq(Frame)
        /\ Len(Tail(Held)) = Len(Held) - 1
        /\ \A i \in 1..Len(Tail(Held)) : Tail(Held)[i] = Held[i + 1]
    BY <2>1, HeadTailProperties
  <2> HIDE DEF Held
  <2>3. Tail(Held) = [i \in 1..Len(Tail(Held)) |-> Tail(Held)[i]]
    BY <2>2, SeqIsFunction
  <2>4. QED
    BY <2>1, <2>2, <2>3
<1>5. head - (tail + 1) = head - tail - 1
  BY <1>1
<1>6. QED
  BY <1>2, <1>3, <1>4, <1>5 DEF Held

\* pull() plays or skips what is first in the queue.
LEMMA PullRefines ==
  ASSUME IInv, Pull
  PROVE  [Queue!Next]_(Queue!vars)
<1>0. TypeOK /\ Indices /\ Offset /\ Pulling
  BY DEF IInv
<1>1. CASE \/ \E t \in Targets, n \in Needs : PullBegin(t, n)
           \/ PullLoad \/ PullUnderrun \/ PullEarly \/ PullCopy
  <2>1. UNCHANGED <<slot, head, tail, readOffset>>
    BY <1>1 DEF PullBegin, PullLoad, PullUnderrun, PullEarly, PullCopy
  <2>2. QED
    BY <2>1 DEF Held, Queue!vars
<1>2. CASE PullSkip
  <2>1. tail < head
    BY <1>0, <1>2 DEF PullSkip, Available, TypeOK, Indices
  <2>2. /\ tail' = tail + 1 /\ readOffset' = 0
        /\ UNCHANGED <<slot, head>>
    BY <1>2 DEF PullSkip
  <2>3. Queue!Skip
    BY <2>1, <2>2, HeldType, ReleaseIsTail DEF Queue!Skip
  <2>4. QED
    BY <2>3 DEF Queue!Next
<1>3. CASE PullCopied
  <2> DEFINE n == Portion(First)
  <2>1. tail < head /\ First \in Frame
    BY <1>0, <1>3, HeldType DEF PullCopied, TypeOK, Indices, IInv, Filled, First
  <2>2. First.len \in Nat \ {0} /\ readOffset \in Nat /\ readOffset < First.len
    BY <1>0, <2>1, FrameType DEF TypeOK, Offset
  <2>3. n \in 1..First.len /\ readOffset + n <= First.len
    BY <1>0, <1>3, <2>2 DEF PullCopied, TypeOK, Pulling, Portion
  <2>4. /\ UNCHANGED <<slot, head>>
        /\ IF readOffset + n = First.len
             THEN tail' = tail + 1 /\ readOffset' = 0
             ELSE readOffset' = readOffset + n /\ tail' = tail
    BY <1>3, <2>2, <2>3 DEF PullCopied
  <2> HIDE DEF n
  <2>5. Held # <<>> /\ Head(Held) = First
    BY <2>1, HeldType
  <2>6. CASE readOffset + n = First.len
    <3>1. Held' = Tail(Held) /\ readOffset' = 0
      BY <2>1, <2>4, <2>6, ReleaseIsTail
    <3>2. QED
      BY <2>3, <2>5, <2>6, <3>1 DEF Queue!Play, Queue!Next
  <2>7. CASE readOffset + n # First.len
    <3>1. Held' = Held /\ readOffset' = readOffset + n
      BY <2>4, <2>7 DEF Held
    <3>2. QED
      BY <2>3, <2>5, <2>7, <3>1 DEF Queue!Play, Queue!Next
  <2>8. QED
    BY <2>6, <2>7
<1>4. QED
  BY <1>1, <1>2, <1>3 DEF Pull

\* The ring is a bounded queue: no frame is lost, repeated or reordered, and
\* none is played with another frame's read offset (push and pull).
THEOREM RingImplementsQueue == Spec => ImplementsQueue
<1>1. IInv /\ [Next]_vars => [Queue!Next]_(Queue!vars)
  <2>1. ASSUME UNCHANGED vars
        PROVE  UNCHANGED <<Held, readOffset>>
    BY <2>1 DEF vars, consumer, Held
  <2>2. QED
    BY <2>1, PushRefines, PullRefines DEF Next, Queue!vars
<1>2. QED
  BY <1>1, InitRefines, Invariance, PTL DEF Spec, ImplementsQueue, Queue!Spec

=============================================================================
