---------------------------- MODULE JitterBuffer ----------------------------
(***************************************************************************)
(* The client's jitter buffer (client/core/src/jitter_buffer.cpp): a ring  *)
(* without locks between the UDP thread, which pushes decoded frames, and  *)
(* the audio callback, which pulls samples for a playout time.             *)
(*                                                                         *)
(* A step is one access to a shared index or the beginning or the end of   *)
(* an access to a slot.  The indices are published with release stores and *)
(* read by the other thread with acquire loads, so the threads' accesses   *)
(* interleave.  Indices count up without wrapping: size_t does not         *)
(* overflow in the life of a client at a hundred frames per second.        *)
(*                                                                         *)
(* Time and samples share a unit, of which a frame lasts a few.            *)
(***************************************************************************)
EXTENDS Integers, Sequences

CONSTANTS
  Cap,         \* RING_CAPACITY
  Times,       \* capture timestamps of the frames pushed
  Lengths,     \* their lengths
  Targets,     \* capture times a pull may ask for
  Needs,       \* samples a pull may ask for
  Torn,        \* content of a slot that is empty or being written
  MaxPushes    \* bound: frames accepted in one behaviour

ASSUME CapAssumption == Cap \in Nat \ {0}
ASSUME TimeAssumption ==
  /\ Times \subseteq Int /\ Targets \subseteq Int
  /\ Lengths \subseteq Nat \ {0} /\ Needs \subseteq Nat \ {0}

Frame == [ts : Times, len : Lengths]

ASSUME TornAssumption == Torn \notin Frame

VARIABLES
  slot,        \* ring_
  head, tail,  \* head_ and tail_
  readOffset,  \* frameReadOffset_
  ppc,         \* where the producer is in push()
  incoming,    \* the frame it pushes
  seenTail,    \* the tail it has loaded
  cpc,         \* where the consumer is in pull()
  seenHead,    \* the head it has loaded
  target,      \* targetCaptureUs of this pull
  need,        \* samplesNeeded
  out          \* outOffset

producer == <<ppc, incoming, seenTail>>
consumer == <<cpc, seenHead, target, need, out, readOffset>>
vars == <<slot, head, tail, producer, consumer>>

Index(n) == n % Cap

Init ==
  /\ slot = [i \in 0..Cap - 1 |-> Torn]
  /\ head = 0 /\ tail = 0 /\ readOffset = 0
  /\ ppc = "idle" /\ incoming = Torn /\ seenTail = 0
  /\ cpc = "idle" /\ seenHead = 0 /\ target = 0 /\ need = 0 /\ out = 0

-----------------------------------------------------------------------------
(* push(), on the UDP thread. *)

\* The producer loads both indices; its own cannot change meanwhile.
PushLoad(f) ==
  /\ ppc = "idle"
  /\ head < MaxPushes
  /\ ppc' = "check" /\ incoming' = f /\ seenTail' = tail
  /\ UNCHANGED <<slot, head, tail, consumer>>

\* The ring is full: the incoming frame is dropped.
PushDrop ==
  /\ ppc = "check"
  /\ head - seenTail >= Cap
  /\ ppc' = "idle" /\ incoming' = Torn
  /\ UNCHANGED <<slot, head, tail, seenTail, consumer>>

\* Mutant of PushWrite: the test for a full ring is off by one.
PushWriteFull ==
  /\ ppc = "check"
  /\ head - seenTail <= Cap
  /\ ppc' = "writing"
  /\ slot' = [slot EXCEPT ![Index(head)] = Torn]
  /\ UNCHANGED <<head, tail, incoming, seenTail, consumer>>

\* The slot at head is overwritten ...
PushWrite ==
  /\ ppc = "check"
  /\ head - seenTail < Cap
  /\ ppc' = "writing"
  /\ slot' = [slot EXCEPT ![Index(head)] = Torn]
  /\ UNCHANGED <<head, tail, incoming, seenTail, consumer>>

PushWritten ==
  /\ ppc = "writing"
  /\ ppc' = "publish"
  /\ slot' = [slot EXCEPT ![Index(head)] = incoming]
  /\ UNCHANGED <<head, tail, incoming, seenTail, consumer>>

\* ... and then handed to the consumer.
PushPublish ==
  /\ ppc = "publish"
  /\ ppc' = "idle" /\ incoming' = Torn
  /\ head' = head + 1
  /\ UNCHANGED <<slot, tail, seenTail, consumer>>

-----------------------------------------------------------------------------
(* pull(), on the audio thread. *)

PullBegin(t, n) ==
  /\ cpc = "idle"
  /\ cpc' = "load" /\ target' = t /\ need' = n /\ out' = 0
  /\ UNCHANGED <<slot, head, tail, producer, seenHead, readOffset>>

\* The rest of the output is silence.
Return == cpc' = "idle" /\ target' = 0 /\ need' = 0 /\ out' = 0

\* An iteration of the loop loads both indices.
PullLoad ==
  /\ cpc = "load"
  /\ seenHead' = head
  /\ cpc' = "look"
  /\ UNCHANGED <<slot, head, tail, producer, target, need, out, readOffset>>

Available == cpc = "look" /\ tail # seenHead
First     == slot[Index(tail)]

\* currentTargetUs: the capture time due at this point of the output.
Due == target + out

\* Mutant of TooOld: three frames of leeway.
TooOldByThree(f) == f.ts < Due - 3 * f.len

\* Frames are discarded two of their lengths late, waited for one early.
TooOld(f)   == f.ts < Due - 2 * f.len
TooEarly(f) == f.ts > Due + f.len

\* The buffer is empty.
PullUnderrun ==
  /\ cpc = "look"
  /\ tail = seenHead
  /\ Return
  /\ UNCHANGED <<slot, head, tail, producer, seenHead, readOffset>>

\* The first frame lies in the future.
PullEarly ==
  /\ Available
  /\ ~TooOld(First) /\ TooEarly(First)
  /\ Return
  /\ UNCHANGED <<slot, head, tail, producer, seenHead, readOffset>>

\* Mutant of PullSkip: the next frame inherits the read offset.
PullSkipInherits ==
  /\ Available
  /\ TooOld(First)
  /\ tail' = tail + 1
  /\ cpc' = "load"
  /\ UNCHANGED <<slot, head, producer, seenHead, target, need, out, readOffset>>

\* A frame more than two frames behind is released unplayed.
PullSkip ==
  /\ Available
  /\ TooOld(First)
  /\ tail' = tail + 1
  /\ readOffset' = 0
  /\ cpc' = "load"
  /\ UNCHANGED <<slot, head, producer, seenHead, target, need, out>>

\* Copying begins: the slot must stay as it is until it ends.
PullCopy ==
  /\ Available
  /\ ~TooOld(First) /\ ~TooEarly(First)
  /\ cpc' = "copy"
  /\ UNCHANGED <<slot, head, tail, producer, seenHead, target, need, out,
                 readOffset>>

\* Mutant of Portion: the read offset is taken off the wrong quantity.
PortionFromStart(f) ==
  (IF f.len < need - out THEN f.len ELSE need - out) - readOffset

\* toCopy: what the frame has left or the output lacks.
Portion(f) ==
  IF f.len - readOffset < need - out THEN f.len - readOffset ELSE need - out

\* Copying ends; a frame played to its end is released to the producer.
PullCopied ==
  LET n == Portion(First) IN
  /\ cpc = "copy"
  /\ IF readOffset + n >= First.len
       THEN tail' = tail + 1 /\ readOffset' = 0
       ELSE readOffset' = readOffset + n /\ UNCHANGED tail
  /\ IF out + n < need
       THEN out' = out + n /\ cpc' = "load" /\ UNCHANGED <<target, need>>
       ELSE Return
  /\ UNCHANGED <<slot, head, producer, seenHead>>

Push == \/ \E f \in Frame : PushLoad(f)
        \/ PushDrop \/ PushWrite \/ PushWritten \/ PushPublish

Pull == \/ \E t \in Targets, n \in Needs : PullBegin(t, n)
        \/ PullLoad \/ PullUnderrun \/ PullEarly \/ PullSkip
        \/ PullCopy \/ PullCopied

Next == Push \/ Pull

Spec == Init /\ [][Next]_vars

-----------------------------------------------------------------------------
(* Properties. *)

\* Every variable has its type (the ring, its indices, the locals of push and
\* pull).
TypeOK ==
  /\ slot \in [0..Cap - 1 -> Frame \cup {Torn}]
  /\ head \in Nat /\ tail \in Nat /\ readOffset \in Nat
  /\ ppc \in {"idle", "check", "writing", "publish"}
  /\ incoming \in Frame \cup {Torn}
  /\ seenTail \in Nat
  /\ cpc \in {"idle", "load", "look", "copy"}
  /\ seenHead \in Nat
  /\ target \in Int /\ need \in Nat /\ out \in Nat

\* "No mutex needed between producer and consumer" (jitter_buffer.h:29): the
\* producer never touches the slot the consumer is looking at or copying from.
NoSharedSlot ==
  (Available \/ cpc = "copy") =>
    /\ First # Torn
    /\ ppc = "writing" => Index(head) # Index(tail)

\* A sample is never played more than two of its frame's lengths late, nor two
\* lengths or more early, also in the middle of a frame and of a pull that
\* skipped frames: the test for frames too old is strict (jitter_buffer.cpp:125).
PlayoutWindow ==
  cpc = "copy" =>
    LET lag == First.ts + readOffset - Due IN
    -2 * First.len <= lag /\ lag < 2 * First.len

\* The frames between tail and head, oldest first.
Held == [i \in 1..head - tail |-> slot[Index(tail + i - 1)]]

\* The ring implements a bounded queue: no frame is lost, repeated, reordered
\* or played with another frame's read offset.
Queue == INSTANCE FrameQueue WITH
  queue  <- Held,
  offset <- readOffset,
  Length <- LAMBDA f : f.len

ImplementsQueue == Queue!Spec
=============================================================================
