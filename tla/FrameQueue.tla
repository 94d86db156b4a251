----------------------------- MODULE FrameQueue -----------------------------
(***************************************************************************)
(* What the jitter buffer promises to the two threads that share it: a     *)
(* bounded first-in first-out queue of audio frames, of which the audio    *)
(* thread plays the first, piece by piece and never a piece twice, or      *)
(* skips what is left of it.                                               *)
(***************************************************************************)
EXTENDS Naturals, Sequences

CONSTANTS
  Frame,      \* set of frames
  Length(_),  \* the samples of a frame
  Cap         \* most frames held

VARIABLES
  queue,      \* frames not yet played to the end
  offset      \* samples of the first one already played

vars == <<queue, offset>>

Init == queue = <<>> /\ offset = 0

Put(f) ==
  /\ Len(queue) < Cap
  /\ queue' = Append(queue, f)
  /\ UNCHANGED offset

Play(n) ==
  /\ queue # <<>>
  /\ offset + n <= Length(Head(queue))
  /\ IF offset + n = Length(Head(queue))
       THEN queue' = Tail(queue) /\ offset' = 0
       ELSE offset' = offset + n /\ UNCHANGED queue

Skip ==
  /\ queue # <<>>
  /\ queue' = Tail(queue)
  /\ offset' = 0

Next ==
  \/ \E f \in Frame : Put(f)
  \/ queue # <<>> /\ \E n \in 1..Length(Head(queue)) : Play(n)
  \/ Skip

Spec == Init /\ [][Next]_vars
=============================================================================
