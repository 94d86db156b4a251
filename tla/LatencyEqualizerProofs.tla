----------------------- MODULE LatencyEqualizerProofs -----------------------
(***************************************************************************)
(* The range of the global delay and of what clients are told, and how the *)
(* delay moves, for any constants.  A client may be told an old delay, so  *)
(* the range has to hold of every message on its way (InRange).            *)
(***************************************************************************)
EXTENDS LatencyEqualizer, WellFoundedInduction, TLAPS

DelayRange == MinDelay..MaxDelay

InRange ==
  /\ globalDelay \in DelayRange
  /\ \A m \in pending : m.ms \in DelayRange
  /\ \A s \in sends : s[2].ms \in DelayRange
  /\ \A c \in Clients :
       /\ stage[c] = "greeting" => greeting[c].ms \in DelayRange
       /\ target[c].n > 0 => target[c].ms \in DelayRange

IInv == TypeOK /\ InRange

-----------------------------------------------------------------------------
\* A bounded set of naturals has a greatest element, so the loop of
\* recalculate over the reports has a result: it is the least upper bound.
LEMMA BoundedSetHasMax ==
  ASSUME NEW B \in Nat, NEW S, S \subseteq 0..B, S # {}
  PROVE  Max(S) \in S /\ \A y \in S : Max(S) >= y
<1> DEFINE Bounds == {n \in Nat : \A y \in S : y <= n}
<1>1. B \in Bounds
  OBVIOUS
<1>2. PICK n \in Bounds : \A m \in Bounds : <<m, n>> \notin OpToRel(<, Nat)
  <2>1. Bounds \subseteq Nat /\ Bounds # {}
    BY <1>1
  <2>2. QED
    BY <2>1, WFMin, NatLessThanWellFounded, Zenon
<1>3. \A m \in Bounds : ~(m < n)
  <2>1. \A m \in Bounds : m \in Nat /\ n \in Nat
    OBVIOUS
  <2>2. ASSUME NEW m \in Bounds, m < n
        PROVE  <<m, n>> \in OpToRel(<, Nat)
    BY <2>1, <2>2, Zenon DEF OpToRel
  <2>3. QED
    BY <1>2, <2>2, Zenon
<1>4. n \in Nat /\ \A y \in S : y \in Nat /\ y <= n
  OBVIOUS
<1>5. n \in S
  <2>1. SUFFICES ASSUME n \notin S
                 PROVE  FALSE
    OBVIOUS
  <2>2. \A y \in S : y # n
    BY <2>1
  <2>3. n # 0 /\ \A y \in S : y <= n - 1
    <3>1. PICK y \in S : y \in Nat /\ y <= n /\ y # n
      BY <1>4, <2>2
    <3>2. n # 0
      BY <1>4, <3>1
    <3>3. QED
      BY <1>4, <2>2, <3>2
  <2>4. n - 1 \in Bounds
    BY <1>4, <2>3
  <2>5. n - 1 < n
    BY <1>4
  <2>6. QED
    BY <1>3, <2>4, <2>5
<1>6. \E x \in S : \A y \in S : x >= y
  BY <1>4, <1>5
<1>7. Max(S) = CHOOSE x \in S : \A y \in S : x >= y
  BY DEF Max
<1>8. QED
  BY <1>6, <1>7, Zenon

\* The maximum taken by recalculate is a natural number that no report exceeds.
LEMMA MaxReportType ==
  ASSUME NEW rep \in [Clients -> P95 \cup {NoReport}]
  PROVE  /\ MaxReport(rep) \in Nat
         /\ \A c \in Clients : MaxReport(rep) >= rep[c]
<1>1. Reported(rep) \cup {0} \subseteq 0..MaxP95
  <2>1. ASSUME NEW y \in Reported(rep)
        PROVE  y \in 0..MaxP95
    BY <2>1, ReportAssumption DEF Reported, NoReport
  <2>2. 0 \in 0..MaxP95
    BY ReportAssumption
  <2>3. QED
    BY <2>1, <2>2
<1>2. /\ MaxReport(rep) \in Reported(rep) \cup {0}
      /\ \A y \in Reported(rep) \cup {0} : MaxReport(rep) >= y
  BY <1>1, BoundedSetHasMax, ReportAssumption DEF MaxReport
<1>3. QED
  BY <1>1, <1>2, ReportAssumption DEF Reported, NoReport

\* recalculate clamps before it eases, and easing keeps the range.
LEMMA RecalculatedInRange ==
  ASSUME NEW rep \in [Clients -> P95 \cup {NoReport}], globalDelay \in DelayRange
  PROVE  /\ Needed(rep) \in DelayRange
         /\ Recalculated(rep) \in DelayRange
         /\ Recalculated(rep) >= globalDelay - DownStep
         /\ Recalculated(rep) > globalDelay => Recalculated(rep) = Needed(rep)
         /\ Reported(rep) # {} => Recalculated(rep) > Needed(rep) - Resolution
<1>1. MaxReport(rep) + Headroom \in Nat
  BY MaxReportType, DelayAssumption
<1>2. Needed(rep) \in DelayRange
  BY <1>1, DelayAssumption DEF Needed, Clamp, DelayRange
<1>3. QED
  BY <1>2, DelayAssumption, StepAssumption
     DEF Recalculated, Eased, Distance, DelayRange

-----------------------------------------------------------------------------
\* A message sent on a change of the delay is the new delay.
LEMMA SetDelayKeepsRange ==
  ASSUME TypeOK, InRange, NEW ms \in DelayRange, SetDelay(ms)
  PROVE  /\ globalDelay' \in DelayRange /\ globalDelay' \in Int
         /\ change' \in Nat
         /\ pending' \subseteq Message
         /\ \A m \in pending' : m.ms \in DelayRange
<1>1. ms \in Int
  BY DelayAssumption DEF DelayRange
<1>2. [n |-> change + 1, ms |-> ms] \in Message
  BY <1>1 DEF TypeOK, Message
<1>3. QED
  BY <1>1, <1>2 DEF TypeOK, InRange, SetDelay

\* The equalizer starts at the lower limit, with nothing in flight.
LEMMA InitIInv == Init => IInv
BY DelayAssumption
   DEF Init, IInv, TypeOK, InRange, DelayRange, Stage, Message, NoMessage

\* Every step of a handler, a broadcaster or a sender preserves the invariant.
LEMMA NextIInv == IInv /\ [Next]_vars => IInv'
<1> SUFFICES ASSUME IInv, [Next]_vars
             PROVE  IInv'
  OBVIOUS
<1>0. TypeOK /\ InRange
  BY DEF IInv
<1>1. ASSUME NEW c \in Clients, NEW ms \in P95, ReportJitter(c, ms)
      PROVE  IInv'
  <2>1. reports' \in [Clients -> P95 \cup {NoReport}]
    BY <1>0, <1>1 DEF ReportJitter, TypeOK
  <2>2. UNCHANGED <<stage, sends, greeting, target>>
    BY <1>1 DEF ReportJitter
  <2>3. CASE Significant(c, ms)
    <3>1. SetDelay(Recalculated(reports'))
      BY <1>1, <2>3 DEF ReportJitter
    <3>2. Recalculated(reports') \in DelayRange
      BY <1>0, <2>1, RecalculatedInRange DEF InRange
    <3>3. frameMs' \in [Clients -> {Frame, IosFrame}]
      BY <1>0, <1>1, <2>3 DEF ReportJitter, FrameAfter, TypeOK
    <3>4. QED
      BY <1>0, <2>1, <2>2, <3>1, <3>2, <3>3, SetDelayKeepsRange
         DEF IInv, TypeOK, InRange
  <2>4. CASE ~Significant(c, ms)
    BY <1>0, <1>1, <2>1, <2>2, <2>4 DEF ReportJitter, IInv, TypeOK, InRange
  <2>5. QED
    BY <2>3, <2>4
<1>2. ASSUME NEW c \in Clients, RemoveClient(c)
      PROVE  IInv'
  <2>1. reports' \in [Clients -> P95 \cup {NoReport}]
    BY <1>0, <1>2 DEF RemoveClient, TypeOK
  <2>2. Recalculated(reports') \in DelayRange
    BY <1>0, <2>1, RecalculatedInRange DEF InRange
  <2>3. stage' \in [Clients -> Stage]
    BY <1>0, <1>2 DEF RemoveClient, TypeOK, Stage
  <2>4. \A d \in Clients : stage'[d] = "greeting" => stage[d] = "greeting"
    BY <1>0, <1>2 DEF RemoveClient, TypeOK
  <2>5. /\ SetDelay(Recalculated(reports'))
        /\ UNCHANGED <<sends, greeting, target, frameMs>>
    BY <1>2 DEF RemoveClient
  <2>6. QED
    BY <1>0, <2>1, <2>2, <2>3, <2>4, <2>5, SetDelayKeepsRange
       DEF IInv, TypeOK, InRange
<1>3. ASSUME NEW c \in Clients,
             Join(c) \/ SetWriteFunc(c) \/ Leave(c)
      PROVE  IInv'
  BY <1>0, <1>3
     DEF Join, SetWriteFunc, Leave, Move, Stage, delivery, IInv, TypeOK, InRange
<1>4. ASSUME NEW c \in Clients, ReadDelay(c)
      PROVE  IInv'
  <2>1. Current \in Message
    BY <1>0 DEF Current, Message, TypeOK
  <2>2. QED
    BY <1>0, <1>4, <2>1
       DEF ReadDelay, Move, Current, Stage, IInv, TypeOK, InRange
<1>5. ASSUME NEW c \in Clients, SendGreeting(c)
      PROVE  IInv'
  <2>1. NoMessage \in Message
    BY DEF NoMessage, Message
  <2>2. QED
    BY <1>0, <1>5, <2>1
       DEF SendGreeting, Move, Stage, IInv, TypeOK, InRange
<1>6. ASSUME NEW m \in pending, BroadcastToAll(m)
      PROVE  IInv'
  BY <1>0, <1>6 DEF BroadcastToAll, IInv, TypeOK, InRange
<1>7. ASSUME NEW s \in sends, Send(s[1], s[2])
      PROVE  IInv'
  <2>1. s[1] \in Clients /\ s[2] \in Message /\ s[2].ms \in DelayRange
    BY <1>0 DEF TypeOK, InRange
  <2>2. QED
    BY <1>0, <1>7, <2>1 DEF Send, IInv, TypeOK, InRange
<1>8. CASE UNCHANGED vars
  BY <1>0, <1>8 DEF vars, IInv, TypeOK, InRange
<1>9. QED
  BY <1>1, <1>2, <1>3, <1>4, <1>5, <1>6, <1>7, <1>8 DEF Next

\* The inductive invariant holds in every reachable state of the equalizer and
\* of the messages it has in flight.
THEOREM Invariance == Spec => []IInv
BY InitIInv, NextIInv, PTL DEF Spec

\* The equalizer's variables keep their types.
THEOREM TypeCorrect == Spec => []TypeOK
BY Invariance, PTL DEF IInv

\* Neither the global delay nor what any client is told, however late, is
\* outside MinGlobalDelayMs..MaxGlobalDelayMs.
THEOREM DelayStaysInRange == Spec => []ToldInRange
<1>1. IInv => ToldInRange
  BY DEF IInv, InRange, ToldInRange, DelayRange
<1>2. QED
  BY <1>1, Invariance, PTL

-----------------------------------------------------------------------------
\* Only a report or a departure moves the delay, and it becomes what
\* recalculate makes of the new reports.
LEMMA DelayMoves ==
  ASSUME IInv, [Next]_vars, globalDelay' # globalDelay
  PROVE  /\ reports' \in [Clients -> P95 \cup {NoReport}]
         /\ globalDelay' = Recalculated(reports')
<1>1. IInv'
  BY NextIInv
<1>2. Next
  BY DEF vars
<1>3. ASSUME NEW c \in Clients, NEW ms \in P95, ReportJitter(c, ms)
      PROVE  globalDelay' = Recalculated(reports')
  BY <1>3 DEF ReportJitter, SetDelay
<1>4. ASSUME NEW c \in Clients, RemoveClient(c)
      PROVE  globalDelay' = Recalculated(reports')
  BY <1>4 DEF RemoveClient, SetDelay
<1>5. QED
  BY <1>1, <1>2, <1>3, <1>4
     DEF Next, Join, ReadDelay, SendGreeting, SetWriteFunc, Leave,
         BroadcastToAll, Send, IInv, TypeOK

\* The delay goes down by at most DownStep at a time (the hysteresis of
\* recalculate), in a report and in a departure alike.
THEOREM DelayFallsGently == Spec => GentleDecrease
<1>1. IInv /\ [Next]_vars => [globalDelay' >= globalDelay - DownStep]_globalDelay
  <2>1. SUFFICES ASSUME IInv, [Next]_vars, globalDelay' # globalDelay
                 PROVE  globalDelay' >= globalDelay - DownStep
    OBVIOUS
  <2>2. QED
    BY <2>1, DelayMoves, RecalculatedInRange DEF IInv, InRange
<1>2. QED
  BY <1>1, Invariance, PTL DEF Spec, GentleDecrease

\* The delay goes up only to what the reports of the connected clients need.
THEOREM DelayRisesExactly == Spec => RaiseIsExact
<1>1. IInv /\ [Next]_vars
        => [globalDelay' > globalDelay => globalDelay' = Needed(reports')]_vars
  <2>1. SUFFICES ASSUME IInv, [Next]_vars, globalDelay' > globalDelay
                 PROVE  globalDelay' = Needed(reports')
    OBVIOUS
  <2>2. globalDelay' # globalDelay
    BY <2>1, NextIInv DEF IInv, TypeOK
  <2>3. QED
    BY <2>1, <2>2, DelayMoves, RecalculatedInRange DEF IInv, InRange
<1>2. QED
  BY <1>1, Invariance, PTL DEF Spec, RaiseIsExact

\* A report that is new or differs by the threshold leaves a delay that covers
\* every client's last report, those once ignored as insignificant included.
THEOREM SignificantReportsAreCovered == Spec => SignificantReportIsCovered
<1> DEFINE Heard(c) == /\ reports[c] # reports'[c] /\ reports'[c] # NoReport
                       /\ Significant(c, reports'[c])
<1>1. ASSUME IInv, [Next]_vars, NEW c \in Clients, Heard(c)
      PROVE  globalDelay' > Needed(reports') - Resolution
  <2>1. reports \in [Clients -> P95 \cup {NoReport}]
    BY <1>1 DEF IInv, TypeOK
  <2>2. PICK ms \in P95 : ReportJitter(c, ms)
    <3>1. ASSUME NEW d \in Clients, NEW ms \in P95, ReportJitter(d, ms)
          PROVE  d = c
      BY <1>1, <2>1, <3>1 DEF ReportJitter
    <3>2. ASSUME NEW d \in Clients, RemoveClient(d)
          PROVE  FALSE
      BY <1>1, <2>1, <3>2 DEF RemoveClient
    <3>3. QED
      BY <1>1, <3>1, <3>2
         DEF Next, vars, Join, ReadDelay, SendGreeting, SetWriteFunc, Leave,
             BroadcastToAll, Send
  <2>3. reports' = [reports EXCEPT ![c] = ms] /\ reports'[c] = ms
    BY <2>1, <2>2 DEF ReportJitter
  <2>4. globalDelay' = Recalculated(reports')
    BY <1>1, <2>2, <2>3 DEF ReportJitter, SetDelay
  <2>5. /\ reports' \in [Clients -> P95 \cup {NoReport}]
        /\ Reported(reports') # {}
    BY <1>1, <2>1, <2>3 DEF Reported
  <2>6. QED
    BY <1>1, <2>4, <2>5, RecalculatedInRange DEF IInv, InRange
<1>2. IInv /\ [Next]_vars =>
        [\A c \in Clients :
           (reports[c] # reports'[c] /\ reports'[c] # NoReport /\
              Significant(c, reports'[c]))
             => globalDelay' > Needed(reports') - Resolution]_vars
  BY <1>1
<1>3. QED
  BY <1>2, Invariance, PTL DEF Spec, SignificantReportIsCovered

-----------------------------------------------------------------------------
(* What clients were told last, and what is on its way to them.            *)

Told(c) == stage[c] \in {"greeted", "ready", "leaving", "gone"}

Messages == pending \cup {s[2] : s \in sends}
              \cup {greeting[c] : c \in {d \in Clients : stage[d] = "greeting"}}
              \cup {target[c] : c \in {d \in Clients : Told(d)}}

\* Two clients last told of the same change play on the same anchor, whatever
\* order the goroutines delivered the messages in; of the current change, on
\* the equalizer's.  Where SharedAnchor fails, a client was last told of an
\* earlier change.
SameChangeSameDelay ==
  /\ \A c, d \in Clients :
       Told(c) /\ Told(d) /\ target[c].n = target[d].n => target[c].ms = target[d].ms
  /\ \A c \in Clients :
       Told(c) => target[c].n <= change /\ (target[c].n = change => target[c].ms = globalDelay)

\* The number of a change decides its delay in every message there is.
Numbered ==
  /\ \A m \in Messages : m.n <= change
  /\ \A m, k \in Messages \cup {Current} : m.n = k.n => m.ms = k.ms

\* Every step makes at most one new message, of the delay that then holds.
LEMMA NewMessages ==
  ASSUME IInv, [Next]_vars
  PROVE  /\ Messages' \subseteq Messages \cup {Current'}
         /\ UNCHANGED <<change, globalDelay>> \/ change' = change + 1
<1>1. TypeOK
  BY DEF IInv
<1>2. ASSUME NEW ms, SetDelay(ms)
      PROVE  /\ pending' \subseteq pending \cup {Current'}
             /\ UNCHANGED <<change, globalDelay>> \/ change' = change + 1
  BY <1>2 DEF SetDelay, Current
<1>3. ASSUME UNCHANGED <<sends, greeting, target>>, pending' \subseteq pending \cup {Current'},
             \A d \in Clients : (stage'[d] = "greeting" => stage[d] = "greeting")
                                /\ (Told(d)' => Told(d))
      PROVE  Messages' \subseteq Messages \cup {Current'}
  BY <1>3 DEF Messages
<1>4. ASSUME NEW c \in Clients, NEW ms \in P95, ReportJitter(c, ms)
      PROVE  /\ Messages' \subseteq Messages \cup {Current'}
             /\ UNCHANGED <<change, globalDelay>> \/ change' = change + 1
  <2>1. UNCHANGED <<stage, sends, greeting, target>>
    BY <1>4 DEF ReportJitter
  <2>2. /\ pending' \subseteq pending \cup {Current'}
        /\ UNCHANGED <<change, globalDelay>> \/ change' = change + 1
    BY <1>2, <1>4 DEF ReportJitter
  <2> QED
    BY <1>3, <2>1, <2>2 DEF Told
<1>5. ASSUME NEW c \in Clients, RemoveClient(c)
      PROVE  /\ Messages' \subseteq Messages \cup {Current'}
             /\ UNCHANGED <<change, globalDelay>> \/ change' = change + 1
  <2>1. /\ UNCHANGED <<sends, greeting, target>>
        /\ stage[c] = "leaving" /\ stage' = [stage EXCEPT ![c] = "gone"]
    BY <1>5 DEF RemoveClient
  <2>2. /\ pending' \subseteq pending \cup {Current'}
        /\ UNCHANGED <<change, globalDelay>> \/ change' = change + 1
    BY <1>2, <1>5 DEF RemoveClient
  <2>3. \A d \in Clients : (stage'[d] = "greeting" => stage[d] = "greeting")
                           /\ (Told(d)' => Told(d))
    BY <1>1, <2>1 DEF TypeOK, Told
  <2> QED
    BY <1>3, <2>1, <2>2, <2>3
<1>6. ASSUME NEW c \in Clients, Join(c) \/ SetWriteFunc(c) \/ Leave(c)
      PROVE  Messages' \subseteq Messages \cup {Current'} /\ UNCHANGED <<change, globalDelay>>
  <2>1. UNCHANGED <<pending, sends, greeting, target, change, globalDelay>>
    BY <1>6 DEF Join, SetWriteFunc, Leave, delivery
  <2>2. \A d \in Clients : (stage'[d] = "greeting" => stage[d] = "greeting")
                           /\ (Told(d)' => Told(d))
    BY <1>1, <1>6 DEF Join, SetWriteFunc, Leave, Move, TypeOK, Told
  <2> QED
    BY <1>3, <2>1, <2>2
<1>7. ASSUME NEW c \in Clients, ReadDelay(c)
      PROVE  Messages' \subseteq Messages \cup {Current'} /\ UNCHANGED <<change, globalDelay>>
  <2>1. /\ UNCHANGED <<pending, sends, target, change, globalDelay>>
        /\ stage[c] = "joining" /\ stage' = [stage EXCEPT ![c] = "greeting"]
        /\ greeting' = [greeting EXCEPT ![c] = Current] /\ Current' = Current
    BY <1>7 DEF ReadDelay, Move, Current
  <2>2. \A d \in Clients : (Told(d)' => Told(d))
                           /\ (d # c => stage'[d] = stage[d] /\ greeting'[d] = greeting[d])
    BY <1>1, <2>1 DEF TypeOK, Told
  <2>3. greeting'[c] = Current'
    BY <1>1, <2>1 DEF TypeOK
  <2> QED
    BY <2>1, <2>2, <2>3 DEF Messages
<1>8. ASSUME NEW c \in Clients, SendGreeting(c)
      PROVE  Messages' \subseteq Messages \cup {Current'} /\ UNCHANGED <<change, globalDelay>>
  <2>1. /\ UNCHANGED <<pending, sends, change, globalDelay>>
        /\ stage[c] = "greeting" /\ stage' = [stage EXCEPT ![c] = "greeted"]
        /\ target' = [target EXCEPT ![c] = greeting[c]]
        /\ greeting' = [greeting EXCEPT ![c] = NoMessage]
    BY <1>8 DEF SendGreeting, Move
  <2>2. \A d \in Clients : d # c => stage'[d] = stage[d] /\ greeting'[d] = greeting[d]
                                     /\ target'[d] = target[d] /\ (Told(d)' => Told(d))
    BY <1>1, <2>1 DEF TypeOK, Told
  <2>3. target'[c] = greeting[c] /\ stage'[c] = "greeted"
    BY <1>1, <2>1 DEF TypeOK
  <2> QED
    BY <2>1, <2>2, <2>3 DEF Messages
<1>9. ASSUME NEW m \in pending, BroadcastToAll(m)
      PROVE  Messages' \subseteq Messages \cup {Current'} /\ UNCHANGED <<change, globalDelay>>
  <2>1. /\ UNCHANGED <<stage, greeting, target, change, globalDelay>>
        /\ pending' \subseteq pending
        /\ sends' = sends \cup ({c \in Clients : InSession(c)} \X {m})
    BY <1>9 DEF BroadcastToAll
  <2>2. \A s \in sends' : s \in sends \/ s[2] = m
    BY <2>1
  <2> QED
    BY <2>1, <2>2 DEF Messages, Told
<1>10. ASSUME NEW s \in sends, Send(s[1], s[2])
       PROVE  Messages' \subseteq Messages \cup {Current'} /\ UNCHANGED <<change, globalDelay>>
  <2>1. /\ UNCHANGED <<stage, greeting, pending, change, globalDelay>>
        /\ sends' \subseteq sends
        /\ target' = IF stage[s[1]] = "ready" THEN [target EXCEPT ![s[1]] = s[2]] ELSE target
    BY <1>10 DEF Send
  <2>2. \A d \in Clients : target'[d] = target[d] \/ target'[d] = s[2]
    BY <1>1, <2>1 DEF TypeOK
  <2> QED
    BY <2>1, <2>2 DEF Messages, Told
<1>11. CASE UNCHANGED vars
  BY <1>11 DEF vars, Messages, Told
<1> QED
  BY <1>4, <1>5, <1>6, <1>7, <1>8, <1>9, <1>10, <1>11 DEF Next

LEMMA NextNumbered == IInv /\ Numbered /\ [Next]_vars => Numbered'
<1> SUFFICES ASSUME IInv, Numbered, [Next]_vars PROVE Numbered'
  OBVIOUS
<1>1. /\ Messages' \subseteq Messages \cup {Current'}
      /\ UNCHANGED <<change, globalDelay>> \/ change' = change + 1
  BY NewMessages
<1>2. change \in Nat /\ \A m \in Messages : m.n \in Nat
  <2>1. Messages \subseteq Message /\ change \in Nat
    BY DEF IInv, TypeOK, Messages
  <2> QED
    BY <2>1 DEF Message
<1>3. Current.n = change /\ Current'.n = change'
  BY DEF Current
<1>4. CASE UNCHANGED <<change, globalDelay>>
  BY <1>1, <1>2, <1>3, <1>4 DEF Numbered, Current
<1>5. CASE change' = change + 1
  <2>1. \A m \in Messages : m.n < change' /\ m.n <= change'
    BY <1>2, <1>5 DEF Numbered
  <2> QED
    BY <1>1, <1>2, <1>3, <1>5, <2>1 DEF Numbered
<1> QED
  BY <1>1, <1>4, <1>5

\* The order in which broadcasts overtake one another never gives two clients
\* different delays under the same change.
THEOREM AnchorFollowsChange == Spec => []SameChangeSameDelay
<1>1. Init => Numbered
  BY DEF Init, Numbered, Messages, Told
<1>2. Numbered => SameChangeSameDelay
  <2> SUFFICES ASSUME Numbered PROVE SameChangeSameDelay
    OBVIOUS
  <2>1. /\ \A c \in Clients : Told(c) => target[c] \in Messages
        /\ Messages \subseteq Messages \cup {Current}
    BY DEF Messages
  <2>2. Current \in Messages \cup {Current} /\ Current.n = change /\ Current.ms = globalDelay
    BY DEF Current
  <2>3. /\ \A m \in Messages : m.n <= change
        /\ \A m, k \in Messages \cup {Current} : m.n = k.n => m.ms = k.ms
    BY DEF Numbered
  <2>4. \A c, d \in Clients :
          Told(c) /\ Told(d) /\ target[c].n = target[d].n => target[c].ms = target[d].ms
    BY <2>1, <2>3
  <2>5. ASSUME NEW c \in Clients, Told(c)
        PROVE  target[c].n <= change /\ (target[c].n = change => target[c].ms = globalDelay)
    <3>1. target[c] \in Messages /\ target[c] \in Messages \cup {Current}
      BY <2>1, <2>5
    <3> QED
      BY <2>2, <2>3, <3>1
  <2> QED
    BY <2>4, <2>5 DEF SameChangeSameDelay
<1>3. QED
  BY <1>1, <1>2, NextNumbered, Invariance, PTL DEF Spec

=============================================================================
