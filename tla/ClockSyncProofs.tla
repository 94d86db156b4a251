-------------------------- MODULE ClockSyncProofs --------------------------
(***************************************************************************)
(* The clock synchronization, for every number of rounds, every delay of   *)
(* every message and every drift: the order of the handshake, the error of *)
(* the estimated offsets and what the client knows of them.                *)
(*                                                                         *)
(* A probe carries a server time that is not later than the server's clock *)
(* when the client receives it, up to the drift since it was sent: that is *)
(* what IInv says of probes and replies wherever they are.  When no        *)
(* heartbeat falls into the handshake (~SlowLink) exactly one of them is   *)
(* under way in it, the one of this round, and IInv bounds the errors; a   *)
(* heartbeat read as a reply leaves a wrong offset, which the first        *)
(* periodic reply removes.                                                 *)
(***************************************************************************)
EXTENDS ClockSync, TLAPS

\* A server time of the past, as the server's clock stands when the client's
\* shows t.
Past(ss, t, mark) == mark <= drift /\ ss - t - skew <= drift - mark

ProbesPast ==
  \A i \in 1..Len(down) : down[i].kind = "probe" => Past(down[i].ss, now, down[i].mark)

Answering == cpc = "reply" => Past(probe.ss, recvTs, probe.mark) /\ recvTs <= now

RepliesPast ==
  \A i \in 1..Len(up) : up[i].kind = "reply" =>
    Past(up[i].ss, up[i].cr, up[i].mark) /\ up[i].cr <= up[i].cs /\ up[i].cs <= now

ProbeUnderWay == /\ cpc = "idle" /\ up = <<>> /\ Len(down) = 1 /\ down[1].kind = "probe"
                 /\ down[1].ss = sent.ss /\ down[1].mark = sent.mark
ReplyBegun    == cpc = "reply" /\ up = <<>> /\ down = <<>> /\ probe = sent
ReplyUnderWay == /\ cpc = "idle" /\ down = <<>> /\ Len(up) = 1 /\ up[1].kind = "reply"
                 /\ up[1].ss = sent.ss /\ up[1].mark = sent.mark

\* Until the handler says the offset, the client receives probes alone, and a
\* probe that is not answered yet is in one of three places.
InHandshake == spc \in {"send", "await", "store", "tell"}

HandshakeOrder ==
  /\ InHandshake => ~synced /\ \A i \in 1..Len(down) : down[i].kind = "probe"
  /\ spc \in {"send", "await"} => Len(results) < Rounds
  /\ spc = "store" => Len(results) = Rounds
  /\ spc = "await" => Len(down) > 0 \/ cpc = "reply" \/ Len(up) > 0

Lockstep == ~SlowLink =>
  /\ spc \in {"send", "store", "tell"} => cpc = "idle" /\ down = <<>> /\ up = <<>>
  /\ spc = "await" => ProbeUnderWay \/ ReplyBegun \/ ReplyUnderWay

RoundsBounded == ~SlowLink =>
  \A i \in 1..Len(results) :
    Within(Offset(results[i]), Rtt(results[i]) + 1 + 2 * (drift - results[i].mark))

Marks == /\ sent.mark <= drift /\ clock.mark <= drift /\ seen.mark <= drift
         /\ \A i \in 1..Len(results) : results[i].mark <= drift

ErrorsBounded == ~SlowLink => OffsetBounded /\ DriftBounded

IInv == /\ TypeOK /\ HandshakeOrder /\ Lockstep
        /\ ProbesPast /\ Answering /\ RepliesPast
        /\ Marks /\ RoundsBounded /\ ErrorsBounded

\* While the handshake lasts, one of its two sides has a step to take: the
\* handler, the client's TCP thread with a probe to answer, or the handler
\* with a reply to read.
HandshakeGoesOn ==
  InHandshake =>
    \/ spc \in {"send", "tell"}
    \/ spc = "store" /\ results # <<>>
    \/ down # <<>> /\ cpc = "idle" /\ Head(down).kind = "probe"
    \/ cpc = "reply" \/ up # <<>>

\* Whatever the handshake stored, processing a periodic reply leaves an offset
\* whose error that reply bounds, and from then on every step does.
RepliesHeal ==
  [][/\ ProcessPeriodicReply => Stored' /\ DriftBounded'
     /\ Stored /\ DriftBounded => Stored' /\ DriftBounded']_vars

-----------------------------------------------------------------------------
\* Sequences at both ends of a connection.
LEMMA Appended ==
  ASSUME NEW S, NEW s \in Seq(S), NEW e \in S
  PROVE  /\ Append(s, e) \in Seq(S)
         /\ Len(Append(s, e)) = Len(s) + 1 /\ Len(s) \in Nat
         /\ \A i \in 1..Len(s) : Append(s, e)[i] = s[i]
         /\ Append(s, e)[Len(s) + 1] = e
OBVIOUS

LEMMA Dequeued ==
  ASSUME NEW S, NEW s \in Seq(S), s # <<>>
  PROVE  /\ Head(s) \in S /\ Head(s) = s[1]
         /\ Tail(s) \in Seq(S) /\ Len(s) \in Nat \ {0} /\ Len(Tail(s)) = Len(s) - 1
         /\ \A i \in 1..Len(Tail(s)) : i + 1 \in 1..Len(s) /\ Tail(s)[i] = s[i + 1]
OBVIOUS

\* Rounding is by less than a unit.
LEMMA HalfBound == \A n \in Int : Half(n) \in Int /\ 2 * Half(n) - n \in -1..1
BY DEF Half

\* What a round measures, if its probe was sent in the past and its reply is
\* received in the future.
LEMMA Estimate ==
  ASSUME NEW n \in Int, NEW sk \in Int, NEW d \in Nat,
         NEW ss \in Int, NEW cr \in Int, NEW cs \in Int, NEW sr \in Int,
         ss - cr - sk <= d, cr <= cs, cs <= n, sr = n + sk
  PROVE  LET o   == Half((ss - cr) + (sr - cs))
             rtt == (sr - ss) - (cs - cr)
         IN /\ o \in Int /\ rtt \in Int
            /\ 2 * (o - sk) <= rtt + 1 + 2 * d
            /\ 2 * (sk - o) <= rtt + 1 + 2 * d
<1> DEFINE x == (ss - cr) + (sr - cs)
<1>1. x \in Int
  OBVIOUS
<1>2. Half(x) \in Int /\ 2 * Half(x) <= x + 1 /\ 2 * Half(x) >= x - 1
  BY <1>1, HalfBound
<1> QED
  BY <1>2

LEMMA InitIInv == Init => IInv
<1> SUFFICES ASSUME Init PROVE IInv
  OBVIOUS
<1>1. TypeOK
  <2>1. synced \in BOOLEAN
    BY Zenon DEF Init
  <2>2. skew \in Int /\ now \in Nat
    BY ClockAssumption DEF Init
  <2> QED
    BY <2>1, <2>2, RoundsAssumption DEF Init, TypeOK, NoProbe
<1> QED
  BY <1>1, RoundsAssumption DEF Init, IInv, HandshakeOrder, InHandshake, Lockstep, ProbesPast,
     Answering, RepliesPast, RoundsBounded, Marks, ErrorsBounded, OffsetBounded, DriftBounded,
     Stored, NoProbe

-----------------------------------------------------------------------------
\* What a round measures is a number.
LEMMA RoundTypes ==
  ASSUME NEW r, r.ss \in Int, r.cr \in Int, r.cs \in Int, r.sr \in Int
  PROVE  Offset(r) \in Int /\ Rtt(r) \in Int /\ Rtt(r) + 1 \in Int
<1>1. (r.ss - r.cr) + (r.sr - r.cs) \in Int /\ (r.sr - r.ss) - (r.cs - r.cr) \in Int
  OBVIOUS
<1> QED
  BY <1>1, HalfBound DEF Offset, Rtt

\* The messages have the fields of their kind.
LEMMA MessageType ==
  /\ \A m \in ProbeMsg \cup OffsetMsg :
       /\ m.kind \in {"probe", "offset"}
       /\ m.kind = "probe" => m.ss \in Int /\ m.mark \in Nat
       /\ m.kind = "offset" => m.off \in Int
  /\ \A m \in ReplyMsg \cup BeatMsg :
       /\ m.kind \in {"reply", "beat"}
       /\ m.kind = "reply" => m.ss \in Int /\ m.cr \in Int /\ m.cs \in Int /\ m.mark \in Nat
BY DEF ProbeMsg, OffsetMsg, ReplyMsg, BeatMsg

\* Time and drift disturb nothing.
LEMMA ClocksIInv ==
  ASSUME IInv, Tick \/ \E d \in {-1, 1} : Drift(d)
  PROVE  /\ IInv'
         /\ OffsetBounded => OffsetBounded'
         /\ DriftBounded => DriftBounded'
<1>1. /\ TypeOK /\ HandshakeOrder /\ Lockstep /\ ProbesPast /\ Answering /\ RepliesPast
      /\ Marks /\ RoundsBounded /\ ErrorsBounded
  BY DEF IInv
<1>a. now \in Nat /\ skew \in Int /\ drift \in Nat
  BY <1>1 DEF TypeOK
<1>2. /\ now' \in Nat /\ now <= now' /\ skew' \in Int /\ drift' \in Nat /\ drift <= drift'
      /\ skew - skew' <= drift' - drift /\ skew' - skew <= drift' - drift
      /\ UNCHANGED <<down, up, server, client>>
  <2>1. CASE Tick
    BY <1>a, <2>1 DEF Tick
  <2>2. ASSUME NEW d \in {-1, 1}, Drift(d) 
      PROVE  /\ now' \in Nat /\ now <= now' /\ skew' \in Int /\ drift' \in Nat /\ drift <= drift'
             /\ skew - skew' <= drift' - drift /\ skew' - skew <= drift' - drift
             /\ UNCHANGED <<down, up, server, client>>
    BY <1>a, <2>2 DEF Drift
  <2> QED  BY <2>1, <2>2
<1>c. PICK n \in Int, k \in Int, d \in Nat, o \in Int, l \in Int, e \in Nat :
        /\ n = now /\ k = skew /\ d = drift /\ o = now' /\ l = skew' /\ e = drift'
  BY <1>a, <1>2
<1>d. n <= o /\ d <= e /\ k - l <= e - d /\ l - k <= e - d
  BY <1>2, <1>c
<1>3. TypeOK'
  BY <1>1, <1>2 DEF TypeOK, server, client
<1>4. HandshakeOrder' /\ Lockstep'
  BY <1>1, <1>2 DEF HandshakeOrder, InHandshake, Lockstep, server, client,
     ProbeUnderWay, ReplyBegun, ReplyUnderWay
<1>5. ProbesPast'
  <2> SUFFICES ASSUME NEW i \in 1..Len(down), down[i].kind = "probe"
               PROVE  Past(down[i].ss, now, down[i].mark)'
    BY <1>2 DEF ProbesPast
  <2>1. down[i].ss \in Int /\ down[i].mark \in Nat
    BY <1>1, MessageType DEF TypeOK
  <2> QED
    <3>1. Past(down[i].ss, now, down[i].mark)
      BY <1>1 DEF ProbesPast
    <3>2. PICK s \in Int, m \in Nat : s = down[i].ss /\ m = down[i].mark
      BY <2>1
    <3>3. m <= d /\ s - n - k <= d - m
      BY <1>c, <3>1, <3>2 DEF Past
    <3>4. m <= e /\ s - o - l <= e - m
      BY <1>d, <3>3
    <3> QED
      BY <1>2, <1>c, <3>2, <3>4 DEF Past
<1>6. Answering'
  <2> SUFFICES ASSUME cpc = "reply" PROVE Past(probe.ss, recvTs, probe.mark)' /\ recvTs' <= now'
    BY <1>2 DEF Answering, client
  <2>1. probe.ss \in Int /\ probe.mark \in Nat /\ recvTs \in Int
        /\ probe' = probe /\ recvTs' = recvTs
    BY <1>1, <1>2 DEF TypeOK, client
  <2> QED
    <3>1. Past(probe.ss, recvTs, probe.mark) /\ recvTs <= now
      BY <1>1 DEF Answering
    <3>2. PICK s \in Int, m \in Nat, t \in Int : s = probe.ss /\ m = probe.mark /\ t = recvTs
      BY <2>1
    <3>3. m <= d /\ s - t - k <= d - m /\ t <= n
      BY <1>c, <3>1, <3>2 DEF Past
    <3>4. m <= e /\ s - t - l <= e - m /\ t <= o
      BY <1>d, <3>3
    <3> QED
      BY <2>1, <1>c, <3>2, <3>4 DEF Past
<1>7. RepliesPast'
  <2> SUFFICES ASSUME NEW i \in 1..Len(up), up[i].kind = "reply"
               PROVE  /\ Past(up[i].ss, up[i].cr, up[i].mark)'
                      /\ up[i].cr <= up[i].cs /\ up[i].cs <= now'
    BY <1>2 DEF RepliesPast
  <2>1. up[i].ss \in Int /\ up[i].cr \in Int /\ up[i].cs \in Int /\ up[i].mark \in Nat
    BY <1>1, MessageType DEF TypeOK
  <2> QED
    <3>1. Past(up[i].ss, up[i].cr, up[i].mark) /\ up[i].cr <= up[i].cs /\ up[i].cs <= now
      BY <1>1 DEF RepliesPast
    <3>2. PICK s \in Int, m \in Nat, t \in Int, c \in Int :
            s = up[i].ss /\ m = up[i].mark /\ t = up[i].cr /\ c = up[i].cs
      BY <2>1
    <3>3. m <= d /\ s - t - k <= d - m /\ c <= n
      BY <1>c, <3>1, <3>2 DEF Past
    <3>4. m <= e /\ s - t - l <= e - m /\ c <= o
      BY <1>d, <3>3
    <3> QED
      BY <1>2, <1>c, <3>1, <3>2, <3>4 DEF Past
<1>8. RoundsBounded'
  <2> SUFFICES ASSUME ~SlowLink, NEW i \in 1..Len(results)
               PROVE  Within(Offset(results[i]),
                             Rtt(results[i]) + 1 + 2 * (drift - results[i].mark))'
    BY <1>2 DEF RoundsBounded, server
  <2>a. results \in Seq(Round)
    BY <1>1 DEF TypeOK
  <2>1. results[i] \in Round /\ results' = results
    BY <2>a, <1>2 DEF server
  <2>b. /\ results[i].ss \in Int /\ results[i].cr \in Int /\ results[i].cs \in Int
        /\ results[i].sr \in Int /\ results[i].mark \in Nat
    BY <2>1 DEF Round
  <2>2. PICK f \in Int, b \in Int, m \in Nat :
          f = Offset(results[i]) /\ b = Rtt(results[i]) + 1 /\ m = results[i].mark
    BY <2>b, RoundTypes
  <2>3. 2 * (f - k) <= b + 2 * (d - m) /\ 2 * (k - f) <= b + 2 * (d - m)
    BY <1>1, <1>c, <2>2 DEF RoundsBounded, Within
  <2>4. 2 * (f - l) <= b + 2 * (e - m) /\ 2 * (l - f) <= b + 2 * (e - m)
    BY <1>d, <2>3
  <2>5. Rtt(results[i])' = Rtt(results[i]) /\ Offset(results[i])' = Offset(results[i])
    BY <2>1 DEF Rtt, Offset
  <2> QED
    BY <1>c, <2>1, <2>2, <2>4, <2>5 DEF Within
<1>9. Marks'
  <2>1. UNCHANGED <<sent, clock, seen, results>>
    BY <1>2 DEF server
  <2>2. /\ sent.mark \in Nat /\ clock.mark \in Nat /\ seen.mark \in Nat
        /\ \A i \in 1..Len(results) : results[i].mark \in Nat
    <3>1. \A r \in Round : r.mark \in Nat
      BY DEF Round
    <3>2. \A i \in 1..Len(results) : results[i] \in Round
      BY <1>1 DEF TypeOK
    <3> QED
      BY <1>1, <3>1, <3>2 DEF TypeOK
  <2>3. \A m \in Nat : m <= d => m <= e
    BY <1>d
  <2> QED
    BY <1>1, <1>c, <2>1, <2>2, <2>3 DEF Marks
<1>10. (OffsetBounded => OffsetBounded') /\ (DriftBounded => DriftBounded')
  <2>1. clock' = clock /\ seen' = seen /\ (Stored' <=> Stored)
    BY <1>2 DEF server, Stored
  <2>2. clock.off \in Int /\ clock.rtt \in Int /\ clock.mark \in Nat
        /\ seen.rtt \in Int /\ seen.mark \in Nat
    BY <1>1 DEF TypeOK
  <2>a. clock.rtt + 1 \in Int /\ seen.rtt + 1 + 2 * Threshold \in Int
    BY <2>2, RoundsAssumption
  <2>3. PICK f \in Int, r \in Int, m \in Nat, q \in Int, p \in Nat :
          /\ f = clock.off /\ r = clock.rtt + 1 /\ m = clock.mark
          /\ q = seen.rtt + 1 + 2 * Threshold /\ p = seen.mark
    BY <2>2, <2>a
  <2>4. \A b \in Int, i \in Nat :
          2 * (f - k) <= b + 2 * (d - i) /\ 2 * (k - f) <= b + 2 * (d - i) =>
          2 * (f - l) <= b + 2 * (e - i) /\ 2 * (l - f) <= b + 2 * (e - i)
    BY <1>d
  <2>5. OffsetBounded => OffsetBounded'
    <3>1. SUFFICES ASSUME Stored, OffsetBounded PROVE OffsetBounded'
      BY <2>1 DEF OffsetBounded
    <3>2. 2 * (f - k) <= r + 2 * (d - m) /\ 2 * (k - f) <= r + 2 * (d - m)
      BY <1>c, <2>3, <3>1 DEF OffsetBounded, Within
    <3>3. 2 * (f - l) <= r + 2 * (e - m) /\ 2 * (l - f) <= r + 2 * (e - m)
      BY <2>4, <3>2
    <3> QED
      BY <1>c, <2>1, <2>3, <3>3 DEF OffsetBounded, Within
  <2>6. DriftBounded => DriftBounded'
    <3>1. SUFFICES ASSUME Stored, DriftBounded PROVE DriftBounded'
      BY <2>1 DEF DriftBounded
    <3>2. 2 * (f - k) <= q + 2 * (d - p) /\ 2 * (k - f) <= q + 2 * (d - p)
      BY <1>c, <2>3, <3>1 DEF DriftBounded, Within
    <3>3. 2 * (f - l) <= q + 2 * (e - p) /\ 2 * (l - f) <= q + 2 * (e - p)
      BY <2>4, <3>2
    <3> QED
      BY <1>c, <2>1, <2>3, <3>3 DEF DriftBounded, Within
  <2> QED
    BY <2>5, <2>6
<1>11. ErrorsBounded'
  BY <1>1, <1>10 DEF ErrorsBounded
<1> QED
  BY <1>3, <1>4, <1>5, <1>6, <1>7, <1>8, <1>9, <1>10, <1>11 DEF IInv

\* What a step leaves alone it does not disturb.
LEMMA Kept ==
  ASSUME IInv, UNCHANGED clocks
  PROVE  /\ UNCHANGED down => ProbesPast'
         /\ UNCHANGED up => RepliesPast'
         /\ UNCHANGED <<cpc, probe, recvTs>> => Answering'
         /\ UNCHANGED results => RoundsBounded'
         /\ UNCHANGED <<sent, clock, seen, results>> => Marks'
         /\ UNCHANGED <<clock, seen>> /\ (Stored' => Stored) =>
              ErrorsBounded' /\ (OffsetBounded => OffsetBounded') /\ (DriftBounded => DriftBounded')
<1>1. now' = now /\ skew' = skew /\ drift' = drift
  BY DEF clocks
<1>2. UNCHANGED down => ProbesPast'
  BY <1>1 DEF IInv, ProbesPast, Past
<1>3. UNCHANGED up => RepliesPast'
  BY <1>1 DEF IInv, RepliesPast, Past
<1>4. UNCHANGED <<cpc, probe, recvTs>> => Answering'
  BY <1>1 DEF IInv, Answering, Past
<1>5. UNCHANGED results => RoundsBounded'
  BY <1>1 DEF IInv, RoundsBounded, Within, Offset, Rtt
<1>6. UNCHANGED <<sent, clock, seen, results>> => Marks'
  BY <1>1 DEF IInv, Marks
<1>7. UNCHANGED <<clock, seen>> /\ (Stored' => Stored) =>
        (OffsetBounded => OffsetBounded') /\ (DriftBounded => DriftBounded')
  BY <1>1 DEF OffsetBounded, DriftBounded, Within
<1> QED
  BY <1>2, <1>3, <1>4, <1>5, <1>6, <1>7 DEF IInv, ErrorsBounded

\* A message that arrives leaves the others where they were ...
LEMMA Arrival ==
  ASSUME IInv, UNCHANGED clocks
  PROVE  /\ down # <<>> /\ down' = Tail(down) =>
              /\ Head(down) \in ProbeMsg \cup OffsetMsg /\ Head(down) = down[1]
              /\ 1 \in 1..Len(down) /\ down' \in Seq(ProbeMsg \cup OffsetMsg)
              /\ Len(down') = Len(down) - 1 /\ ProbesPast'
              /\ \A i \in 1..Len(down') : i + 1 \in 1..Len(down) /\ down'[i] = down[i + 1]
         /\ up # <<>> /\ up' = Tail(up) =>
              /\ Head(up) \in ReplyMsg \cup BeatMsg /\ Head(up) = up[1]
              /\ 1 \in 1..Len(up) /\ up' \in Seq(ReplyMsg \cup BeatMsg)
              /\ Len(up') = Len(up) - 1 /\ RepliesPast'
<1>1. now' = now /\ skew' = skew /\ drift' = drift
  BY DEF clocks
<1>2. down \in Seq(ProbeMsg \cup OffsetMsg) /\ up \in Seq(ReplyMsg \cup BeatMsg)
  BY DEF IInv, TypeOK
<1>3. ASSUME down # <<>>, down' = Tail(down)
      PROVE  /\ Head(down) \in ProbeMsg \cup OffsetMsg /\ Head(down) = down[1]
             /\ 1 \in 1..Len(down) /\ down' \in Seq(ProbeMsg \cup OffsetMsg)
             /\ Len(down') = Len(down) - 1 /\ ProbesPast'
             /\ \A i \in 1..Len(down') : i + 1 \in 1..Len(down) /\ down'[i] = down[i + 1]
  <2>1. /\ Head(down) \in ProbeMsg \cup OffsetMsg /\ Head(down) = down[1]
        /\ 1 \in 1..Len(down) /\ down' \in Seq(ProbeMsg \cup OffsetMsg)
        /\ Len(down') = Len(down) - 1
        /\ \A i \in 1..Len(down') : i + 1 \in 1..Len(down) /\ down'[i] = down[i + 1]
    BY <1>2, <1>3, Dequeued
  <2> QED
    BY <1>1, <2>1 DEF IInv, ProbesPast, Past
<1>4. ASSUME up # <<>>, up' = Tail(up)
      PROVE  /\ Head(up) \in ReplyMsg \cup BeatMsg /\ Head(up) = up[1]
             /\ 1 \in 1..Len(up) /\ up' \in Seq(ReplyMsg \cup BeatMsg)
             /\ Len(up') = Len(up) - 1 /\ RepliesPast'
  <2>1. /\ Head(up) \in ReplyMsg \cup BeatMsg /\ Head(up) = up[1]
        /\ 1 \in 1..Len(up) /\ up' \in Seq(ReplyMsg \cup BeatMsg)
        /\ Len(up') = Len(up) - 1
        /\ \A i \in 1..Len(up') : i + 1 \in 1..Len(up) /\ up'[i] = up[i + 1]
    BY <1>2, <1>4, Dequeued
  <2> QED
    BY <1>1, <2>1 DEF IInv, RepliesPast, Past
<1> QED
  BY <1>3, <1>4

\* ... and so does one that is sent.
LEMMA Departure ==
  ASSUME IInv, UNCHANGED clocks, NEW m
  PROVE  /\ /\ m \in ProbeMsg \cup OffsetMsg /\ down' = Append(down, m)
            /\ m.kind = "probe" => Past(m.ss, now, m.mark)
            => /\ down' \in Seq(ProbeMsg \cup OffsetMsg) /\ ProbesPast' /\ Len(down) \in Nat
               /\ Len(down') = Len(down) + 1 /\ down'[Len(down) + 1] = m
               /\ \A i \in 1..Len(down) : down'[i] = down[i]
         /\ /\ m \in ReplyMsg \cup BeatMsg /\ up' = Append(up, m)
            /\ m.kind = "reply" => Past(m.ss, m.cr, m.mark) /\ m.cr <= m.cs /\ m.cs <= now
            => /\ up' \in Seq(ReplyMsg \cup BeatMsg) /\ RepliesPast' /\ Len(up) \in Nat
               /\ Len(up') = Len(up) + 1 /\ up'[Len(up) + 1] = m
<1>1. now' = now /\ skew' = skew /\ drift' = drift
  BY DEF clocks
<1>2. down \in Seq(ProbeMsg \cup OffsetMsg) /\ up \in Seq(ReplyMsg \cup BeatMsg)
  BY DEF IInv, TypeOK
<1>3. ASSUME m \in ProbeMsg \cup OffsetMsg, down' = Append(down, m),
             m.kind = "probe" => Past(m.ss, now, m.mark)
      PROVE  /\ down' \in Seq(ProbeMsg \cup OffsetMsg) /\ ProbesPast' /\ Len(down) \in Nat
             /\ Len(down') = Len(down) + 1 /\ down'[Len(down) + 1] = m
             /\ \A i \in 1..Len(down) : down'[i] = down[i]
  <2>1. /\ down' \in Seq(ProbeMsg \cup OffsetMsg)
        /\ Len(down') = Len(down) + 1 /\ down'[Len(down) + 1] = m /\ Len(down) \in Nat
        /\ \A i \in 1..Len(down) : down'[i] = down[i]
    BY <1>2, <1>3, Appended
  <2>2. ASSUME NEW i \in 1..Len(down'), down'[i].kind = "probe"
        PROVE  Past(down'[i].ss, now, down'[i].mark)
    <3>1. i \in 1..Len(down) \/ i = Len(down) + 1
      BY <2>1
    <3> QED
      BY <1>3, <2>1, <2>2, <3>1 DEF IInv, ProbesPast
  <2> QED
    BY <1>1, <2>1, <2>2 DEF ProbesPast, Past
<1>4. ASSUME m \in ReplyMsg \cup BeatMsg, up' = Append(up, m),
             m.kind = "reply" => Past(m.ss, m.cr, m.mark) /\ m.cr <= m.cs /\ m.cs <= now
      PROVE  /\ up' \in Seq(ReplyMsg \cup BeatMsg) /\ RepliesPast' /\ Len(up) \in Nat
             /\ Len(up') = Len(up) + 1 /\ up'[Len(up) + 1] = m
  <2>1. /\ up' \in Seq(ReplyMsg \cup BeatMsg)
        /\ Len(up') = Len(up) + 1 /\ up'[Len(up) + 1] = m /\ Len(up) \in Nat
        /\ \A i \in 1..Len(up) : up'[i] = up[i]
    BY <1>2, <1>4, Appended
  <2>2. ASSUME NEW i \in 1..Len(up'), up'[i].kind = "reply"
        PROVE  Past(up'[i].ss, up'[i].cr, up'[i].mark)
               /\ up'[i].cr <= up'[i].cs /\ up'[i].cs <= now
    <3>1. i \in 1..Len(up) \/ i = Len(up) + 1
      BY <2>1
    <3> QED
      BY <1>4, <2>1, <2>2, <3>1 DEF IInv, RepliesPast
  <2> QED
    BY <1>1, <2>1, <2>2 DEF RepliesPast, Past
<1> QED
  BY <1>3, <1>4

\* A reply received now bounds the error of the offset it gives.
LEMMA RoundBound ==
  ASSUME IInv, NEW m, NEW ss \in Int, NEW mark \in Nat,
         m.cr \in Int, m.cs \in Int, Past(ss, m.cr, mark), m.cr <= m.cs, m.cs <= now,
         NEW r, r = Result(m, ss, mark)
  PROVE  /\ r \in Round /\ r.mark = mark /\ mark <= drift
         /\ Offset(r) \in Int /\ Rtt(r) \in Int
         /\ Within(Offset(r), Rtt(r) + 1 + 2 * (drift - mark))
<1>1. now \in Nat /\ skew \in Int /\ drift \in Nat
  BY DEF IInv, TypeOK
<1>2. PICK n \in Int, k \in Int, e \in Nat, t \in Int, c \in Int, v \in Int :
        n = now /\ k = skew /\ e = drift /\ t = m.cr /\ c = m.cs /\ v = now + skew
  BY <1>1
<1>3. mark <= e /\ ss - t - k <= e - mark /\ t <= c /\ c <= n /\ v = n + k
  BY <1>2 DEF Past
<1>4. PICK d \in Nat : d = e - mark
  BY <1>3
<1>5. LET o   == Half((ss - t) + (v - c))
          rtt == (v - ss) - (c - t)
      IN /\ o \in Int /\ rtt \in Int
         /\ 2 * (o - k) <= rtt + 1 + 2 * d
         /\ 2 * (k - o) <= rtt + 1 + 2 * d
  BY <1>3, <1>4, Estimate
<1>6. /\ r.ss = ss /\ r.cr = t /\ r.cs = c /\ r.sr = v /\ r.mark = mark /\ r \in Round
  BY <1>2 DEF Result, ServerTimeNow, Round
<1> QED
  BY <1>2, <1>3, <1>4, <1>5, <1>6 DEF Within, Offset, Rtt

-----------------------------------------------------------------------------
\* The actions of the server.

\* A probe carries the server's clock.
LEMMA ProbeSent ==
  ASSUME IInv, UNCHANGED clocks,
         down' = Append(down, [kind |-> "probe", ss |-> ServerTimeNow, mark |-> drift])
  PROVE  /\ down' \in Seq(ProbeMsg \cup OffsetMsg) /\ ProbesPast'
         /\ Len(down') = Len(down) + 1 /\ down'[Len(down) + 1].kind = "probe"
         /\ down'[Len(down) + 1].ss = ServerTimeNow /\ down'[Len(down) + 1].mark = drift
         /\ ServerTimeNow \in Int /\ Len(down) \in Nat
         /\ \A i \in 1..Len(down) : down'[i] = down[i]
<1>1. now \in Nat /\ skew \in Int /\ drift \in Nat
  BY DEF IInv, TypeOK
<1>2. ServerTimeNow \in Int
  BY <1>1 DEF ServerTimeNow
<1> DEFINE m == [kind |-> "probe", ss |-> ServerTimeNow, mark |-> drift]
<1>3. m \in ProbeMsg \cup OffsetMsg /\ m.kind = "probe" /\ m.ss = ServerTimeNow /\ m.mark = drift
  BY <1>1, <1>2 DEF ProbeMsg
<1>4. Past(m.ss, now, m.mark)
  BY <1>1, <1>3 DEF Past, ServerTimeNow
<1> HIDE DEF m
<1>5. down' = Append(down, m)
  BY DEF m
<1> QED
  BY <1>2, <1>3, <1>4, <1>5, Departure

LEMMA SendProbeIInv == ASSUME IInv, SendProbe PROVE IInv'
<1>1. TypeOK /\ HandshakeOrder /\ Lockstep /\ Marks
  BY DEF IInv
<1>2. /\ UNCHANGED <<clocks, up, results, clock, seen, probes, client>>
      /\ spc = "send" /\ spc' = "await"
      /\ down' = Append(down, [kind |-> "probe", ss |-> ServerTimeNow, mark |-> drift])
      /\ sent' = [ss |-> ServerTimeNow, mark |-> drift]
  BY DEF SendProbe
<1>3. /\ down' \in Seq(ProbeMsg \cup OffsetMsg) /\ ProbesPast'
      /\ Len(down') = Len(down) + 1 /\ down'[Len(down) + 1].kind = "probe"
      /\ down'[Len(down) + 1].ss = ServerTimeNow /\ down'[Len(down) + 1].mark = drift
      /\ ServerTimeNow \in Int /\ Len(down) \in Nat
      /\ \A i \in 1..Len(down) : down'[i] = down[i]
  BY <1>2, ProbeSent
<1>4. now' = now /\ drift' = drift /\ drift \in Nat
  BY <1>1, <1>2 DEF clocks, TypeOK
<1>5. TypeOK'
  BY <1>1, <1>2, <1>3 DEF TypeOK, clocks, client
<1>6. HandshakeOrder'
  <2>1. \A i \in 1..Len(down') : down'[i].kind = "probe"
    <3> SUFFICES ASSUME NEW i \in 1..Len(down') PROVE down'[i].kind = "probe"
      OBVIOUS
    <3>1. i \in 1..Len(down) \/ i = Len(down) + 1
      BY <1>3
    <3> QED
      BY <1>1, <1>2, <1>3, <3>1 DEF HandshakeOrder, InHandshake
  <2>2. Len(down') > 0
    BY <1>3
  <2> QED
    BY <1>1, <1>2, <2>1, <2>2 DEF HandshakeOrder, InHandshake, client
<1>7. Lockstep'
  <2> SUFFICES ASSUME ~SlowLink PROVE ProbeUnderWay'
    BY <1>2 DEF Lockstep
  <2>1. cpc = "idle" /\ up = <<>> /\ Len(down) = 0
    BY <1>1, <1>2 DEF Lockstep
  <2> QED
    BY <1>2, <1>3, <2>1 DEF ProbeUnderWay, client
<1>8. Marks'
  BY <1>1, <1>2, <1>4 DEF Marks
<1>9. RepliesPast' /\ Answering' /\ RoundsBounded' /\ ErrorsBounded'
  BY <1>2, Kept DEF client, Stored
<1> QED
  BY <1>3, <1>5, <1>6, <1>7, <1>8, <1>9 DEF IInv

\* The clock's difference that a round of the handshake measures is bounded
\* when its reply is the one to its probe.
LEMMA ReadReplyIInv == ASSUME IInv, ReadReply PROVE IInv'
<1>1. TypeOK /\ HandshakeOrder /\ Lockstep /\ Marks
  BY DEF IInv
<1>2. /\ UNCHANGED <<clocks, down, sent, clock, seen, probes, client>>
      /\ spc = "await" /\ up # <<>> /\ up' = Tail(up)
  BY DEF ReadReply
<1>3. /\ Head(up) \in ReplyMsg \cup BeatMsg /\ Head(up) = up[1] /\ 1 \in 1..Len(up)
      /\ up' \in Seq(ReplyMsg \cup BeatMsg) /\ Len(up') = Len(up) - 1 /\ RepliesPast'
  BY <1>2, Arrival
<1>4. PICK m : m = AsReply(Head(up))
  OBVIOUS
<1>5. /\ sent.ss \in Int /\ sent.mark \in Nat /\ m.cr \in Int /\ m.cs \in Int
      /\ Head(up).kind = "reply" => m.cr = up[1].cr /\ m.cs = up[1].cs
  BY <1>1, <1>3, <1>4, MessageType DEF TypeOK, AsReply
<1>6. PICK r : r = Result(m, sent.ss, sent.mark)
  OBVIOUS
<1>7. r \in Round /\ r.mark = sent.mark
  <2>1. ServerTimeNow \in Int
    BY <1>1 DEF TypeOK, ServerTimeNow
  <2> QED
    BY <1>5, <1>6, <2>1 DEF Result, Round
<1>8. results' = Append(results, r) /\ results \in Seq(Round)
  BY <1>1, <1>4, <1>6 DEF ReadReply, TypeOK
<1>9. /\ results' \in Seq(Round) /\ Len(results') = Len(results) + 1 /\ Len(results) \in Nat
      /\ \A i \in 1..Len(results) : results'[i] = results[i]
      /\ results'[Len(results) + 1] = r
      /\ \A i \in 1..Len(results') : i \in 1..Len(results) \/ i = Len(results) + 1
  BY <1>7, <1>8, Appended
<1>10. /\ Len(results') <= Rounds /\ spc' \in {"send", "store"}
       /\ spc' = "send" => Len(results') < Rounds
       /\ spc' = "store" => Len(results') = Rounds
  <2>1. Len(results) < Rounds
    BY <1>1, <1>2 DEF HandshakeOrder
  <2> QED
    BY <1>9, <2>1, RoundsAssumption DEF ReadReply
<1>11. TypeOK'
  BY <1>1, <1>2, <1>3, <1>9, <1>10 DEF TypeOK, clocks, client
<1>12. HandshakeOrder'
  BY <1>1, <1>2, <1>10 DEF HandshakeOrder, InHandshake, client
<1>13. ASSUME ~SlowLink
       PROVE  /\ cpc = "idle" /\ down = <<>> /\ up' = <<>> /\ up[1].kind = "reply"
              /\ up[1].ss = sent.ss /\ up[1].mark = sent.mark
  <2>1. /\ cpc = "idle" /\ down = <<>> /\ Len(up) = 1 /\ up[1].kind = "reply"
        /\ up[1].ss = sent.ss /\ up[1].mark = sent.mark
    BY <1>1, <1>2, <1>13 DEF Lockstep, ProbeUnderWay, ReplyBegun, ReplyUnderWay
  <2> QED
    BY <1>3, <2>1
<1>14. Lockstep'
  BY <1>2, <1>10, <1>13 DEF Lockstep, client
<1>15. RoundsBounded'
  <2> SUFFICES ASSUME ~SlowLink, NEW i \in 1..Len(results')
               PROVE  Within(Offset(results'[i]),
                             Rtt(results'[i]) + 1 + 2 * (drift - results'[i].mark))
    BY <1>2 DEF RoundsBounded, Within, Offset, Rtt, clocks
  <2>1. Past(sent.ss, m.cr, sent.mark) /\ m.cr <= m.cs /\ m.cs <= now
    BY <1>3, <1>5, <1>13 DEF IInv, RepliesPast
  <2>2. Within(Offset(r), Rtt(r) + 1 + 2 * (drift - r.mark))
    BY <1>5, <1>6, <1>7, <2>1, RoundBound
  <2> QED
    BY <1>9, <2>2 DEF IInv, RoundsBounded
<1>16. Marks'
  BY <1>1, <1>2, <1>7, <1>9 DEF Marks, clocks
<1>17. ProbesPast' /\ Answering' /\ ErrorsBounded'
  BY <1>2, <1>10, Kept DEF client, Stored
<1> QED
  BY <1>3, <1>11, <1>12, <1>14, <1>15, <1>16, <1>17 DEF IInv

LEMMA StoreBestIInv == ASSUME IInv, StoreBest PROVE IInv'
<1>1. TypeOK /\ HandshakeOrder /\ Lockstep /\ RoundsBounded /\ Marks
  BY DEF IInv
<1>2. /\ UNCHANGED <<clocks, down, up, probes, client>> /\ sent' = NoProbe /\ results' = <<>>
      /\ spc = "store" /\ spc' = "tell"
  BY DEF StoreBest
<1>3. PICK i \in 1..Len(results) :
        /\ clock' = [off |-> Offset(results[i]), rtt |-> Rtt(results[i]), mark |-> results[i].mark]
        /\ seen' = [rtt |-> Rtt(results[i]), mark |-> results[i].mark]
  BY <1>1 DEF StoreBest, TypeOK
<1>4. results[i] \in Round
  BY <1>1 DEF TypeOK
<1>5. /\ results[i].mark \in Nat /\ Offset(results[i]) \in Int /\ Rtt(results[i]) \in Int
  BY <1>4, RoundTypes DEF Round
<1>6. PICK f \in Int, q \in Int, m \in Nat :
        f = Offset(results[i]) /\ q = Rtt(results[i]) /\ m = results[i].mark
  BY <1>5
<1>7. clock' = [off |-> f, rtt |-> q, mark |-> m] /\ seen' = [rtt |-> q, mark |-> m]
  BY <1>3, <1>6
<1>8. PICK k \in Int, e \in Nat : k = skew /\ e = drift /\ skew' = k /\ drift' = e
  BY <1>1, <1>2 DEF TypeOK, clocks
<1>9. TypeOK'
  BY <1>1, <1>2, <1>7, RoundsAssumption DEF TypeOK, clocks, client, NoProbe
<1>10. HandshakeOrder' /\ Lockstep'
  BY <1>1, <1>2 DEF HandshakeOrder, InHandshake, Lockstep, client
<1>11. RoundsBounded'
  BY <1>2 DEF RoundsBounded
<1>12. ProbesPast' /\ RepliesPast' /\ Answering'
  BY <1>2, Kept DEF client
<1>13. Marks'
  BY <1>1, <1>2, <1>6, <1>7, <1>8 DEF Marks, NoProbe
<1>14. ErrorsBounded'
  <2> SUFFICES ASSUME ~SlowLink PROVE (OffsetBounded /\ DriftBounded)'
    BY DEF ErrorsBounded
  <2>1. 2 * (f - k) <= q + 1 + 2 * (e - m) /\ 2 * (k - f) <= q + 1 + 2 * (e - m)
    BY <1>1, <1>6, <1>8 DEF RoundsBounded, Within
  <2>2. /\ 2 * (f - k) <= q + 1 + 2 * Threshold + 2 * (e - m)
        /\ 2 * (k - f) <= q + 1 + 2 * Threshold + 2 * (e - m)
    BY <2>1, RoundsAssumption
  <2>3. clock'.off = f /\ clock'.rtt = q /\ clock'.mark = m /\ seen'.rtt = q /\ seen'.mark = m
    BY <1>7
  <2> QED
    BY <1>8, <2>1, <2>2, <2>3 DEF OffsetBounded, DriftBounded, Within
<1> QED
  BY <1>9, <1>10, <1>11, <1>12, <1>13, <1>14 DEF IInv

\* An offset on its way is none of the probes.
LEMMA OffsetSent ==
  ASSUME IInv, UNCHANGED clocks, down' = Append(down, [kind |-> "offset", off |-> clock.off])
  PROVE  /\ down' \in Seq(ProbeMsg \cup OffsetMsg) /\ ProbesPast'
         /\ Len(down') = Len(down) + 1 /\ down'[Len(down) + 1] = [kind |-> "offset", off |-> clock.off]
<1> DEFINE m == [kind |-> "offset", off |-> clock.off]
<1>1. m \in ProbeMsg \cup OffsetMsg /\ m.kind = "offset"
  BY DEF IInv, TypeOK, OffsetMsg
<1>2. down' = Append(down, m)
  OBVIOUS
<1> HIDE DEF m
<1>3. /\ down' \in Seq(ProbeMsg \cup OffsetMsg) /\ ProbesPast'
      /\ Len(down') = Len(down) + 1 /\ down'[Len(down) + 1] = m
  BY <1>1, <1>2, Departure
<1> QED
  BY <1>3 DEF m

LEMMA SendsOffsetIInv == ASSUME IInv, SendOffset \/ SendCorrection PROVE IInv'
<1>1. TypeOK /\ HandshakeOrder
  BY DEF IInv
<1>2. /\ UNCHANGED <<clocks, up, sent, results, clock, seen, probes, client>>
      /\ spc \in {"tell", "correct"} /\ spc' = "loop"
      /\ down' = Append(down, [kind |-> "offset", off |-> clock.off])
  BY DEF SendOffset, SendCorrection
<1>3. down' \in Seq(ProbeMsg \cup OffsetMsg) /\ ProbesPast'
  BY <1>2, OffsetSent
<1>4. TypeOK'
  BY <1>1, <1>2, <1>3 DEF TypeOK, clocks, client
<1>5. HandshakeOrder' /\ Lockstep'
  BY <1>2 DEF HandshakeOrder, InHandshake, Lockstep
<1>6. RepliesPast' /\ Answering' /\ RoundsBounded' /\ Marks' /\ ErrorsBounded'
  BY <1>2, Kept DEF client, Stored
<1> QED
  BY <1>3, <1>4, <1>5, <1>6 DEF IInv

LEMMA SendPeriodicProbeIInv == ASSUME IInv, SendPeriodicProbe PROVE IInv'
<1>1. TypeOK
  BY DEF IInv
<1>2. /\ UNCHANGED <<clocks, up, spc, sent, results, clock, seen, client>>
      /\ spc \in {"loop", "correct"} /\ probes' = probes + 1
  BY DEF SendPeriodicProbe
<1>3. down' \in Seq(ProbeMsg \cup OffsetMsg) /\ ProbesPast'
  BY <1>2, ProbeSent DEF SendPeriodicProbe
<1>4. TypeOK'
  BY <1>1, <1>2, <1>3 DEF TypeOK, clocks, client
<1>5. HandshakeOrder' /\ Lockstep'
  BY <1>2 DEF HandshakeOrder, InHandshake, Lockstep
<1>6. RepliesPast' /\ Answering' /\ RoundsBounded' /\ Marks' /\ ErrorsBounded'
  BY <1>2, Kept DEF client, Stored
<1> QED
  BY <1>3, <1>4, <1>5, <1>6 DEF IInv

LEMMA HeartbeatIInv == ASSUME IInv, Heartbeat PROVE IInv'
<1>1. TypeOK
  BY DEF IInv
<1>2. UNCHANGED <<clocks, down, server, client>> /\ spc = "loop" /\ up # <<>> /\ up' = Tail(up)
  BY DEF Heartbeat
<1>3. up' \in Seq(ReplyMsg \cup BeatMsg) /\ RepliesPast'
  BY <1>2, Arrival
<1>4. TypeOK'
  BY <1>1, <1>2, <1>3 DEF TypeOK, clocks, server, client
<1>5. HandshakeOrder' /\ Lockstep'
  BY <1>2 DEF HandshakeOrder, InHandshake, Lockstep, server
<1>6. ProbesPast' /\ Answering' /\ RoundsBounded' /\ Marks' /\ ErrorsBounded'
  BY <1>2, Kept DEF server, client, Stored
<1> QED
  BY <1>3, <1>4, <1>5, <1>6 DEF IInv

\* The reply processed bounds the error whether it replaces the clock or not,
\* and whatever the offset was.
LEMMA ReplyBounds ==
  ASSUME IInv, ProcessPeriodicReply
  PROVE  /\ TypeOK' /\ Marks' /\ Stored' /\ DriftBounded'
         /\ OffsetBounded => OffsetBounded'
<1>1. TypeOK /\ Marks
  BY DEF IInv
<1>2. /\ UNCHANGED <<clocks, down, sent, results, probes, client>>
      /\ spc = "loop" /\ up # <<>> /\ up' = Tail(up) /\ Head(up).kind = "reply"
  BY DEF ProcessPeriodicReply
<1>3. /\ Head(up) \in ReplyMsg \cup BeatMsg /\ Head(up) = up[1] /\ 1 \in 1..Len(up)
      /\ up' \in Seq(ReplyMsg \cup BeatMsg) /\ RepliesPast'
  BY <1>2, Arrival
<1>4. PICK m : m = Head(up)
  OBVIOUS
<1>5. m.ss \in Int /\ m.cr \in Int /\ m.cs \in Int /\ m.mark \in Nat
  BY <1>2, <1>3, <1>4, MessageType
<1>6. Past(m.ss, m.cr, m.mark) /\ m.cr <= m.cs /\ m.cs <= now
  BY <1>2, <1>3, <1>4 DEF IInv, RepliesPast
<1>7. PICK r : r = Result(m, m.ss, m.mark)
  OBVIOUS
<1>8. /\ r.mark = m.mark /\ r.mark <= drift /\ Offset(r) \in Int /\ Rtt(r) \in Int
      /\ Within(Offset(r), Rtt(r) + 1 + 2 * (drift - r.mark))
  BY <1>5, <1>6, <1>7, RoundBound
<1>9. PICK f \in Int, q \in Int, t \in Nat : f = Offset(r) /\ q = Rtt(r) /\ t = r.mark
  BY <1>5, <1>8
<1>10. /\ seen' = [rtt |-> q, mark |-> t]
       /\ IF Far(f, clock.off)
          THEN clock' = [off |-> f, rtt |-> q, mark |-> t] /\ spc' = "correct"
          ELSE UNCHANGED <<clock, spc>>
  BY <1>4, <1>7, <1>9 DEF ProcessPeriodicReply
<1>11. clock' \in [off : Int, rtt : Int, mark : Nat] /\ spc' \in {"loop", "correct"}
  <2>1. clock \in [off : Int, rtt : Int, mark : Nat]
    BY <1>1 DEF TypeOK
  <2>2. CASE Far(f, clock.off)
    BY <1>10, <2>2
  <2>3. CASE ~Far(f, clock.off)
    BY <1>2, <1>10, <2>1, <2>3
  <2> QED
    BY <2>2, <2>3
<1>12. TypeOK'
  <2>1. seen' \in [rtt : Int, mark : Nat]
    BY <1>10
  <2> QED
    BY <1>1, <1>2, <1>3, <1>11, <2>1 DEF TypeOK, clocks, client
<1>13. Stored' /\ Stored
  BY <1>2, <1>11 DEF Stored
<1>14. PICK k \in Int, e \in Nat, g \in Int :
         k = skew /\ e = drift /\ g = clock.off /\ skew' = k /\ drift' = e
  BY <1>1, <1>2 DEF clocks, TypeOK
<1>15. t <= e /\ 2 * (f - k) <= q + 1 + 2 * (e - t) /\ 2 * (k - f) <= q + 1 + 2 * (e - t)
  BY <1>8, <1>9, <1>14 DEF Within
<1>16. seen'.rtt = q /\ seen'.mark = t
  BY <1>10
<1>17. CASE Far(f, g)
  <2>1. clock'.off = f /\ clock'.rtt = q /\ clock'.mark = t
    BY <1>10, <1>14, <1>17
  <2>2. /\ 2 * (f - k) <= q + 1 + 2 * Threshold + 2 * (e - t)
        /\ 2 * (k - f) <= q + 1 + 2 * Threshold + 2 * (e - t)
    BY <1>15, RoundsAssumption
  <2>3. Marks'
    BY <1>1, <1>2, <1>14, <1>15, <1>16, <2>1 DEF Marks
  <2> QED
    BY <1>12, <1>13, <1>14, <1>15, <1>16, <2>1, <2>2, <2>3 DEF OffsetBounded, DriftBounded, Within
<1>18. CASE ~Far(f, g)
  <2>1. clock' = clock
    BY <1>10, <1>14, <1>18
  <2>2. f - g <= Threshold /\ g - f <= Threshold
    BY <1>18, RoundsAssumption DEF Far
  <2>3. /\ 2 * (g - k) <= q + 1 + 2 * Threshold + 2 * (e - t)
        /\ 2 * (k - g) <= q + 1 + 2 * Threshold + 2 * (e - t)
    BY <1>15, <2>2, RoundsAssumption
  <2>4. Marks'
    BY <1>1, <1>2, <1>14, <1>15, <1>16, <2>1 DEF Marks
  <2>5. OffsetBounded => OffsetBounded'
    BY <1>13, <1>14, <2>1 DEF OffsetBounded, Within
  <2>6. DriftBounded'
    BY <1>14, <1>16, <2>1, <2>3 DEF DriftBounded, Within
  <2> QED
    BY <1>12, <1>13, <2>4, <2>5, <2>6
<1> QED
  BY <1>17, <1>18

LEMMA ProcessPeriodicReplyIInv == ASSUME IInv, ProcessPeriodicReply PROVE IInv'
<1>1. /\ UNCHANGED <<clocks, down, sent, results, probes, client>>
      /\ spc = "loop" /\ up # <<>> /\ up' = Tail(up) /\ spc' \in {"loop", "correct"}
  BY DEF ProcessPeriodicReply
<1>2. /\ TypeOK' /\ Marks' /\ DriftBounded'
      /\ OffsetBounded => OffsetBounded'
  BY ReplyBounds
<1>3. HandshakeOrder' /\ Lockstep'
  BY <1>1 DEF HandshakeOrder, InHandshake, Lockstep
<1>4. RepliesPast'
  BY <1>1, Arrival
<1>5. ProbesPast' /\ Answering' /\ RoundsBounded'
  BY <1>1, Kept DEF client
<1>6. ErrorsBounded'
  BY <1>2 DEF IInv, ErrorsBounded
<1> QED
  BY <1>2, <1>3, <1>4, <1>5, <1>6 DEF IInv

-----------------------------------------------------------------------------
\* The actions of the client.

LEMMA ReceiveProbeIInv == ASSUME IInv, ReceiveProbe PROVE IInv'
<1>1. TypeOK /\ HandshakeOrder /\ Lockstep
  BY DEF IInv
<1>2. /\ UNCHANGED <<clocks, up, server, offset, synced, beats>>
      /\ cpc = "idle" /\ down # <<>> /\ down' = Tail(down) /\ Head(down).kind = "probe"
      /\ cpc' = "reply" /\ recvTs' = now
  BY DEF ReceiveProbe
<1>3. /\ Head(down) \in ProbeMsg \cup OffsetMsg /\ Head(down) = down[1] /\ 1 \in 1..Len(down)
      /\ down' \in Seq(ProbeMsg \cup OffsetMsg) /\ Len(down') = Len(down) - 1 /\ ProbesPast'
      /\ \A i \in 1..Len(down') : i + 1 \in 1..Len(down) /\ down'[i] = down[i + 1]
  BY <1>2, Arrival
<1>4. probe' = [ss |-> down[1].ss, mark |-> down[1].mark]
  BY <1>3 DEF ReceiveProbe
<1>5. down[1].ss \in Int /\ down[1].mark \in Nat
  BY <1>2, <1>3, MessageType
<1>6. now \in Nat
  BY <1>1 DEF TypeOK
<1>7. TypeOK'
  BY <1>1, <1>2, <1>3, <1>4, <1>5, <1>6 DEF TypeOK, clocks, server
<1>8. HandshakeOrder'
  BY <1>1, <1>2, <1>3 DEF HandshakeOrder, InHandshake, server
<1>9. Lockstep'
  <2> SUFFICES ASSUME ~SlowLink, spc = "await" PROVE ReplyBegun'
    BY <1>1, <1>2 DEF Lockstep, server
  <2>1. ProbeUnderWay
    BY <1>1, <1>2 DEF Lockstep, ReplyBegun, ReplyUnderWay
  <2>2. down' = <<>> /\ up' = <<>>
    BY <1>2, <1>3, <2>1 DEF ProbeUnderWay
  <2>3. sent \in [ss : Int, mark : Nat] /\ sent' = sent
    BY <1>1, <1>2 DEF TypeOK, server
  <2>4. probe' = sent'
    BY <1>4, <2>1, <2>3 DEF ProbeUnderWay
  <2> QED
    BY <1>2, <2>2, <2>4 DEF ReplyBegun
<1>10. Answering'
  <2>1. Past(down[1].ss, now, down[1].mark)
    BY <1>2, <1>3 DEF IInv, ProbesPast
  <2> QED
    BY <1>2, <1>4, <1>6, <2>1 DEF Answering, Past, clocks
<1>11. RepliesPast' /\ RoundsBounded' /\ Marks' /\ ErrorsBounded'
  BY <1>2, Kept DEF server, Stored
<1> QED
  BY <1>3, <1>7, <1>8, <1>9, <1>10, <1>11 DEF IInv

LEMMA SendReplyIInv == ASSUME IInv, SendReply PROVE IInv'
<1>1. TypeOK /\ HandshakeOrder /\ Lockstep /\ Answering
  BY DEF IInv
<1>2. /\ UNCHANGED <<clocks, down, server, offset, synced, beats>>
      /\ cpc = "reply" /\ cpc' = "idle" /\ probe' = NoProbe /\ recvTs' = 0
  BY DEF SendReply
<1>3. PICK m : m = [kind |-> "reply", ss |-> probe.ss, cr |-> recvTs,
                    cs |-> now, mark |-> probe.mark]
  OBVIOUS
<1>4. /\ m.kind = "reply" /\ m.ss = probe.ss /\ m.cr = recvTs /\ m.cs = now
      /\ m.mark = probe.mark
  BY <1>3
<1>5. now \in Nat
  BY <1>1 DEF TypeOK
<1>6. m \in ReplyMsg \cup BeatMsg /\ up' = Append(up, m)
  BY <1>1, <1>3, <1>5 DEF TypeOK, ReplyMsg, SendReply
<1>7. Past(m.ss, m.cr, m.mark) /\ m.cr <= m.cs /\ m.cs <= now
  BY <1>1, <1>2, <1>4, <1>5 DEF Answering
<1>8. /\ up' \in Seq(ReplyMsg \cup BeatMsg) /\ RepliesPast' /\ Len(up) \in Nat
      /\ Len(up') = Len(up) + 1 /\ up'[Len(up) + 1] = m
  BY <1>2, <1>6, <1>7, Departure
<1>9. TypeOK'
  BY <1>1, <1>2, <1>8 DEF TypeOK, clocks, server, NoProbe
<1>10. HandshakeOrder'
  BY <1>1, <1>2, <1>8 DEF HandshakeOrder, InHandshake, server
<1>11. Lockstep'
  <2> SUFFICES ASSUME ~SlowLink, spc = "await" PROVE ReplyUnderWay'
    BY <1>1, <1>2 DEF Lockstep, server
  <2>1. ReplyBegun
    BY <1>1, <1>2 DEF Lockstep, ProbeUnderWay, ReplyUnderWay
  <2>2. Len(up') = 1 /\ up'[1] = m
    BY <1>8, <2>1 DEF ReplyBegun
  <2> QED
    BY <1>2, <1>4, <2>1, <2>2 DEF ReplyBegun, ReplyUnderWay, server
<1>12. Answering'
  BY <1>2 DEF Answering
<1>13. ProbesPast' /\ RoundsBounded' /\ Marks' /\ ErrorsBounded'
  BY <1>2, Kept DEF server, Stored
<1> QED
  BY <1>8, <1>9, <1>10, <1>11, <1>12, <1>13 DEF IInv

\* The offset is sent after the handshake.
LEMMA ReceiveOffsetIInv == ASSUME IInv, ReceiveOffset PROVE IInv'
<1>1. TypeOK /\ HandshakeOrder
  BY DEF IInv
<1>2. /\ UNCHANGED <<clocks, up, server, cpc, probe, recvTs, beats>>
      /\ down # <<>> /\ down' = Tail(down) /\ Head(down).kind = "offset"
      /\ offset' = Head(down).off /\ synced' = TRUE
  BY DEF ReceiveOffset
<1>3. /\ Head(down) \in ProbeMsg \cup OffsetMsg /\ Head(down) = down[1] /\ 1 \in 1..Len(down)
      /\ down' \in Seq(ProbeMsg \cup OffsetMsg) /\ ProbesPast'
  BY <1>2, Arrival
<1>4. offset' \in Int
  BY <1>2, <1>3, MessageType
<1>5. TypeOK'
  BY <1>1, <1>2, <1>3, <1>4 DEF TypeOK, clocks, server
<1>6. ~InHandshake
  BY <1>1, <1>2, <1>3 DEF HandshakeOrder
<1>7. HandshakeOrder' /\ Lockstep'
  BY <1>2, <1>6 DEF HandshakeOrder, InHandshake, Lockstep, server
<1>8. RepliesPast' /\ Answering' /\ RoundsBounded' /\ Marks' /\ ErrorsBounded'
  BY <1>2, Kept DEF server, Stored
<1> QED
  BY <1>3, <1>5, <1>7, <1>8 DEF IInv

\* Without a slow link heartbeats follow the handshake.
LEMMA SendHeartbeatIInv == ASSUME IInv, SendHeartbeat PROVE IInv'
<1>1. TypeOK /\ HandshakeOrder
  BY DEF IInv
<1>2. /\ UNCHANGED <<clocks, down, server, cpc, probe, recvTs, offset, synced>>
      /\ up' = Append(up, [kind |-> "beat"]) /\ beats' = beats + 1 /\ (SlowLink \/ synced)
  BY DEF SendHeartbeat
<1>3. PICK m : m = [kind |-> "beat"]
  OBVIOUS
<1>4. m \in ReplyMsg \cup BeatMsg /\ m.kind = "beat" /\ up' = Append(up, m)
  BY <1>2, <1>3 DEF BeatMsg
<1>5. /\ up' \in Seq(ReplyMsg \cup BeatMsg) /\ RepliesPast'
      /\ Len(up) \in Nat /\ Len(up') = Len(up) + 1
  BY <1>2, <1>4, Departure
<1>6. TypeOK'
  BY <1>1, <1>2, <1>5 DEF TypeOK, clocks, server
<1>7. HandshakeOrder'
  BY <1>1, <1>2, <1>5 DEF HandshakeOrder, InHandshake, server
<1>8. Lockstep'
  BY <1>1, <1>2 DEF HandshakeOrder, InHandshake, Lockstep, server
<1>9. ProbesPast' /\ Answering' /\ RoundsBounded' /\ Marks' /\ ErrorsBounded'
  BY <1>2, Kept DEF server, Stored
<1> QED
  BY <1>5, <1>6, <1>7, <1>8, <1>9 DEF IInv

LEMMA NextIInv == ASSUME IInv, [Next]_vars PROVE IInv'
<1>1. CASE UNCHANGED vars
  <2>1. UNCHANGED <<clocks, down, up, server, client>>
    BY <1>1 DEF vars
  <2>2. TypeOK' /\ HandshakeOrder' /\ Lockstep'
    BY <2>1 DEF IInv, TypeOK, HandshakeOrder, InHandshake, Lockstep, ProbeUnderWay, ReplyBegun,
       ReplyUnderWay, clocks, server, client
  <2>3. ProbesPast' /\ RepliesPast' /\ Answering' /\ RoundsBounded' /\ Marks' /\ ErrorsBounded'
    BY <2>1, Kept DEF server, client, Stored
  <2> QED
    BY <2>2, <2>3 DEF IInv
<1>2. CASE Next
  BY <1>2, ClocksIInv, SendProbeIInv, ReadReplyIInv, StoreBestIInv, SendsOffsetIInv,
     SendPeriodicProbeIInv, HeartbeatIInv, ProcessPeriodicReplyIInv, ReceiveProbeIInv,
     SendReplyIInv, ReceiveOffsetIInv, SendHeartbeatIInv DEF Next, ServerStep, ClientStep
<1> QED
  BY <1>1, <1>2

\* After the handshake no step other than a reply's disturbs the bound.
LEMMA NextHeals ==
  ASSUME IInv, [Next]_vars
  PROVE  /\ ProcessPeriodicReply => Stored' /\ DriftBounded'
         /\ Stored /\ DriftBounded => Stored' /\ DriftBounded'
<1>1. ProcessPeriodicReply => Stored' /\ DriftBounded'
  BY ReplyBounds
<1>2. ASSUME Stored, DriftBounded, ~ProcessPeriodicReply PROVE Stored' /\ DriftBounded'
  <2>1. CASE Tick \/ \E d \in {-1, 1} : Drift(d)
    <3>1. Stored'
      BY <1>2, <2>1 DEF Tick, Drift, server, Stored
    <3> QED
      BY <1>2, <2>1, <3>1, ClocksIInv
  <2>2. CASE UNCHANGED <<clocks, clock, seen>> /\ Stored'
    BY <1>2, <2>2, Kept
  <2>3. CASE SendOffset \/ SendCorrection \/ SendPeriodicProbe \/ Heartbeat
    <3>1. UNCHANGED <<clocks, clock, seen>> /\ Stored'
      BY <1>2, <2>3 DEF SendOffset, SendCorrection, SendPeriodicProbe, Heartbeat, server, Stored
    <3> QED
      BY <2>2, <3>1
  <2>4. CASE SendProbe \/ ReadReply \/ StoreBest
    BY <1>2, <2>4 DEF SendProbe, ReadReply, StoreBest, Stored
  <2>5. CASE ReceiveProbe \/ SendReply \/ ReceiveOffset \/ SendHeartbeat \/ UNCHANGED vars
    <3>1. UNCHANGED <<clocks, clock, seen>> /\ Stored'
      BY <1>2, <2>5 DEF ReceiveProbe, SendReply, ReceiveOffset, SendHeartbeat, vars, server, Stored
    <3> QED
      BY <2>2, <3>1
  <2> QED
    BY <1>2, <2>1, <2>3, <2>4, <2>5 DEF Next, ServerStep, ClientStep
<1> QED
  BY <1>1, <1>2

-----------------------------------------------------------------------------
\* IInv holds in every state.
THEOREM Invariance == Spec => []IInv
<1>1. Init => IInv
  BY InitIInv
<1>2. IInv /\ [Next]_vars => IInv'
  BY NextIInv
<1> QED
  BY <1>1, <1>2, PTL DEF Spec

\* Every variable has its type, and a handshake has at most Rounds rounds.
THEOREM TypeCorrect == Spec => []TypeOK
<1>1. IInv => TypeOK
  BY DEF IInv
<1> QED
  BY <1>1, Invariance, PTL

\* The error of a stored offset is at most half of the round trip stored with
\* it, if no heartbeat is read as a reply: clock.go takes the round with the
\* lowest one, and no choice of the delays makes its offset worse than that.
THEOREM OffsetErrorBounded == ASSUME ~SlowLink PROVE Spec => []OffsetBounded
<1>1. IInv => OffsetBounded
  BY DEF IInv, ErrorsBounded
<1> QED
  BY <1>1, Invariance, PTL

\* ProcessPeriodicReply leaves no error beyond its threshold and half of the
\* round trip of the reply.
THEOREM DriftErrorBounded == ASSUME ~SlowLink PROVE Spec => []DriftBounded
<1>1. IInv => DriftBounded
  BY DEF IInv, ErrorsBounded
<1> QED
  BY <1>1, Invariance, PTL

\* An offset that a heartbeat spoiled in the handshake is gone after the first
\* periodic reply, and no later step brings such an error back.
THEOREM SpoiledOffsetHeals == Spec => RepliesHeal
<1>1. IInv /\ [Next]_vars =>
        [/\ ProcessPeriodicReply => Stored' /\ DriftBounded'
         /\ Stored /\ DriftBounded => Stored' /\ DriftBounded']_vars
  BY NextHeals
<1> QED
  BY <1>1, Invariance, PTL DEF Spec, RepliesHeal

\* The handshake of tcp.go never waits for an answer that is not on its way:
\* no order of the probes, replies and heartbeats leaves both sides waiting.
THEOREM HandshakeNeverStuck == Spec => []HandshakeGoesOn
<1>1. ASSUME IInv PROVE HandshakeGoesOn
  <2>1. /\ down \in Seq(ProbeMsg \cup OffsetMsg) /\ up \in Seq(ReplyMsg \cup BeatMsg)
        /\ results \in Seq(Round) /\ cpc \in {"idle", "reply"}
    BY <1>1 DEF IInv, TypeOK
  <2>2. HandshakeOrder
    BY <1>1 DEF IInv
  <2>3. spc = "store" => results # <<>>
    BY <2>1, <2>2, RoundsAssumption DEF HandshakeOrder
  <2>4. InHandshake /\ Len(down) > 0 => down # <<>> /\ Head(down).kind = "probe"
    BY <2>1, <2>2 DEF HandshakeOrder
  <2>5. Len(up) > 0 => up # <<>>
    BY <2>1
  <2> QED
    BY <2>1, <2>2, <2>3, <2>4, <2>5 DEF HandshakeGoesOn, HandshakeOrder, InHandshake
<1> QED
  BY <1>1, Invariance, PTL

-----------------------------------------------------------------------------
\* The last offset on its way, followed by probes alone, is the one the server
\* holds.
LastOffset ==
  spc = "loop" =>
    \A i \in 1..Len(down) :
      /\ down[i].kind = "offset"
      /\ \A j \in i + 1..Len(down) : down[j].kind = "probe"
      => down[i].off = clock.off

LEMMA NextAgrees ==
  ASSUME IInv, LastOffset, ClientAgrees, [Next]_vars
  PROVE  LastOffset' /\ ClientAgrees'
<1>1. TypeOK
  BY DEF IInv
<1>2. down \in Seq(ProbeMsg \cup OffsetMsg) /\ Len(down) \in Nat
  BY <1>1 DEF TypeOK
<1>3. CASE spc' = "loop" /\ UNCHANGED <<down, clock, spc, offset>>
  BY <1>3 DEF LastOffset, ClientAgrees
<1>4. CASE spc' # "loop"
  BY <1>4 DEF LastOffset, ClientAgrees
<1>5. CASE SendOffset \/ SendCorrection
  <2>1. down' = Append(down, [kind |-> "offset", off |-> clock.off]) /\ clock' = clock
    BY <1>5 DEF SendOffset, SendCorrection
  <2>2. [kind |-> "offset", off |-> clock.off] \in ProbeMsg \cup OffsetMsg
    BY <1>1 DEF TypeOK, OffsetMsg
  <2>3. /\ Len(down') = Len(down) + 1
        /\ down'[Len(down) + 1] = [kind |-> "offset", off |-> clock.off]
    BY <1>2, <2>1, <2>2, Appended
  <2>4. LastOffset'
    <3> SUFFICES ASSUME NEW i \in 1..Len(down'),
                        \A j \in i + 1..Len(down') : down'[j].kind = "probe"
                 PROVE  down'[i].off = clock.off
      BY <2>1 DEF LastOffset
    <3>1. i = Len(down) + 1
      BY <1>2, <2>3
    <3> QED
      BY <2>3, <3>1
  <2>5. ClientAgrees'
    BY <1>2, <2>3 DEF ClientAgrees
  <2> QED
    BY <2>4, <2>5
<1>6. CASE SendPeriodicProbe /\ spc = "loop"
  <2> DEFINE m == [kind |-> "probe", ss |-> ServerTimeNow, mark |-> drift]
  <2>1. down' = Append(down, m) /\ clock' = clock /\ offset' = offset /\ m.kind = "probe"
    BY <1>6 DEF SendPeriodicProbe, client
  <2>2. m \in ProbeMsg \cup OffsetMsg
    BY <1>1 DEF TypeOK, ServerTimeNow, ProbeMsg
  <2> HIDE DEF m
  <2>3. /\ Len(down') = Len(down) + 1 /\ down'[Len(down) + 1].kind = "probe"
        /\ \A i \in 1..Len(down) : down'[i] = down[i]
    BY <1>2, <2>1, <2>2, Appended
  <2>4. LastOffset'
    <3> SUFFICES ASSUME NEW i \in 1..Len(down'), down'[i].kind = "offset",
                        \A j \in i + 1..Len(down') : down'[j].kind = "probe"
                 PROVE  down'[i].off = clock.off
      BY <2>1 DEF LastOffset
    <3>1. i \in 1..Len(down)
      BY <1>2, <2>3
    <3>2. \A j \in i + 1..Len(down) : j \in i + 1..Len(down') /\ down'[j] = down[j]
      BY <1>2, <2>3, <3>1
    <3> QED
      BY <1>6, <2>3, <3>1, <3>2 DEF LastOffset
  <2>5. ClientAgrees'
    <3>1. (\A i \in 1..Len(down') : down'[i].kind = "probe") => \A i \in 1..Len(down) : down[i].kind = "probe"
      BY <1>2, <2>3
    <3>2. DOMAIN down = 1..Len(down) /\ DOMAIN down' = 1..Len(down')
      BY <1>2, <2>1, <2>2
    <3> QED
      BY <1>6, <2>1, <3>1, <3>2 DEF ClientAgrees
  <2> QED
    BY <2>4, <2>5
<1>7. CASE (ReceiveProbe \/ ReceiveOffset) /\ spc = "loop"
  <2>1. /\ down # <<>> /\ down' = Tail(down) /\ clock' = clock /\ spc' = spc
        /\ \/ Head(down).kind = "probe" /\ offset' = offset
           \/ Head(down).kind = "offset" /\ offset' = Head(down).off
    <3>1. CASE ReceiveProbe
      BY <3>1 DEF ReceiveProbe, server
    <3>2. CASE ReceiveOffset
      BY <3>2 DEF ReceiveOffset, server
    <3> QED
      BY <1>7, <3>1, <3>2
  <2>2. /\ Head(down) = down[1] /\ down' \in Seq(ProbeMsg \cup OffsetMsg)
        /\ Len(down) \in Nat \ {0} /\ Len(down') = Len(down) - 1
        /\ \A i \in 1..Len(down') : i + 1 \in 1..Len(down) /\ down'[i] = down[i + 1]
    BY <1>2, <2>1, Dequeued
  <2>3. ASSUME NEW i \in 1..Len(down), i > 1,
               \A j \in i..Len(down') : down'[j].kind = "probe"
        PROVE  \A j \in i + 1..Len(down) : down[j].kind = "probe"
    <3> SUFFICES ASSUME NEW j \in i + 1..Len(down) PROVE down[j].kind = "probe"
      OBVIOUS
    <3>1. j - 1 \in i..Len(down') /\ j - 1 \in 1..Len(down') /\ (j - 1) + 1 = j
      BY <2>2, <2>3
    <3> QED
      BY <2>2, <2>3, <3>1
  <2>4. LastOffset'
    <3> SUFFICES ASSUME NEW i \in 1..Len(down'), down'[i].kind = "offset",
                        \A j \in i + 1..Len(down') : down'[j].kind = "probe"
                 PROVE  down'[i].off = clock.off
      BY <2>1 DEF LastOffset
    <3>1. i + 1 \in 1..Len(down) /\ down'[i] = down[i + 1] /\ i + 1 > 1
      BY <2>2
    <3>2. \A j \in (i + 1) + 1..Len(down) : down[j].kind = "probe"
      BY <2>3, <3>1
    <3> QED
      BY <1>7, <3>1, <3>2 DEF LastOffset
  <2>5. ClientAgrees'
    <3> SUFFICES ASSUME \A i \in 1..Len(down') : down'[i].kind = "probe"
                 PROVE  offset' = clock.off
      <4>1. DOMAIN down' = 1..Len(down')
        BY <2>2
      <4> QED
        BY <2>1, <4>1 DEF ClientAgrees
    <3>1. \A j \in 2..Len(down) : down[j].kind = "probe"
      <4> SUFFICES ASSUME NEW j \in 2..Len(down) PROVE down[j].kind = "probe"
        OBVIOUS
      <4>1. j - 1 \in 1..Len(down') /\ (j - 1) + 1 = j
        BY <2>2
      <4> QED
        BY <2>2, <4>1
    <3>2. CASE down[1].kind = "probe"
      <4>1. \A j \in 1..Len(down) : down[j].kind = "probe"
        BY <2>2, <3>1, <3>2
      <4>2. DOMAIN down = 1..Len(down)
        BY <1>2
      <4> QED
        BY <1>7, <2>1, <2>2, <3>2, <4>1, <4>2 DEF ClientAgrees
    <3>3. CASE down[1].kind = "offset"
      <4>1. 1 \in 1..Len(down) /\ 1 + 1 = 2
        BY <2>2
      <4> QED
        BY <1>7, <2>1, <2>2, <3>1, <3>3, <4>1 DEF LastOffset
    <3> QED
      BY <2>1, <2>2, <3>2, <3>3
  <2> QED
    BY <2>4, <2>5
<1>8. CASE UNCHANGED vars
  BY <1>3, <1>4, <1>8 DEF vars, server, client
<1>9. CASE Next
  <2>1. CASE Tick \/ \E d \in {-1, 1} : Drift(d)
    BY <1>3, <1>4, <2>1 DEF Tick, Drift, server, client
  <2>2. CASE SendProbe \/ ReadReply \/ StoreBest
    BY <1>4, <2>2 DEF SendProbe, ReadReply, StoreBest
  <2>3. CASE Heartbeat \/ SendReply \/ SendHeartbeat
    BY <1>3, <1>4, <2>3 DEF Heartbeat, SendReply, SendHeartbeat, server, client
  <2>4. CASE ProcessPeriodicReply
    BY <1>3, <1>4, <2>4 DEF ProcessPeriodicReply, client
  <2>5. CASE SendPeriodicProbe \/ ReceiveProbe \/ ReceiveOffset
    BY <1>4, <1>6, <1>7, <2>5 DEF SendPeriodicProbe, ReceiveProbe, ReceiveOffset, server
  <2> QED
    BY <1>5, <1>9, <2>1, <2>2, <2>3, <2>4, <2>5 DEF Next, ServerStep, ClientStep
<1> QED
  BY <1>8, <1>9

\* The client ends up with every correction: one that has received all that
\* was sent holds the offset the server holds, whatever probes overtook it in
\* the handler.
THEOREM ClientOffsetAgrees == Spec => []ClientAgrees
<1>1. Init => LastOffset /\ ClientAgrees
  BY DEF Init, LastOffset, ClientAgrees
<1>2. IInv /\ LastOffset /\ ClientAgrees /\ [Next]_vars => (LastOffset /\ ClientAgrees)'
  BY NextAgrees
<1> QED
  BY <1>1, <1>2, Invariance, PTL DEF Spec
=============================================================================
