-------------------------- MODULE DashboardProofs --------------------------
(***************************************************************************)
(* Proofs about Dashboard, for any sizes of the ring and the buffer and    *)
(* any number of requests and moves: the event log misses nothing that the *)
(* daemon still has, and a refused command leaves no trace on a card.      *)
(***************************************************************************)
EXTENDS Dashboard, SequenceTheorems, FiniteSetTheorems, TLAPS

-----------------------------------------------------------------------------
(* The event log.                                                          *)

Envelope == [id : Nat, rel : BOOLEAN]

Stream == [st : {"closed", "waiting", "open"}, since : Nat, pipe : Seq(Envelope),
           buf : Seq(Nat), same : BOOLEAN]

\* Events that follow each other without a gap, up to the one before the next.
UpToDate(q, next) == \A k \in 1 .. Len(q) : q[k].id = next - 1 - Len(q) + k

RingOK(r, next) == Len(r) < next /\ UpToDate(r, next)

\* The newest of the buffer is the last event received, and before it come, as
\* far as the buffer goes, those that the ring still has.
BufferOK(r, next, s) ==
  LET last == Len(s.buf) IN
  /\ s.since < next
  /\ IF s.since = 0 THEN last = 0 ELSE last > 0 /\ s.buf[last] = s.since
  /\ \A j \in 0 .. MaxEvents - 1 :
       s.since - j > next - 1 - Len(r) => j < last /\ s.buf[last - j] = s.since - j

\* What is on its way begins right after that, unless the ring has lost it.
PipeOK(r, next, s) ==
  /\ UpToDate(s.pipe, next)
  /\ s.since + Len(s.pipe) < next
  /\ Len(s.pipe) < Len(r) => s.since + Len(s.pipe) = next - 1

\* Of an earlier process nothing is said, its events had the same numbers, and
\* nothing of a stream that has ended.
LogOK(r, next, s) ==
  /\ r \in Seq(Envelope) /\ next \in Nat /\ s \in Stream
  /\ RingOK(r, next)
  /\ s.st # "open" => s.pipe = <<>>
  /\ s.same /\ s.st # "closed" =>
       BufferOK(r, next, s) /\ (s.st = "open" => PipeOK(r, next, s))

LogInv == LogOK(ring, nextId, stream)

-----------------------------------------------------------------------------
(* What the ring and the buffer hand out.                                  *)

\* The events newer than one the browser has, of a ring without gaps.
LEMMA SinceIs ==
  ASSUME LogInv, NEW s \in Nat
  PROVE  \E m \in 0 .. Len(ring) :
            /\ s >= nextId - 1 => m = Len(ring)
            /\ s < nextId - 1 =>
                 m = IF s > nextId - 1 - Len(ring) THEN s - (nextId - 1 - Len(ring)) ELSE 0
            /\ EnvelopesSince(s) \in Seq(Envelope)
            /\ Len(EnvelopesSince(s)) = Len(ring) - m
            /\ \A k \in 1 .. Len(ring) - m : EnvelopesSince(s)[k] = ring[m + k]
<1> DEFINE known == {k \in 1 .. Len(ring) : ring[k].id <= s}
           base == nextId - 1 - Len(ring)
           m == IF s >= nextId - 1 THEN Len(ring) ELSE IF s > base THEN s - base ELSE 0
<1>1. ring \in Seq(Envelope) /\ Len(ring) \in Nat /\ nextId \in Nat /\ Len(ring) < nextId
  BY LenProperties DEF LogInv, LogOK, RingOK
<1>2. m \in 0 .. Len(ring) BY <1>1
<1>3. known = 1 .. m
  <2>1. \A k \in 1 .. Len(ring) : ring[k].id = base + k
    BY DEF LogInv, LogOK, RingOK, UpToDate
  <2>2. \A k \in 1 .. Len(ring) : ring[k].id <= s <=> k <= m BY <1>1, <2>1
  <2>3. QED BY <1>1, <1>2, <2>2
<1>4. Cardinality(known) = m
  <2>1. m \in Int /\ 1 \in Int /\ (1 > m => m = 0) /\ m - 1 + 1 = m BY <1>1, <1>2
  <2> HIDE DEF m, known
  <2>2. Cardinality(1 .. m) = IF 1 > m THEN 0 ELSE m - 1 + 1 BY <2>1, FS_Interval
  <2>3. QED BY <1>3, <2>1, <2>2
<1>5. EnvelopesSince(s) = SubSeq(ring, m + 1, Len(ring)) BY <1>4 DEF EnvelopesSince
<1>6. (s >= nextId - 1 => m = Len(ring)) /\ (s < nextId - 1 =>
         m = IF s > nextId - 1 - Len(ring) THEN s - (nextId - 1 - Len(ring)) ELSE 0)
  BY <1>1
<1> HIDE DEF m, known
<1>7. \A k \in m + 1 .. Len(ring) : ring[k] \in Envelope BY <1>1, <1>2, ElementOfSeq
<1>8. /\ SubSeq(ring, m + 1, Len(ring)) \in Seq(Envelope)
      /\ Len(SubSeq(ring, m + 1, Len(ring))) =
            IF m + 1 <= Len(ring) THEN Len(ring) - (m + 1) + 1 ELSE 0
      /\ \A k \in 1 .. Len(ring) - (m + 1) + 1 :
            SubSeq(ring, m + 1, Len(ring))[k] = ring[(m + 1) + k - 1]
  <2>1. m + 1 \in Int /\ Len(ring) \in Int BY <1>1, <1>2
  <2>2. QED BY <1>7, <2>1, SubSeqProperties
<1>9. /\ EnvelopesSince(s) \in Seq(Envelope)
      /\ Len(EnvelopesSince(s)) = Len(ring) - m
      /\ \A k \in 1 .. Len(ring) - m : EnvelopesSince(s)[k] = ring[m + k]
  BY <1>1, <1>2, <1>5, <1>8
<1>10. QED BY <1>2, <1>6, <1>9

\* A buffer grows at its end and loses at its front, never below its bound.
LEMMA AppendEventIs ==
  ASSUME NEW b \in Seq(Nat), NEW id \in Nat
  PROVE  LET n == Len(AppendEvent(b, id)) IN
         /\ AppendEvent(b, id) \in Seq(Nat)
         /\ n = IF Len(b) < MaxEvents THEN Len(b) + 1 ELSE MaxEvents
         /\ AppendEvent(b, id)[n] = id
         /\ \A j \in 1 .. n - 1 : AppendEvent(b, id)[n - j] = b[Len(b) - (j - 1)]
<1> DEFINE next == Append(b, id)
           out == SubSeq(next, Len(next) - MaxEvents + 1, Len(next))
<1>1. MaxEvents \in Nat /\ MaxEvents > 0 /\ Len(b) \in Nat
  BY LenProperties, DashboardAssumption
<1>2. /\ next \in Seq(Nat) /\ Len(next) = Len(b) + 1 /\ next[Len(b) + 1] = id
      /\ \A k \in 1 .. Len(b) : next[k] = b[k]
  BY AppendProperties
<1>3. AppendEvent(b, id) = IF Len(next) > MaxEvents THEN out ELSE next
  BY DEF AppendEvent
<1> HIDE DEF next
<1>4. CASE Len(b) < MaxEvents
  <2>1. AppendEvent(b, id) = next BY <1>1, <1>2, <1>3, <1>4
  <2>2. \A j \in 1 .. Len(b) : next[Len(b) + 1 - j] = b[Len(b) - (j - 1)]
    <3> TAKE j \in 1 .. Len(b)
    <3>1. Len(b) + 1 - j \in 1 .. Len(b) /\ Len(b) + 1 - j = Len(b) - (j - 1) BY <1>1
    <3>2. QED BY <1>2, <3>1
  <2>3. Len(AppendEvent(b, id)) = Len(b) + 1 /\ Len(b) + 1 - 1 = Len(b)
    BY <1>1, <1>2, <2>1
  <2>4. QED BY <1>1, <1>2, <1>4, <2>1, <2>2, <2>3
<1>5. CASE Len(b) >= MaxEvents
  <2> DEFINE from == Len(b) + 1 - MaxEvents + 1
  <2>1. AppendEvent(b, id) = out /\ out = SubSeq(next, from, Len(b) + 1)
    <3>1. Len(next) > MaxEvents BY <1>1, <1>2, <1>5
    <3>2. Len(next) = Len(b) + 1 /\ Len(next) - MaxEvents + 1 = from BY <1>1, <1>2
    <3>3. QED BY <1>3, <3>1, <3>2
  <2>2. from \in 1 .. Len(b) + 1 BY <1>1, <1>5
  <2>3. \A k \in from .. Len(b) + 1 : next[k] \in Nat BY <1>1, <1>2, <2>2, ElementOfSeq
  <2>4. /\ SubSeq(next, from, Len(b) + 1) \in Seq(Nat)
        /\ Len(SubSeq(next, from, Len(b) + 1)) =
              IF from <= Len(b) + 1 THEN Len(b) + 1 - from + 1 ELSE 0
        /\ \A k \in 1 .. Len(b) + 1 - from + 1 :
              SubSeq(next, from, Len(b) + 1)[k] = next[from + k - 1]
    <3>1. from \in Int /\ Len(b) + 1 \in Int BY <1>1
    <3> HIDE DEF from
    <3>2. QED BY <2>3, <3>1, SubSeqProperties
  <2> HIDE DEF out
  <2>5. out \in Seq(Nat) /\ Len(out) = MaxEvents
        /\ \A k \in 1 .. MaxEvents : out[k] = next[Len(b) + 1 - MaxEvents + k]
    <3>1. Len(b) + 1 - from + 1 = MaxEvents /\ from <= Len(b) + 1 BY <1>1, <1>5
    <3>2. \A k \in 1 .. MaxEvents : from + k - 1 = Len(b) + 1 - MaxEvents + k BY <1>1
    <3> HIDE DEF from
    <3>3. QED BY <2>1, <2>4, <3>1, <3>2
  <2>6. out[MaxEvents] = id BY <1>1, <1>2, <2>5
  <2>7. \A j \in 1 .. MaxEvents - 1 : out[MaxEvents - j] = b[Len(b) - (j - 1)]
    <3> TAKE j \in 1 .. MaxEvents - 1
    <3>1. /\ MaxEvents - j \in 1 .. MaxEvents
          /\ Len(b) + 1 - MaxEvents + (MaxEvents - j) = Len(b) - (j - 1)
          /\ Len(b) - (j - 1) \in 1 .. Len(b)
      BY <1>1, <1>5
    <3>2. out[MaxEvents - j] = next[Len(b) - (j - 1)] BY <2>5, <3>1
    <3>3. QED BY <1>2, <3>1, <3>2
  <2>8. AppendEvent(b, id) = out BY <2>1
  <2> HIDE DEF out
  <2>9. ~ (Len(b) < MaxEvents) BY <1>1, <1>5
  <2>10. QED BY <2>5, <2>6, <2>7, <2>8, <2>9
<1>6. QED BY <1>1, <1>4, <1>5

-----------------------------------------------------------------------------
(* The steps of the daemon and the stream.                                 *)

\* Steps that leave the ring and the stream alone.
LEMMA LogStable == LogInv /\ UNCHANGED <<ring, nextId, stream>> => LogInv'
BY DEF LogInv

\* A stream that has received nothing yet, and asks for nothing or for all.
Blank(s) == s \in Stream /\ s.st # "open" /\ s.since = 0 /\ s.pipe = <<>> /\ s.buf = <<>>

LEMMA LogForgotten ==
  ASSUME LogInv, UNCHANGED <<ring, nextId>>, Blank(stream')
  PROVE  LogInv'
<1>1. nextId \in Nat /\ Len(ring) \in Nat /\ Len(ring) < nextId /\ MaxEvents \in Nat
  BY LenProperties, DashboardAssumption DEF LogInv, LogOK, RingOK
<1>2. Len(stream'.buf) = 0 /\ stream'.since = 0 /\ stream'.pipe = <<>> BY EmptySeq DEF Blank
<1>3. BufferOK(ring, nextId, stream') BY <1>1, <1>2 DEF BufferOK
<1>4. QED BY <1>2, <1>3 DEF LogInv, LogOK, Blank

\* Cutting a stream loses what is on its way, and no more.
LEMMA LogCut ==
  ASSUME LogInv, UNCHANGED <<ring, nextId>>, NEW st \in {"closed", "waiting"},
         stream.st # "closed" \/ st = "closed",
         stream' = [stream EXCEPT !.st = st, !.pipe = <<>>]
  PROVE  LogInv'
<1>1. /\ stream' \in Stream /\ stream'.st = st /\ stream'.pipe = <<>>
      /\ stream'.since = stream.since /\ stream'.buf = stream.buf
      /\ stream'.same = stream.same
  BY EmptySeq DEF LogInv, LogOK, Stream
<1>2. BufferOK(ring, nextId, stream) => BufferOK(ring, nextId, stream')
  BY <1>1 DEF BufferOK
<1>3. QED BY <1>1, <1>2 DEF LogInv, LogOK

\* appendEnvelope: the ring keeps its newest, and follows the numbers.
LEMMA RingGrows ==
  ASSUME NEW r \in Seq(Envelope), NEW next \in Nat, RingOK(r, next), NEW env \in Envelope,
         env.id = next
  PROVE  LET all == Append(r, env)
             new == IF Len(all) > RingSize THEN Tail(all) ELSE all
         IN  new \in Seq(Envelope) /\ Len(new) \in 1 .. Len(r) + 1 /\ RingOK(new, next + 1)
<1> DEFINE all == Append(r, env)
           new == IF Len(all) > RingSize THEN Tail(all) ELSE all
<1>1. Len(r) \in Nat /\ Len(r) < next BY LenProperties DEF RingOK
<1>2. /\ all \in Seq(Envelope) /\ all # <<>> /\ Len(all) = Len(r) + 1
      /\ \A k \in 1 .. Len(r) : all[k] = r[k]
      /\ all[Len(r) + 1] = env
  BY AppendProperties
<1>3. \A k \in 1 .. Len(all) : all[k].id = next - Len(all) + k
  <2> TAKE k \in 1 .. Len(all)
  <2> HIDE DEF all
  <2>1. CASE k <= Len(r)
    <3>1. k \in 1 .. Len(r) /\ k \in Int BY <1>1, <1>2, <2>1
    <3>2. r[k].id = next - 1 - Len(r) + k BY <3>1 DEF RingOK, UpToDate
    <3>3. QED BY <1>1, <1>2, <3>1, <3>2
  <2>2. CASE k = Len(r) + 1 BY <1>1, <1>2, <2>2
  <2>3. QED BY <1>1, <1>2, <2>1, <2>2
<1> HIDE DEF all
<1>4. CASE Len(all) > RingSize
  <2>1. new = Tail(all) BY <1>4
  <2>2. /\ Tail(all) \in Seq(Envelope) /\ Len(Tail(all)) = Len(all) - 1
        /\ \A k \in 1 .. Len(Tail(all)) : Tail(all)[k] = all[k + 1]
    BY <1>2, HeadTailProperties
  <2> HIDE DEF new
  <2>3. new \in Seq(Envelope) /\ Len(new) = Len(r) BY <1>1, <1>2, <2>1, <2>2
  <2>4. RingSize \in Nat /\ RingSize > 0 BY DashboardAssumption
  <2>5. Len(r) >= 1 BY <1>1, <1>2, <1>4, <2>4
  <2>6. \A k \in 1 .. Len(new) : new[k].id = next + 1 - 1 - Len(new) + k
    <3> TAKE k \in 1 .. Len(new)
    <3>1. k + 1 \in 1 .. Len(all) /\ new[k] = all[k + 1] /\ k \in Int
      BY <1>1, <1>2, <2>1, <2>2, <2>3
    <3>2. all[k + 1].id = next - Len(all) + (k + 1) BY <1>3, <3>1
    <3>3. next - Len(all) + (k + 1) = next + 1 - 1 - Len(new) + k
      BY <1>1, <1>2, <2>3, <3>1
    <3>4. QED BY <3>1, <3>2, <3>3
  <2>7. Len(new) < next + 1 /\ Len(new) \in 1 .. Len(r) + 1 BY <1>1, <2>3, <2>5
  <2>8. RingOK(new, next + 1) BY <2>6, <2>7 DEF RingOK, UpToDate
  <2>9. QED BY <2>3, <2>7, <2>8 DEF new, all
<1>5. CASE ~ (Len(all) > RingSize)
  <2>1. new = all BY <1>5
  <2> HIDE DEF new
  <2>2. \A k \in 1 .. Len(new) : new[k].id = next + 1 - 1 - Len(new) + k
    <3> TAKE k \in 1 .. Len(new)
    <3>1. new[k].id = next - Len(all) + k /\ k \in Int BY <1>3, <2>1
    <3>2. QED BY <1>1, <1>2, <2>1, <3>1
  <2>3. new \in Seq(Envelope) /\ Len(new) < next + 1 /\ Len(new) \in 1 .. Len(r) + 1
    BY <1>1, <1>2, <2>1
  <2>4. RingOK(new, next + 1) BY <2>2, <2>3 DEF RingOK, UpToDate
  <2>5. QED BY <2>3, <2>4 DEF new, all
<1>6. QED BY <1>4, <1>5

\* appendEnvelope: an open stream gets what the ring gets.
LEMMA AppendOnce ==
  ASSUME NEW log, LogOK(log.ring, log.next, log.stream), NEW rel \in BOOLEAN
  PROVE  LET a == AppendEnvelope(log, rel) IN LogOK(a.ring, a.next, a.stream)
<1> DEFINE r == log.ring
           next == log.next
           m == next + 1
           s == log.stream
           env == [id |-> next, rel |-> rel]
           all == Append(r, env)
           r2 == IF Len(all) > RingSize THEN Tail(all) ELSE all
           s2 == IF s.st = "open" THEN [s EXCEPT !.pipe = Append(s.pipe, env)] ELSE s
           a == AppendEnvelope(log, rel)
<1>1. a.ring = r2 /\ a.next = m /\ a.stream = s2 BY DEF AppendEnvelope
<1>2. LogOK(r, next, s) OBVIOUS
<1> HIDE DEF r, next, s, a
<1>3. /\ r \in Seq(Envelope) /\ next \in Nat /\ s \in Stream /\ Len(r) \in Nat
      /\ RingOK(r, next) /\ s.since \in Nat /\ s.pipe \in Seq(Envelope)
      /\ Len(s.pipe) \in Nat /\ s.buf \in Seq(Nat)
  <2>1. r \in Seq(Envelope) /\ next \in Nat /\ s \in Stream /\ RingOK(r, next)
    BY <1>2 DEF LogOK
  <2>2. s.since \in Nat /\ s.pipe \in Seq(Envelope) /\ s.buf \in Seq(Nat)
    BY <2>1 DEF Stream
  <2>3. QED BY <2>1, <2>2, LenProperties
<1>4. env \in Envelope /\ env.id = next /\ m \in Nat /\ m = next + 1 /\ m - 1 = next
  BY <1>3 DEF Envelope
<1> HIDE DEF env
<1>5. r2 \in Seq(Envelope) /\ Len(r2) \in 1 .. Len(r) + 1 /\ RingOK(r2, m)
  BY <1>3, <1>4, RingGrows
<1> HIDE DEF r2, all, m
<1> DEFINE pipe == Append(s.pipe, env)
<1>6. /\ pipe \in Seq(Envelope) /\ Len(pipe) = Len(s.pipe) + 1
      /\ \A k \in 1 .. Len(s.pipe) : pipe[k] = s.pipe[k]
      /\ pipe[Len(s.pipe) + 1] = env
  BY <1>3, <1>4, AppendProperties
<1> HIDE DEF pipe
<1>7. /\ s2 \in Stream /\ s2.since = s.since /\ s2.buf = s.buf /\ s2.same = s.same
      /\ s2.st = s.st /\ s2.pipe = IF s.st = "open" THEN pipe ELSE s.pipe
  <2>1. s \in Stream /\ pipe \in Seq(Envelope) BY <1>3, <1>6
  <2>2. s2 = IF s.st = "open" THEN [s EXCEPT !.pipe = pipe] ELSE s BY DEF pipe
  <2> HIDE DEF s2
  <2>3. QED BY <2>1, <2>2 DEF Stream
<1> HIDE DEF s2
<1>8. BufferOK(r, next, s) => BufferOK(r2, m, s2)
  <2> SUFFICES ASSUME BufferOK(r, next, s) PROVE BufferOK(r2, m, s2) OBVIOUS
  <2>1. s.since < m BY <1>3, <1>4 DEF BufferOK
  <2>2. \A j \in 0 .. MaxEvents - 1 :
          s.since - j > m - 1 - Len(r2) => s.since - j > next - 1 - Len(r)
    <3>1. Len(r2) \in Nat /\ Len(r2) <= Len(r) + 1 BY <1>3, <1>5
    <3>2. /\ next \in Nat /\ Len(r) \in Nat /\ s.since \in Nat /\ m - 1 = next
      BY <1>3, <1>4
    <3>3. QED BY <3>1, <3>2
  <2>3. \A j \in 0 .. MaxEvents - 1 :
          s.since - j > m - 1 - Len(r2) =>
            j < Len(s.buf) /\ s.buf[Len(s.buf) - j] = s.since - j
    BY <2>2 DEF BufferOK
  <2>4. IF s.since = 0 THEN Len(s.buf) = 0
        ELSE Len(s.buf) > 0 /\ s.buf[Len(s.buf)] = s.since
    BY DEF BufferOK
  <2>5. s2.since = s.since /\ s2.buf = s.buf BY <1>7
  <2>6. QED BY <2>1, <2>3, <2>4, <2>5 DEF BufferOK
<1>9. ASSUME s.st = "open", PipeOK(r, next, s) PROVE PipeOK(r2, m, s2)
  <2>1. s2.pipe = pipe /\ s2.since = s.since BY <1>7, <1>9
  <2>2. \A k \in 1 .. Len(pipe) : pipe[k].id = m - 1 - Len(pipe) + k
    <3> TAKE k \in 1 .. Len(pipe)
    <3>1. CASE k <= Len(s.pipe)
      <4>1. k \in 1 .. Len(s.pipe) /\ k \in Int BY <1>3, <1>6, <3>1
      <4>2. s.pipe[k].id = next - 1 - Len(s.pipe) + k BY <1>9, <4>1 DEF PipeOK, UpToDate
      <4>3. next - 1 - Len(s.pipe) + k = m - 1 - (Len(s.pipe) + 1) + k
        BY <1>3, <1>4, <4>1
      <4>4. QED BY <1>6, <4>1, <4>2, <4>3
    <3>2. CASE k = Len(s.pipe) + 1 BY <1>3, <1>4, <1>6, <3>2
    <3>3. QED BY <1>3, <1>6, <3>1, <3>2
  <2>3. s.since + Len(s.pipe) < next /\ (Len(s.pipe) < Len(r) => s.since + Len(s.pipe) = next - 1)
    BY <1>9 DEF PipeOK
  <2>4. s.since + Len(pipe) < m BY <1>3, <1>4, <1>6, <2>3
  <2>5. Len(pipe) < Len(r2) => s.since + Len(pipe) = m - 1
    <3>1. Len(r2) \in Nat /\ Len(r2) <= Len(r) + 1 BY <1>3, <1>5
    <3>2. Len(s.pipe) + 1 < Len(r2) => Len(s.pipe) < Len(r) BY <1>3, <3>1
    <3>3. s.since + Len(s.pipe) = next - 1 => s.since + (Len(s.pipe) + 1) = m - 1
      <4>1. s.since \in Int /\ Len(s.pipe) \in Int /\ next \in Int /\ m - 1 = next BY <1>3, <1>4
      <4>2. QED BY <4>1
    <3>4. QED BY <1>6, <2>3, <3>2, <3>3
  <2>6. UpToDate(s2.pipe, m) BY <2>1, <2>2 DEF UpToDate
  <2>7. QED BY <2>1, <2>4, <2>5, <2>6 DEF PipeOK
<1>10. LogOK(r2, m, s2)
  <2>1. s.st # "open" => s2.pipe = <<>> BY <1>2, <1>7 DEF LogOK
  <2>2. m \in Nat BY <1>4
  <2>3. s.same /\ s.st # "closed" =>
          BufferOK(r, next, s) /\ (s.st = "open" => PipeOK(r, next, s))
    BY <1>2 DEF LogOK
  <2>4. s2.same /\ s2.st # "closed" =>
          BufferOK(r2, m, s2) /\ (s2.st = "open" => PipeOK(r2, m, s2))
    BY <1>7, <1>8, <1>9, <2>3
  <2>5. QED BY <1>5, <1>7, <2>1, <2>2, <2>4 DEF LogOK
<1>11. QED BY <1>1, <1>10 DEF a

\* What a change of the room may put into the log: nothing, one event or two.
Told == Silent \/ (\E rel \in BOOLEAN : Publish(rel)) \/ PublishTwo

LEMMA ToldKeeps == LogInv /\ Told => LogInv'
<1> SUFFICES ASSUME LogInv, Told PROVE LogInv' OBVIOUS
<1>1. LogOK(Log.ring, Log.next, Log.stream) BY DEF LogInv, Log
<1>2. ASSUME NEW log, Becomes(log), LogOK(log.ring, log.next, log.stream) PROVE LogInv'
  BY <1>2 DEF Becomes, LogInv
<1>3. CASE Silent BY <1>3, LogStable DEF Silent
<1>4. ASSUME NEW rel \in BOOLEAN, Publish(rel) PROVE LogInv'
  <2> DEFINE a == AppendEnvelope(Log, rel)
  <2>1. LogOK(a.ring, a.next, a.stream) BY <1>1, AppendOnce
  <2>2. Becomes(a) BY <1>4 DEF Publish
  <2> HIDE DEF a
  <2>3. QED BY <1>2, <2>1, <2>2
<1>5. CASE PublishTwo
  <2> DEFINE a == AppendEnvelope(Log, FALSE)
             b == AppendEnvelope(a, FALSE)
  <2>1. LogOK(a.ring, a.next, a.stream) BY <1>1, AppendOnce
  <2>2. Becomes(b) BY <1>5 DEF PublishTwo
  <2> HIDE DEF a
  <2>3. LogOK(b.ring, b.next, b.stream) BY <2>1, AppendOnce
  <2> HIDE DEF b
  <2>4. QED BY <1>2, <2>2, <2>3
<1>6. QED BY <1>3, <1>4, <1>5 DEF Told

\* What a browser asks for when it connects again is what it has not received.
LEMMA ConnectKeeps == LogInv /\ Connect => LogInv'
<1> SUFFICES ASSUME LogInv, Connect PROVE LogInv' OBVIOUS
<1>1. stream.st = "waiting" /\ stream.pipe = <<>> /\ UNCHANGED <<ring, nextId>>
  BY DEF LogInv, LogOK, Connect
<1>2. CASE srv.room # "here"
  <2>1. stream' = [stream EXCEPT !.st = "closed"] BY <1>2 DEF Connect
  <2>2. stream' = [stream EXCEPT !.st = "closed", !.pipe = <<>>]
    BY <1>1, <2>1 DEF LogInv, LogOK, Stream
  <2>3. QED BY <1>1, <2>2, LogCut
<1>3. CASE srv.room = "here"
  <2> DEFINE pipe == EnvelopesSince(stream.since)
  <2>1. stream' = [stream EXCEPT !.st = "open", !.pipe = pipe]
    BY <1>3 DEF Connect
  <2>2. /\ nextId \in Nat /\ Len(ring) \in Nat /\ Len(ring) < nextId
        /\ stream.since \in Nat
    BY LenProperties DEF LogInv, LogOK, Stream, RingOK
  <2>3. PICK m \in 0 .. Len(ring) :
          /\ stream.since >= nextId - 1 => m = Len(ring)
          /\ stream.since < nextId - 1 =>
               m = IF stream.since > nextId - 1 - Len(ring)
                   THEN stream.since - (nextId - 1 - Len(ring)) ELSE 0
          /\ pipe \in Seq(Envelope)
          /\ Len(pipe) = Len(ring) - m
          /\ \A k \in 1 .. Len(ring) - m : pipe[k] = ring[m + k]
    BY <2>2, SinceIs
  <2> HIDE DEF pipe
  <2>4. /\ stream'.since = stream.since /\ stream'.buf = stream.buf
        /\ stream'.same = stream.same /\ stream'.st = "open" /\ stream'.pipe = pipe
    BY <2>1 DEF LogInv, LogOK, Stream
  <2>5. stream' \in Stream BY <2>1, <2>3 DEF LogInv, LogOK, Stream
  <2>6. BufferOK(ring, nextId, stream) => BufferOK(ring, nextId, stream')
    BY <2>4 DEF BufferOK
  <2>7. ASSUME BufferOK(ring, nextId, stream) PROVE PipeOK(ring, nextId, stream')
    <3>1. stream.since < nextId BY <2>7 DEF BufferOK
    <3>2. UpToDate(stream'.pipe, nextId)
      <4> SUFFICES ASSUME NEW k \in 1 .. Len(pipe)
                   PROVE  pipe[k].id = nextId - 1 - Len(pipe) + k
        BY <1>1, <2>4 DEF UpToDate
      <4>1. k \in Int /\ m \in Int /\ Len(pipe) = Len(ring) - m BY <2>2, <2>3
      <4>2. m + k \in 1 .. Len(ring) /\ pipe[k] = ring[m + k] BY <2>2, <2>3, <4>1
      <4>3. ring[m + k].id = nextId - 1 - Len(ring) + (m + k)
        BY <4>2 DEF LogInv, LogOK, RingOK, UpToDate
      <4>4. nextId - 1 - Len(ring) + (m + k) = nextId - 1 - Len(pipe) + k BY <2>2, <4>1
      <4>5. QED BY <4>2, <4>3, <4>4
    <3>3. /\ stream.since + Len(pipe) < nextId
          /\ Len(pipe) < Len(ring) => stream.since + Len(pipe) = nextId - 1
      <4>1. m \in Int /\ m >= 0 /\ m <= Len(ring) /\ Len(pipe) = Len(ring) - m BY <2>2, <2>3
      <4>2. CASE stream.since = nextId - 1
        <5>1. m = Len(ring) BY <2>2, <2>3, <4>2
        <5>2. QED BY <2>2, <4>1, <4>2, <5>1
      <4>3. CASE stream.since < nextId - 1
        <5>1. m = IF stream.since > nextId - 1 - Len(ring)
                  THEN stream.since - (nextId - 1 - Len(ring)) ELSE 0
          BY <2>3, <4>3
        <5>2. QED BY <2>2, <4>1, <4>3, <5>1
      <4>4. QED BY <2>2, <3>1, <4>2, <4>3
    <3>4. QED BY <1>1, <2>4, <3>2, <3>3 DEF PipeOK
  <2>8. QED BY <1>1, <2>4, <2>5, <2>6, <2>7 DEF LogInv, LogOK
<1>4. QED BY <1>2, <1>3

\* A delivery of the daemon's own process is the next event or one after a gap
\* that the ring has already lost, and never one the buffer has.
LEMMA DeliverKeeps == LogInv /\ Deliver => LogInv'
<1> SUFFICES ASSUME LogInv, Deliver PROVE LogInv' OBVIOUS
<1> DEFINE env == Head(stream.pipe)
           dup == Dupe(stream.buf, env.id)
           more == AppendEvent(stream.buf, env.id)
           rest == Tail(stream.pipe)
<1>1. /\ stream.pipe \in Seq(Envelope) /\ stream.pipe # <<>> /\ stream.st = "open"
      /\ Len(stream.pipe) \in Nat \ {0} /\ nextId \in Nat /\ Len(ring) \in Nat
      /\ stream.since \in Nat /\ stream.buf \in Seq(Nat) /\ Len(stream.buf) \in Nat
      /\ UNCHANGED <<ring, nextId>>
  BY LenProperties, EmptySeq DEF LogInv, LogOK, Stream, Deliver
<1>2. /\ env \in Envelope /\ env = stream.pipe[1]
      /\ rest \in Seq(Envelope)
      /\ Len(rest) = Len(stream.pipe) - 1
      /\ \A k \in 1 .. Len(rest) : rest[k] = stream.pipe[k + 1]
  <2>1. Head(stream.pipe) = stream.pipe[1] BY <1>1
  <2>2. QED BY <1>1, <2>1, HeadTailProperties
<1>3. env.id \in Nat BY <1>2 DEF Envelope
<1>4. stream' = [stream EXCEPT !.pipe = rest, !.since = env.id,
                   !.buf = IF dup THEN stream.buf ELSE more]
  BY DEF Deliver
<1>5. /\ more \in Seq(Nat)
      /\ Len(more) = IF Len(stream.buf) < MaxEvents THEN Len(stream.buf) + 1 ELSE MaxEvents
      /\ more[Len(more)] = env.id
      /\ \A j \in 1 .. Len(more) - 1 : more[Len(more) - j] = stream.buf[Len(stream.buf) - (j - 1)]
  BY <1>1, <1>3, AppendEventIs
<1> HIDE DEF env, more, dup, rest
<1>6. /\ stream'.since = env.id /\ stream'.buf = (IF dup THEN stream.buf ELSE more)
      /\ stream'.same = stream.same /\ stream'.st = "open"
      /\ stream'.pipe = rest
  BY <1>1, <1>4 DEF LogInv, LogOK, Stream
<1>7. stream' \in Stream
  BY <1>1, <1>2, <1>3, <1>4, <1>5 DEF LogInv, LogOK, Stream
<1>8. ASSUME BufferOK(ring, nextId, stream), PipeOK(ring, nextId, stream)
      PROVE  BufferOK(ring, nextId, stream') /\ PipeOK(ring, nextId, stream')
  <2>1. env.id = nextId - Len(stream.pipe)
    <3>1. stream.pipe[1].id = nextId - 1 - Len(stream.pipe) + 1
      <4>1. 1 \in 1 .. Len(stream.pipe) BY <1>1
      <4>2. QED BY <1>8, <4>1 DEF PipeOK, UpToDate
    <3>2. env = stream.pipe[1] BY <1>2
    <3>3. QED BY <1>1, <3>1, <3>2
  <2>2. stream.since < env.id /\ env.id < nextId /\ env.id > 0
    <3>1. stream.since + Len(stream.pipe) < nextId BY <1>8 DEF PipeOK
    <3>2. QED BY <1>1, <2>1, <3>1
  <2>3. ~dup
    <3>1. Len(stream.buf) > 0 => stream.buf[Len(stream.buf)] < env.id
      BY <1>1, <1>8, <2>2 DEF BufferOK
    <3>2. ~Dupe(stream.buf, env.id)
      <4> SUFFICES ASSUME NEW j \in 1 .. Len(stream.buf), stream.buf[j] = env.id,
                          \A m \in j .. Len(stream.buf) : stream.buf[m] >= env.id
                   PROVE  FALSE
        BY DEF Dupe
      <4>1. Len(stream.buf) \in j .. Len(stream.buf) /\ Len(stream.buf) > 0 BY <1>1
      <4>2. stream.buf[Len(stream.buf)] \in Nat BY <1>1, <4>1, ElementOfSeq
      <4>3. QED BY <1>3, <3>1, <4>1, <4>2
    <3>3. QED BY <3>2 DEF dup
  <2>4. stream'.buf = more BY <1>6, <2>3
  <2>5. MaxEvents \in Nat /\ MaxEvents > 0 /\ Len(more) \in Nat /\ Len(more) > 0
    BY <1>1, <1>5, DashboardAssumption
  <2>6. ASSUME NEW j \in 0 .. MaxEvents - 1, env.id - j > nextId - 1 - Len(ring)
        PROVE  j < Len(more) /\ more[Len(more) - j] = env.id - j
    <3>1. CASE j = 0 BY <1>3, <1>5, <2>5, <3>1
    <3>2. CASE j > 0
      <4>1. Len(stream.pipe) < Len(ring) BY <1>1, <2>1, <2>6, <3>2
      <4>2. stream.since = env.id - 1
        <5>1. stream.since + Len(stream.pipe) = nextId - 1 BY <1>8, <4>1 DEF PipeOK
        <5>2. nextId \in Int /\ Len(stream.pipe) \in Int /\ stream.since \in Int BY <1>1
        <5>3. QED BY <2>1, <5>1, <5>2
      <4>3. j - 1 \in 0 .. MaxEvents - 1 /\ stream.since - (j - 1) > nextId - 1 - Len(ring)
        BY <1>1, <1>3, <2>5, <2>6, <3>2, <4>2
      <4>4. /\ j - 1 < Len(stream.buf)
            /\ stream.buf[Len(stream.buf) - (j - 1)] = stream.since - (j - 1)
        BY <1>8, <4>3 DEF BufferOK
      <4>5. j < Len(more) BY <1>1, <1>5, <2>5, <4>4
      <4>6. more[Len(more) - j] = stream.buf[Len(stream.buf) - (j - 1)]
        BY <1>5, <2>5, <3>2, <4>5
      <4>7. stream.since - (j - 1) = env.id - j
        <5>1. j \in Int /\ env.id \in Int BY <1>3
        <5>2. QED BY <4>2, <5>1
      <4>8. QED BY <4>4, <4>5, <4>6, <4>7
    <3>3. QED BY <3>1, <3>2
  <2>7. BufferOK(ring, nextId, stream')
    <3>1. /\ stream'.since = env.id /\ stream'.buf = more
          /\ env.id # 0
      BY <1>1, <1>3, <1>6, <2>2, <2>4
    <3>2. more[Len(more)] = env.id BY <1>5
    <3>3. QED BY <2>2, <2>5, <2>6, <3>1, <3>2 DEF BufferOK
  <2>8. UpToDate(stream'.pipe, nextId)
    <3> SUFFICES ASSUME NEW k \in 1 .. Len(rest)
                 PROVE  rest[k].id = nextId - 1 - Len(rest) + k
      BY <1>1, <1>6 DEF UpToDate
    <3>1. k + 1 \in 1 .. Len(stream.pipe) /\ rest[k] = stream.pipe[k + 1]
      BY <1>1, <1>2
    <3>2. stream.pipe[k + 1].id = nextId - 1 - Len(stream.pipe) + (k + 1)
      BY <1>8, <3>1 DEF PipeOK, UpToDate
    <3>3. nextId - 1 - Len(stream.pipe) + (k + 1) = nextId - 1 - Len(rest) + k
      <4>1. /\ nextId \in Int /\ Len(stream.pipe) \in Int /\ k \in Int
            /\ Len(rest) = Len(stream.pipe) - 1
        BY <1>1, <1>2
      <4>2. QED BY <4>1
    <3>4. QED BY <3>1, <3>2, <3>3
  <2>9. env.id + Len(rest) = nextId - 1 BY <1>1, <1>2, <2>1
  <2>10. PipeOK(ring, nextId, stream') BY <1>1, <1>6, <2>8, <2>9 DEF PipeOK
  <2>11. QED BY <2>7, <2>10
<1>9. QED BY <1>1, <1>6, <1>7, <1>8 DEF LogInv, LogOK

-----------------------------------------------------------------------------
(* Optimistic cards.                                                       *)

Card == [list : Nat, live : Nat \cup {Null}]
Request == [kind : {"rooms", "live", "list", "command", "kick", "edit", "many",
                    "create", "delete"},
            lock : {"none", "play", "kick", "mode", "label", "clear", "add"},
            st : {"sent", "ok", "err"}, ans : Seq(Card) \cup Nat \cup {Null},
            n : Nat, was : Nat \cup {Null}, at : Nat, own : BOOLEAN]

\* The states of the player that it was really in: those that something else than a
\* command of the dialog made, and those of the commands that were carried out.
Real == {v \in Nat : v % 2 = 0 \/ v \in done}

Playing(r) == r.lock = "play" /\ r.own

\* A command that may roll back its card is the one whose flag is up, it rolls
\* back to a state the room was in, and once it is confirmed it tells one too.
RequestOK(r, cs, hd) ==
  /\ r.at > 0 => r.kind = "command" /\ Playing(r) /\ r.at <= Len(cs)
  /\ r.kind = "command" => r.was \in hd \cup {Null} /\ (r.st = "ok" => r.n \in hd)
  /\ r.kind = "kick" => r.n \in hd
  /\ r.kind = "list" /\ r.st = "ok" => r.ans \in Nat
  /\ r.kind \in {"rooms", "create"} /\ r.st = "ok" =>
       /\ r.ans \in Seq(Card)
       /\ \A k \in 1 .. Len(r.ans) : r.ans[k].live \in hd \cup {Null}
       /\ r.kind = "create" => Len(r.ans) = 1

\* The k-th card shows the effect of this command.
Shows(r, cs, k) == r.kind = "command" /\ r.at = k /\ r.was # Null /\ r.n = cs[k].live

\* What the requests in flight are to the cards, the room having really been in hd.
Fits(rs, cs, hd) ==
  /\ rs \in Seq(Request) /\ cs \in Seq(Card)
  /\ \A i \in 1 .. Len(rs) : RequestOK(rs[i], cs, hd)
  /\ \A i, j \in 1 .. Len(rs) : Playing(rs[i]) /\ Playing(rs[j]) => i = j
  /\ \A k \in 1 .. Len(cs) :
       cs[k].live \in hd \cup {Null} \/ \E i \in 1 .. Len(rs) : Shows(rs[i], cs, k)

CardsInv ==
  /\ srv \in [room : {"unborn", "here", "gone"}, list : Nat, live : Nat]
  /\ dlg \in [open : BOOLEAN, fresh : {dlg.fresh}, seen : {dlg.seen}]
  /\ moves \in Nat /\ srv.live \in Real
  /\ dlg.open => cards # <<>>
  /\ Fits(reqs, cards, Real)

-----------------------------------------------------------------------------
(* What keeps requests and cards fitting.                                  *)

LEMMA RequestTyped ==
  ASSUME NEW rs \in Seq(Request), NEW i \in 1 .. Len(rs)
  PROVE  /\ rs[i] \in Request
         /\ rs[i].st \in {"sent", "ok", "err"} /\ rs[i].own \in BOOLEAN
         /\ rs[i].n \in Nat /\ rs[i].at \in Nat /\ rs[i].was \in Nat \cup {Null}
<1>1. rs[i] \in Request BY ElementOfSeq
<1>2. QED BY <1>1 DEF Request

\* Taking an answer out of the queue keeps the others as they were.
LEMMA RestIs ==
  ASSUME NEW S, NEW s \in Seq(S), NEW i \in 1 .. Len(s)
  PROVE  /\ RemoveAt(s, i) \in Seq(S)
         /\ Len(RemoveAt(s, i)) = Len(s) - 1
         /\ \A k \in 1 .. Len(s) - 1 :
               RemoveAt(s, i)[k] = IF k < i THEN s[k] ELSE s[k + 1]
<1> DEFINE a == SubSeq(s, 1, i - 1)
           b == SubSeq(s, i + 1, Len(s))
<1>1. /\ a \in Seq(S) /\ Len(a) = i - 1
      /\ \A k \in 1 .. i - 1 : a[k] = s[k]
  <2>1. \A k \in 1 .. i - 1 : s[k] \in S BY ElementOfSeq
  <2>2. /\ a \in Seq(S)
        /\ Len(a) = IF 1 <= i - 1 THEN (i - 1) - 1 + 1 ELSE 0
        /\ \A k \in 1 .. (i - 1) - 1 + 1 : a[k] = s[1 + k - 1]
    BY <2>1, SubSeqProperties
  <2>3. QED BY <2>2
<1>2. /\ b \in Seq(S) /\ Len(b) = Len(s) - i
      /\ \A k \in 1 .. Len(s) - i : b[k] = s[k + i]
  <2>1. \A k \in i + 1 .. Len(s) : s[k] \in S BY ElementOfSeq
  <2>2. /\ b \in Seq(S)
        /\ Len(b) = IF i + 1 <= Len(s) THEN Len(s) - (i + 1) + 1 ELSE 0
        /\ \A k \in 1 .. Len(s) - (i + 1) + 1 : b[k] = s[(i + 1) + k - 1]
    BY <2>1, SubSeqProperties
  <2>3. QED BY <2>2
<1> HIDE DEF a, b
<1>3. /\ a \o b \in Seq(S) /\ Len(a \o b) = Len(a) + Len(b)
      /\ \A k \in 1 .. Len(a) + Len(b) :
            (a \o b)[k] = IF k <= Len(a) THEN a[k] ELSE b[k - Len(a)]
  BY <1>1, <1>2, ConcatProperties
<1>4. RemoveAt(s, i) = a \o b BY DEF RemoveAt, a, b
<1>5. \A k \in 1 .. Len(s) - 1 : (a \o b)[k] = IF k < i THEN s[k] ELSE s[k + 1]
  BY <1>1, <1>2, <1>3
<1>6. Len(a \o b) = Len(s) - 1 BY <1>1, <1>2, <1>3
<1>7. QED BY <1>3, <1>4, <1>5, <1>6

LEMMA SendIs ==
  ASSUME NEW S, NEW s \in Seq(S), NEW a \in S, NEW b \in S
  PROVE  s \o <<>> = s /\ s \o <<a>> = Append(s, a) /\ s \o <<a, b>> = Append(Append(s, a), b)
<1>1. s \o <<>> = s BY ConcatEmptySeq
<1>2. s \o <<a>> = Append(s, a) BY AppendIsConcat
<1>3. s \o <<a, b>> = Append(Append(s, a), b)
  <2>1. /\ Append(s, a) \in Seq(S) /\ Len(Append(s, a)) = Len(s) + 1
        /\ \A k \in 1 .. Len(s) : Append(s, a)[k] = s[k]
        /\ Append(s, a)[Len(s) + 1] = a
    BY AppendProperties
  <2> DEFINE u == Append(s, a)
  <2> HIDE DEF u
  <2>2. /\ u \in Seq(S) /\ Len(u) = Len(s) + 1 /\ u[Len(s) + 1] = a
        /\ \A k \in 1 .. Len(s) : u[k] = s[k]
    BY <2>1 DEF u
  <2>3. /\ Append(u, b) \in Seq(S) /\ Len(Append(u, b)) = Len(u) + 1
        /\ \A k \in 1 .. Len(u) : Append(u, b)[k] = u[k]
        /\ Append(u, b)[Len(u) + 1] = b
    BY <2>2, AppendProperties
  <2>4. <<a, b>> \in Seq(S) /\ Len(<<a, b>>) = 2 /\ <<a, b>>[1] = a /\ <<a, b>>[2] = b
    OBVIOUS
  <2> DEFINE p == <<a, b>>
  <2> HIDE DEF p
  <2>5. p \in Seq(S) /\ Len(p) = 2 /\ p[1] = a /\ p[2] = b BY <2>4 DEF p
  <2>6. /\ s \o p \in Seq(S) /\ Len(s \o p) = Len(s) + Len(p)
        /\ \A k \in 1 .. Len(s) + Len(p) :
              (s \o p)[k] = IF k <= Len(s) THEN s[k] ELSE p[k - Len(s)]
    BY <2>5, ConcatProperties
  <2>7. Len(s) \in Nat BY LenProperties
  <2>8. \A k \in 1 .. Len(s) + 2 : (s \o p)[k] = Append(u, b)[k]
    <3> TAKE k \in 1 .. Len(s) + 2
    <3>1. CASE k <= Len(s) BY <2>2, <2>3, <2>5, <2>6, <2>7, <3>1
    <3>2. CASE k = Len(s) + 1 BY <2>2, <2>3, <2>5, <2>6, <2>7, <3>2
    <3>3. CASE k = Len(s) + 2 BY <2>2, <2>3, <2>5, <2>6, <2>7, <3>3
    <3>4. k <= Len(s) \/ k = Len(s) + 1 \/ k = Len(s) + 2 BY <2>7
    <3>5. QED BY <3>1, <3>2, <3>3, <3>4
  <2>9. Len(s \o p) = Len(s) + 2 /\ Len(Append(u, b)) = Len(s) + 2
    BY <2>2, <2>3, <2>5, <2>6, <2>7
  <2>10. s \o p = Append(u, b) BY <2>3, <2>6, <2>8, <2>9, SeqEqual
  <2>11. QED BY <2>10 DEF p, u
<1>4. QED BY <1>1, <1>2, <1>3

LEMMA RemoveFits ==
  ASSUME NEW rs, NEW cs, NEW hd, Fits(rs, cs, hd), NEW i \in 1 .. Len(rs),
         \A k \in 1 .. Len(cs) : Shows(rs[i], cs, k) => cs[k].live \in hd \cup {Null}
  PROVE  /\ Fits(RemoveAt(rs, i), cs, hd)
         /\ Playing(rs[i]) => \A j \in 1 .. Len(RemoveAt(rs, i)) : ~Playing(RemoveAt(rs, i)[j])
<1> DEFINE rest == RemoveAt(rs, i)
           of(j) == IF j < i THEN j ELSE j + 1
<1>1. rs \in Seq(Request) /\ cs \in Seq(Card) /\ Len(rs) \in Nat BY LenProperties DEF Fits
<1>2. /\ rest \in Seq(Request) /\ Len(rest) = Len(rs) - 1
      /\ \A j \in 1 .. Len(rs) - 1 : rest[j] = IF j < i THEN rs[j] ELSE rs[j + 1]
  BY <1>1, RestIs
<1> HIDE DEF rest
<1>3. \A j \in 1 .. Len(rest) : of(j) \in 1 .. Len(rs) /\ of(j) # i /\ rest[j] = rs[of(j)]
  BY <1>1, <1>2
<1>4. \A x, y \in 1 .. Len(rest) : of(x) = of(y) => x = y BY <1>1, <1>2
<1>5. \A m \in 1 .. Len(rs) : m # i => \E j \in 1 .. Len(rest) : rest[j] = rs[m]
  <2> TAKE m \in 1 .. Len(rs)
  <2>1. CASE m < i
    <3>1. m \in 1 .. Len(rest) /\ rest[m] = rs[m] BY <1>1, <1>2, <2>1
    <3>2. QED BY <3>1
  <2>2. CASE m > i
    <3>1. m - 1 \in 1 .. Len(rest) /\ rest[m - 1] = rs[m] BY <1>1, <1>2, <2>2
    <3>2. QED BY <3>1
  <2>3. QED BY <2>1, <2>2
<1> HIDE DEF of
<1>6. \A j \in 1 .. Len(rest) : RequestOK(rest[j], cs, hd) BY <1>3 DEF Fits
<1>7. \A x, y \in 1 .. Len(rest) : Playing(rest[x]) /\ Playing(rest[y]) => x = y
  BY <1>3, <1>4 DEF Fits
<1>8. \A k \in 1 .. Len(cs) :
        cs[k].live \in hd \cup {Null} \/ \E j \in 1 .. Len(rest) : Shows(rest[j], cs, k)
  <2> SUFFICES ASSUME NEW k \in 1 .. Len(cs), cs[k].live \notin hd \cup {Null}
               PROVE  \E j \in 1 .. Len(rest) : Shows(rest[j], cs, k)
    OBVIOUS
  <2>1. PICK m \in 1 .. Len(rs) : Shows(rs[m], cs, k) BY DEF Fits
  <2>2. m # i BY <2>1
  <2>3. QED BY <1>5, <2>1, <2>2
<1>9. Playing(rs[i]) => \A j \in 1 .. Len(rest) : ~Playing(rest[j]) BY <1>3 DEF Fits
<1>10. QED BY <1>1, <1>2, <1>6, <1>7, <1>8, <1>9 DEF Fits, rest

LEMMA AppendFits ==
  ASSUME NEW rs, NEW cs, NEW hd, Fits(rs, cs, hd), NEW r \in Request, RequestOK(r, cs, hd),
         Playing(r) => \A i \in 1 .. Len(rs) : ~Playing(rs[i])
  PROVE  Fits(Append(rs, r), cs, hd)
<1> DEFINE more == Append(rs, r)
<1>1. rs \in Seq(Request) /\ cs \in Seq(Card) /\ Len(rs) \in Nat BY LenProperties DEF Fits
<1>2. /\ more \in Seq(Request) /\ Len(more) = Len(rs) + 1
      /\ \A i \in 1 .. Len(rs) : more[i] = rs[i]
      /\ more[Len(rs) + 1] = r
  BY <1>1, AppendProperties
<1> HIDE DEF more
<1>3. \A i \in 1 .. Len(more) : \/ i \in 1 .. Len(rs) /\ more[i] = rs[i]
                                \/ i = Len(rs) + 1 /\ more[i] = r
  BY <1>1, <1>2
<1>4. \A i \in 1 .. Len(more) : RequestOK(more[i], cs, hd) BY <1>3 DEF Fits
<1>5. \A i, j \in 1 .. Len(more) : Playing(more[i]) /\ Playing(more[j]) => i = j
  BY <1>3 DEF Fits
<1>6. \A k \in 1 .. Len(cs) :
        cs[k].live \in hd \cup {Null} \/ \E i \in 1 .. Len(more) : Shows(more[i], cs, k)
  <2> SUFFICES ASSUME NEW k \in 1 .. Len(cs), cs[k].live \notin hd \cup {Null}
               PROVE  \E i \in 1 .. Len(more) : Shows(more[i], cs, k)
    OBVIOUS
  <2>1. PICK m \in 1 .. Len(rs) : Shows(rs[m], cs, k) BY DEF Fits
  <2>2. m \in 1 .. Len(more) /\ more[m] = rs[m] BY <1>1, <1>2
  <2>3. QED BY <2>1, <2>2
<1>7. QED BY <1>1, <1>2, <1>4, <1>5, <1>6 DEF Fits, more

\* The server's answer to one request.
LEMMA AnswerFits ==
  ASSUME NEW rs, NEW cs, NEW hd, Fits(rs, cs, hd), NEW i \in 1 .. Len(rs),
         NEW st \in {"ok", "err"}, NEW ans \in Seq(Card) \cup Nat \cup {Null},
         RequestOK([rs[i] EXCEPT !.st = st, !.ans = ans], cs, hd)
  PROVE  Fits([rs EXCEPT ![i].st = st, ![i].ans = ans], cs, hd)
<1> DEFINE r == [rs[i] EXCEPT !.st = st, !.ans = ans]
           out == [rs EXCEPT ![i].st = st, ![i].ans = ans]
<1>1. rs \in Seq(Request) /\ cs \in Seq(Card) /\ rs[i] \in Request
  BY ElementOfSeq DEF Fits
<1>2. r \in Request BY <1>1 DEF Request
<1>3. /\ r.lock = rs[i].lock /\ r.own = rs[i].own /\ r.kind = rs[i].kind /\ r.at = rs[i].at
      /\ r.was = rs[i].was /\ r.n = rs[i].n
  BY <1>1 DEF Request
<1>4. out = [rs EXCEPT ![i] = r] BY <1>1
<1> HIDE DEF r
<1> HIDE DEF out
<1>5. /\ [rs EXCEPT ![i] = r] \in Seq(Request) /\ Len([rs EXCEPT ![i] = r]) = Len(rs)
      /\ \A j \in 1 .. Len(rs) : [rs EXCEPT ![i] = r][j] = IF j = i THEN r ELSE rs[j]
  BY <1>1, <1>2, ExceptSeq
<1>6. /\ out \in Seq(Request) /\ Len(out) = Len(rs)
      /\ \A j \in 1 .. Len(rs) : out[j] = IF j = i THEN r ELSE rs[j]
  BY <1>4, <1>5
<1>7. \A j \in 1 .. Len(rs) : RequestOK(out[j], cs, hd) BY <1>6 DEF Fits, r
<1>8. \A x, y \in 1 .. Len(rs) : Playing(out[x]) /\ Playing(out[y]) => x = y
  <2>1. \A x \in 1 .. Len(rs) : Playing(out[x]) => Playing(rs[x]) BY <1>3, <1>6 DEF Playing
  <2>2. QED BY <2>1 DEF Fits
<1>9. \A k : \A j \in 1 .. Len(rs) : Shows(rs[j], cs, k) => Shows(out[j], cs, k)
  BY <1>3, <1>6 DEF Shows
<1>10. QED BY <1>1, <1>6, <1>7, <1>8, <1>9 DEF Fits, out

LEMMA GrowFits ==
  ASSUME NEW rs, NEW cs, NEW hd, NEW more, hd \subseteq more, Fits(rs, cs, hd)
  PROVE  Fits(rs, cs, more)
<1>1. \A i \in 1 .. Len(rs) : RequestOK(rs[i], cs, more) BY DEF Fits, RequestOK
<1>2. QED BY <1>1 DEF Fits

\* The cards may come to show what the room was like or what a command makes.
LEMMA CardsFit ==
  ASSUME NEW rs, NEW cs, NEW hd, Fits(rs, cs, hd), NEW new \in Seq(Card), Len(new) = Len(cs),
         \A k \in 1 .. Len(cs) :
            \/ new[k].live = cs[k].live \/ new[k].live \in hd \cup {Null}
            \/ \E i \in 1 .. Len(rs) : Shows(rs[i], new, k)
  PROVE  Fits(rs, new, hd)
<1>1. \A i \in 1 .. Len(rs) : RequestOK(rs[i], new, hd) BY DEF Fits, RequestOK
<1>2. \A k \in 1 .. Len(cs) :
        new[k].live \in hd \cup {Null} \/ \E i \in 1 .. Len(rs) : Shows(rs[i], new, k)
  BY DEF Fits, Shows
<1>3. QED BY <1>1, <1>2 DEF Fits

\* The cards are replaced by what the server told, and no command knows them.
LEMMA ReplaceFits ==
  ASSUME NEW rs, NEW cs, NEW hd, Fits(rs, cs, hd),
         NEW new \in Seq(Card), \A k \in 1 .. Len(new) : new[k].live \in hd \cup {Null},
         NEW out \in Seq(Request), Len(out) = Len(rs),
         \A i \in 1 .. Len(rs) :
            /\ out[i].kind = rs[i].kind /\ out[i].lock = rs[i].lock /\ out[i].st = rs[i].st
            /\ out[i].ans = rs[i].ans /\ out[i].n = rs[i].n /\ out[i].was = rs[i].was
            /\ out[i].own => rs[i].own
            /\ out[i].at = 0
  PROVE  Fits(out, new, hd)
<1>1. \A i \in 1 .. Len(rs) : RequestOK(out[i], new, hd)
  <2> TAKE i \in 1 .. Len(rs)
  <2>1. RequestOK(rs[i], cs, hd) BY DEF Fits
  <2>2. out[i].at = 0 /\ ~(0 > 0) OBVIOUS
  <2>3. QED BY <2>1, <2>2 DEF RequestOK
<1>2. \A i, j \in 1 .. Len(rs) : Playing(out[i]) /\ Playing(out[j]) => i = j
  <2>1. \A i \in 1 .. Len(rs) : Playing(out[i]) => Playing(rs[i]) BY DEF Playing
  <2>2. QED BY <2>1 DEF Fits
<1>3. QED BY <1>1, <1>2 DEF Fits

LEMMA OneBefore ==
  ASSUME NEW S, NEW one \in Seq(S), Len(one) = 1, NEW rest \in Seq(S)
  PROVE  /\ one \o rest \in Seq(S) /\ Len(one \o rest) = Len(rest) + 1
         /\ \A k \in 1 .. Len(rest) + 1 :
               (one \o rest)[k] = IF k <= 1 THEN one[k] ELSE rest[k - 1]
<1>1. /\ one \o rest \in Seq(S) /\ Len(one \o rest) = Len(one) + Len(rest)
      /\ \A k \in 1 .. Len(one) + Len(rest) :
            (one \o rest)[k] = IF k <= Len(one) THEN one[k] ELSE rest[k - Len(one)]
  BY ConcatProperties
<1>2. Len(one) + Len(rest) = Len(rest) + 1 BY LenProperties
<1>3. QED BY <1>1, <1>2

\* A new card comes first, and the snapshots of the others move by one.
LEMMA ShiftFits ==
  ASSUME NEW rs, NEW cs, NEW hd, Fits(rs, cs, hd),
         NEW one \in Seq(Card), Len(one) = 1, one[1].live \in hd \cup {Null},
         NEW out \in Seq(Request), Len(out) = Len(rs),
         \A i \in 1 .. Len(rs) :
            /\ out[i].kind = rs[i].kind /\ out[i].lock = rs[i].lock /\ out[i].st = rs[i].st
            /\ out[i].ans = rs[i].ans /\ out[i].n = rs[i].n /\ out[i].was = rs[i].was
            /\ out[i].own = rs[i].own
            /\ out[i].at = IF rs[i].at > 0 THEN rs[i].at + 1 ELSE rs[i].at
  PROVE  Fits(out, one \o cs, hd)
<1> DEFINE new == one \o cs
<1>1. rs \in Seq(Request) /\ cs \in Seq(Card) /\ Len(cs) \in Nat /\ Len(rs) \in Nat
  BY LenProperties DEF Fits
<1>2. /\ new \in Seq(Card) /\ Len(new) = Len(cs) + 1
      /\ \A k \in 1 .. Len(cs) + 1 : new[k] = IF k <= 1 THEN one[k] ELSE cs[k - 1]
  BY <1>1, OneBefore
<1> HIDE DEF new
<1>3. \A i \in 1 .. Len(rs) : rs[i].at \in Nat BY <1>1, RequestTyped
<1>4. \A i \in 1 .. Len(rs) : RequestOK(out[i], new, hd)
  <2> TAKE i \in 1 .. Len(rs)
  <2>1. out[i].at > 0 => rs[i].at > 0 /\ out[i].at = rs[i].at + 1 BY <1>3
  <2>2. rs[i].at > 0 => rs[i].kind = "command" /\ Playing(rs[i]) /\ rs[i].at <= Len(cs)
    BY DEF Fits, RequestOK
  <2>3. out[i].at > 0 => out[i].kind = "command" /\ Playing(out[i]) /\ out[i].at <= Len(new)
    BY <1>1, <1>2, <1>3, <2>1, <2>2 DEF Playing
  <2>4. QED BY <2>3 DEF Fits, RequestOK
<1>5. \A i, j \in 1 .. Len(rs) : Playing(out[i]) /\ Playing(out[j]) => i = j
  BY DEF Fits, Playing
<1>6. \A k \in 1 .. Len(new) :
        new[k].live \in hd \cup {Null} \/ \E i \in 1 .. Len(out) : Shows(out[i], new, k)
  <2> TAKE k \in 1 .. Len(new)
  <2>1. CASE k = 1 BY <1>1, <1>2, <2>1
  <2>2. CASE k > 1
    <3>1. k - 1 \in 1 .. Len(cs) /\ new[k] = cs[k - 1] BY <1>1, <1>2, <2>2
    <3>2. CASE cs[k - 1].live \in hd \cup {Null} BY <3>1, <3>2
    <3>3. CASE cs[k - 1].live \notin hd \cup {Null}
      <4>1. PICK i \in 1 .. Len(rs) : Shows(rs[i], cs, k - 1) BY <3>1, <3>3 DEF Fits
      <4>2. out[i].at = k BY <1>3, <3>1, <4>1 DEF Shows
      <4>3. Shows(out[i], new, k) BY <3>1, <4>1, <4>2 DEF Shows
      <4>4. QED BY <4>3
    <3>4. QED BY <3>2, <3>3
  <2>3. QED BY <1>1, <1>2, <2>1, <2>2
<1>7. QED BY <1>1, <1>2, <1>4, <1>5, <1>6 DEF Fits, new

\* A call that has not been answered yet, and is no command, fits with anything.
LEMMA CallIs ==
  ASSUME NEW kind \in {"rooms", "live", "list", "command", "kick", "edit", "many", "create",
                       "delete"},
         NEW lock \in {"none", "play", "kick", "mode", "label", "clear", "add"}
  PROVE  LET r == Call(kind, lock) IN
         /\ r \in Request /\ r.kind = kind /\ r.lock = lock /\ r.st = "sent"
         /\ r.at = 0 /\ r.own
<1>1. /\ Null \in Seq(Card) \cup Nat \cup {Null} /\ Null \in Nat \cup {Null} /\ 0 \in Nat
      /\ "sent" \in {"sent", "ok", "err"} /\ TRUE \in BOOLEAN
  OBVIOUS
<1>2. QED BY <1>1 DEF Call, Request

LEMMA Unanswered ==
  ASSUME NEW r, r.kind \notin {"command", "kick"}, r.at = 0, r.st = "sent"
  PROVE  \A cs, hd : RequestOK(r, cs, hd)
BY DEF RequestOK

LEMMA PlainCalls ==
  ASSUME NEW kind \in {"rooms", "live", "list", "edit", "many", "create", "delete"},
         NEW lock \in {"none", "kick", "mode", "label", "clear", "add"}, NEW own \in BOOLEAN
  PROVE  /\ LET r == Call(kind, lock) IN
            r \in Request /\ ~Playing(r) /\ \A cs, hd : RequestOK(r, cs, hd)
         /\ LET r == [Call(kind, lock) EXCEPT !.own = own] IN
            r \in Request /\ ~Playing(r) /\ \A cs, hd : RequestOK(r, cs, hd)
<1> DEFINE c == Call(kind, lock)
           q == [c EXCEPT !.own = own]
<1>1. kind \notin {"command", "kick"} /\ lock # "play" OBVIOUS
<1>2. c \in Request /\ c.kind = kind /\ c.lock = lock /\ c.st = "sent" /\ c.at = 0
  BY CallIs
<1> HIDE DEF c
<1>3. q \in Request /\ q.kind = kind /\ q.lock = lock /\ q.st = "sent" /\ q.at = 0
  BY <1>2 DEF Request
<1> HIDE DEF q
<1>4. ~Playing(c) /\ ~Playing(q) BY <1>1, <1>2, <1>3 DEF Playing
<1>5. \A cs, hd : RequestOK(c, cs, hd) /\ RequestOK(q, cs, hd)
  BY <1>1, <1>2, <1>3, Unanswered
<1>6. QED BY <1>2, <1>3, <1>4, <1>5 DEF c, q

LEMMA SendFits ==
  ASSUME NEW rs, NEW cs, NEW hd, Fits(rs, cs, hd), NEW r \in Request,
         RequestOK(r, cs, hd), ~Playing(r)
  PROVE  Fits(rs \o <<r>>, cs, hd)
<1>1. rs \in Seq(Request) BY DEF Fits
<1>2. rs \o <<r>> = Append(rs, r) BY <1>1, SendIs
<1>3. Fits(Append(rs, r), cs, hd) BY AppendFits
<1>4. QED BY <1>2, <1>3

\* A component that goes takes no command with it that may still roll back.
LEMMA UnmountIs ==
  ASSUME NEW rs \in Seq(Request), NEW kinds
  PROVE  /\ Unmount(rs, kinds) \in Seq(Request) /\ Len(Unmount(rs, kinds)) = Len(rs)
         /\ \A i \in 1 .. Len(rs) :
              LET r == Unmount(rs, kinds)[i] IN
              /\ r.kind = rs[i].kind /\ r.lock = rs[i].lock /\ r.st = rs[i].st
              /\ r.ans = rs[i].ans /\ r.n = rs[i].n /\ r.was = rs[i].was /\ r.at = rs[i].at
              /\ r.own <=> rs[i].own /\ rs[i].kind \notin kinds
<1> DEFINE f(i) == [rs[i] EXCEPT !.own = rs[i].own /\ rs[i].kind \notin kinds]
           out == [i \in 1 .. Len(rs) |-> f(i)]
<1>1. Unmount(rs, kinds) = out BY DEF Unmount, Each, Own
<1>2. Len(rs) \in Nat /\ \A i \in 1 .. Len(rs) : rs[i] \in Request
  BY LenProperties, ElementOfSeq
<1>3. \A i \in 1 .. Len(rs) : f(i) \in Request
  <2> TAKE i \in 1 .. Len(rs)
  <2>1. rs[i] \in Request BY <1>2
  <2>2. QED BY <2>1 DEF Request
<1>4. \A i \in 1 .. Len(rs) :
        /\ f(i).kind = rs[i].kind /\ f(i).lock = rs[i].lock /\ f(i).st = rs[i].st
        /\ f(i).ans = rs[i].ans /\ f(i).n = rs[i].n /\ f(i).was = rs[i].was
        /\ f(i).at = rs[i].at /\ (f(i).own <=> rs[i].own /\ rs[i].kind \notin kinds)
  BY <1>2 DEF Request
<1> HIDE DEF f
<1>5. out \in Seq(Request) /\ Len(out) = Len(rs) BY <1>2, <1>3, IsASeq
<1>6. QED BY <1>1, <1>4, <1>5

LEMMA DetachIs ==
  ASSUME NEW rs \in Seq(Request)
  PROVE  /\ Detach(rs) \in Seq(Request) /\ Len(Detach(rs)) = Len(rs)
         /\ \A i \in 1 .. Len(rs) :
              LET r == Detach(rs)[i] IN
              /\ r.kind = rs[i].kind /\ r.lock = rs[i].lock /\ r.st = rs[i].st
              /\ r.ans = rs[i].ans /\ r.n = rs[i].n /\ r.was = rs[i].was
              /\ r.own = rs[i].own /\ r.at = 0
<1> DEFINE f(i) == [rs[i] EXCEPT !.at = 0]
           out == [i \in 1 .. Len(rs) |-> f(i)]
<1>1. Detach(rs) = out BY DEF Detach, Each
<1>2. Len(rs) \in Nat /\ \A i \in 1 .. Len(rs) : rs[i] \in Request
  BY LenProperties, ElementOfSeq
<1>3. \A i \in 1 .. Len(rs) : f(i) \in Request
  <2> TAKE i \in 1 .. Len(rs)
  <2>1. rs[i] \in Request BY <1>2
  <2>2. QED BY <2>1 DEF Request
<1>4. \A i \in 1 .. Len(rs) :
        /\ f(i).kind = rs[i].kind /\ f(i).lock = rs[i].lock /\ f(i).st = rs[i].st
        /\ f(i).ans = rs[i].ans /\ f(i).n = rs[i].n /\ f(i).was = rs[i].was
        /\ f(i).own = rs[i].own /\ f(i).at = 0
  BY <1>2 DEF Request
<1> HIDE DEF f
<1>5. out \in Seq(Request) /\ Len(out) = Len(rs) BY <1>2, <1>3, IsASeq
<1>6. QED BY <1>1, <1>4, <1>5

-----------------------------------------------------------------------------
(* The steps of the server.                                                *)

SrvType == srv' \in [room : {"unborn", "here", "gone"}, list : Nat, live : Nat]

LEMMA MovesTyped ==
  CardsInv => /\ moves \in Nat /\ Mine \in Nat /\ Theirs \in Real /\ Theirs \in Nat
              /\ Steered \in Real /\ Steered \in Nat
              /\ Tick \/ Stir => moves' \in Nat
<1> SUFFICES ASSUME CardsInv
             PROVE  /\ Mine \in Nat /\ Theirs \in Real /\ Steered \in Real
                    /\ Tick \/ Stir => moves' \in Nat
  BY DEF CardsInv, Real
<1>1. moves \in Nat /\ srv.list \in Nat BY DEF CardsInv
<1>2. MaxPage \in Nat /\ MaxRoom \in Nat BY DashboardAssumption
<1>3. Mine \in Nat BY <1>1 DEF Mine
<1>4. Theirs \in Real BY <1>1 DEF Theirs, Real
<1>5. Steered \in Real BY <1>1 DEF Steered, Real
<1>6. Tick \/ Stir => moves' = moves + MaxPage \/ moves' = moves + MaxRoom
  BY DEF Tick, Stir, Spend
<1>7. QED BY <1>1, <1>2, <1>3, <1>4, <1>5, <1>6

\* What was real stays so.
LEMMA RealGrows == done \subseteq done' => Real \subseteq Real'
BY DEF Real

\* Whatever becomes of the room, it was in the state it is in.
LEMMA ServerMoves ==
  ASSUME CardsInv, SrvType, srv.live' \in Real', done \subseteq done',
         moves' \in Nat, UNCHANGED <<cards, reqs, dlg>>
  PROVE  CardsInv'
<1>1. Fits(reqs, cards, Real') BY RealGrows, GrowFits DEF CardsInv
<1>2. QED BY <1>1 DEF CardsInv, SrvType

\* The parts of the room that a change touches.
LEMMA ChangeIs ==
  ASSUME CardsInv, NEW n \in Nat, NEW parts, Change(parts, n)
  PROVE  /\ SrvType /\ srv.room' = srv.room
         /\ srv.live' = IF "live" \in parts THEN n ELSE srv.live
<1>1. srv \in [room : {"unborn", "here", "gone"}, list : Nat, live : Nat] BY DEF CardsInv
<1>2. /\ (IF "list" \in parts THEN srv.list + 1 ELSE srv.list) \in Nat
      /\ (IF "live" \in parts THEN n ELSE srv.live) \in Nat
  BY <1>1
<1>3. srv' = [srv EXCEPT !.list = IF "list" \in parts THEN srv.list + 1 ELSE srv.list,
                         !.live = IF "live" \in parts THEN n ELSE srv.live]
  BY DEF Change
<1>4. QED BY <1>1, <1>2, <1>3 DEF SrvType

\* What each change of the room makes of it, and tells.
LEMMA EditIs ==
  ASSUME CardsInv, Settings \/ Playlist \/ Cursor
  PROVE  SrvType /\ srv.live' \in Real /\ Told
<1>1. srv.live \in Real /\ Steered \in Real /\ Steered \in Nat /\ 0 \in Nat
  BY MovesTyped DEF CardsInv
<1>2. CASE Settings
  <2>1. Change({"list"}, 0) /\ Told BY <1>2 DEF Settings, Told
  <2>2. QED BY <1>1, <2>1, ChangeIs
<1>3. CASE Playlist
  <2>1. Change({"list"}, 0) /\ Told BY <1>3 DEF Playlist, Told
  <2>2. QED BY <1>1, <2>1, ChangeIs
<1>4. CASE Cursor
  <2>1. Change({"list", "live"}, Steered) /\ Told BY <1>4 DEF Cursor, Told
  <2>2. QED BY <1>1, <2>1, ChangeIs
<1>5. QED BY <1>2, <1>3, <1>4

LEMMA PlaybackIs ==
  ASSUME CardsInv, NEW n \in Nat, Playback(n) \/ Kicked(n)
  PROVE  SrvType /\ srv.live' = n /\ Told
<1>1. Change({"live"}, n) /\ Told BY DEF Playback, Kicked, Told
<1>2. QED BY <1>1, ChangeIs

LEMMA OthersKeepCards == CardsInv /\ Others => CardsInv' /\ Told
<1> SUFFICES ASSUME CardsInv, Others PROVE CardsInv' /\ Told OBVIOUS
<1>1. Theirs \in Nat /\ Theirs \in Real /\ moves' \in Nat BY MovesTyped DEF Others
<1>2. UNCHANGED <<cards, reqs, dlg, done>> BY DEF Others
<1>3. Real' = Real BY <1>2 DEF Real
<1>4. SrvType /\ srv.live' \in Real /\ Told
  BY <1>1, PlaybackIs, EditIs DEF Others
<1>5. QED BY <1>1, <1>2, <1>3, <1>4, ServerMoves

LEMMA RestartKeepsCards == CardsInv /\ Restart => CardsInv'
<1> SUFFICES ASSUME CardsInv, Restart PROVE CardsInv' OBVIOUS
<1>1. Theirs \in Nat /\ Theirs \in Real /\ moves' \in Nat BY MovesTyped DEF Restart
<1>2. UNCHANGED <<cards, reqs, dlg, done>> BY DEF Restart
<1>3. Real' = Real BY <1>2 DEF Real
<1>4. SrvType /\ srv.live' = Theirs BY <1>1 DEF CardsInv, SrvType, Restart
<1>5. QED BY <1>1, <1>2, <1>3, <1>4, ServerMoves

LEMMA AnswerKeeps ==
  ASSUME CardsInv, SrvType, srv.live' \in Real', done \subseteq done',
         moves' \in Nat, UNCHANGED <<cards, dlg>>,
         NEW i \in 1 .. Len(reqs), NEW st \in {"ok", "err"},
         NEW ans \in Seq(Card) \cup Nat \cup {Null}, Answer(i, st, ans),
         RequestOK([reqs[i] EXCEPT !.st = st, !.ans = ans], cards, Real')
  PROVE  CardsInv'
<1>1. Fits(reqs, cards, Real') BY RealGrows, GrowFits DEF CardsInv
<1>2. Fits([reqs EXCEPT ![i].st = st, ![i].ans = ans], cards, Real') BY <1>1, AnswerFits
<1>3. Fits(reqs', cards', Real') BY <1>2 DEF Answer
<1>4. QED BY <1>3 DEF CardsInv, SrvType

\* Only what an answer of its kind brings is new in a request that is answered.
LEMMA AnswerOK ==
  ASSUME NEW r \in Request, NEW cs, NEW hd, RequestOK(r, cs, hd), NEW more, hd \subseteq more,
         NEW st \in {"ok", "err"}, NEW ans,
         st = "ok" =>
           /\ r.kind = "command" => r.n \in more
           /\ r.kind = "list" => ans \in Nat
           /\ r.kind \in {"rooms", "create"} =>
                /\ ans \in Seq(Card)
                /\ \A k \in 1 .. Len(ans) : ans[k].live \in more \cup {Null}
                /\ r.kind = "create" => Len(ans) = 1
  PROVE  RequestOK([r EXCEPT !.st = st, !.ans = ans], cs, more)
<1> DEFINE q == [r EXCEPT !.st = st, !.ans = ans]
<1>1. /\ q.kind = r.kind /\ q.lock = r.lock /\ q.own = r.own /\ q.at = r.at /\ q.n = r.n
      /\ q.was = r.was /\ q.st = st /\ q.ans = ans
  BY DEF Request
<1> HIDE DEF q
<1>2. RequestOK(q, cs, more) BY <1>1 DEF RequestOK, Playing
<1>3. QED BY <1>2 DEF q

\* The list of rooms that the server tells is this one's or empty.
LEMMA RoomIs ==
  ASSUME SrvType, NEW live \in Nat \cup {Null}
  PROVE  /\ Room(live) \in Seq(Card)
         /\ \A k \in 1 .. Len(Room(live)) : Room(live)[k].live = live
         /\ srv.room' = "here" => Len(Room(live)) = 1
<1> DEFINE c == [list |-> srv.list', live |-> live]
<1>1. c \in Card /\ c.live = live BY DEF SrvType, Card
<1> HIDE DEF c
<1>2. /\ <<c>> \in Seq(Card) /\ Len(<<c>>) = 1 /\ <<c>>[1] = c
      /\ <<>> \in Seq(Card) /\ Len(<<>>) = 0
  BY <1>1
<1>3. Room(live) = IF srv.room' = "here" THEN <<c>> ELSE <<>> BY DEF Room, c
<1>4. QED BY <1>1, <1>2, <1>3

LEMMA ReadKeeps ==
  ASSUME CardsInv, NEW i \in 1 .. Len(reqs), ServeRead(i)
  PROVE  CardsInv'
<1>1. UNCHANGED <<srv, done, cards, dlg>> BY DEF ServeRead, Quiet
<1>2. SrvType /\ srv.live' \in Real' /\ Real' = Real
  BY <1>1 DEF CardsInv, SrvType, Real
<1>3. reqs[i] \in Request /\ RequestOK(reqs[i], cards, Real)
  <2>1. reqs \in Seq(Request) BY DEF CardsInv, Fits
  <2>2. QED BY <2>1, RequestTyped DEF CardsInv, Fits
<1>4. moves' \in Nat BY MovesTyped DEF CardsInv, ServeRead
<1>5. reqs[i].kind \in {"rooms", "live", "list"} /\ srv.list \in Nat
  BY DEF CardsInv, ServeRead
<1>6. \/ Answer(i, "err", Null)
      \/ \E live \in {srv.live, Null} :
            \/ reqs[i].kind = "rooms" /\ Answer(i, "ok", Room(live))
            \/ /\ reqs[i].kind # "rooms"
               /\ Answer(i, "ok", IF reqs[i].kind = "list" THEN srv.list ELSE Block(live))
  BY DEF ServeRead
<1>7. \E st \in {"ok", "err"} : \E ans \in Seq(Card) \cup Nat \cup {Null} :
        /\ Answer(i, st, ans)
        /\ RequestOK([reqs[i] EXCEPT !.st = st, !.ans = ans], cards, Real')
  <2>1. CASE Answer(i, "err", Null)
    <3>1. RequestOK([reqs[i] EXCEPT !.st = "err", !.ans = Null], cards, Real')
      BY <1>2, <1>3, AnswerOK
    <3>2. QED BY <2>1, <3>1
  <2>2. ASSUME NEW live \in {srv.live, Null}, reqs[i].kind = "rooms",
               Answer(i, "ok", Room(live))
        PROVE  \E st \in {"ok", "err"} : \E ans \in Seq(Card) \cup Nat \cup {Null} :
                 /\ Answer(i, st, ans)
                 /\ RequestOK([reqs[i] EXCEPT !.st = st, !.ans = ans], cards, Real')
    <3>1. live \in Nat \cup {Null} /\ live \in Real \cup {Null} BY DEF CardsInv
    <3>2. /\ Room(live) \in Seq(Card)
          /\ \A k \in 1 .. Len(Room(live)) : Room(live)[k].live = live
      BY <1>2, <3>1, RoomIs
    <3> DEFINE ans == Room(live)
    <3> HIDE DEF ans
    <3>3. ans \in Seq(Card) /\ (\A k \in 1 .. Len(ans) : ans[k].live \in Real' \cup {Null})
          /\ Answer(i, "ok", ans)
      BY <1>2, <2>2, <3>1, <3>2 DEF ans
    <3>4. RequestOK([reqs[i] EXCEPT !.st = "ok", !.ans = ans], cards, Real')
      BY <1>2, <1>3, <2>2, <3>3, AnswerOK
    <3>5. QED BY <3>3, <3>4
  <2>3. ASSUME NEW live \in {srv.live, Null}, reqs[i].kind # "rooms",
               Answer(i, "ok", IF reqs[i].kind = "list" THEN srv.list ELSE Block(live))
        PROVE  \E st \in {"ok", "err"} : \E ans \in Seq(Card) \cup Nat \cup {Null} :
                 /\ Answer(i, st, ans)
                 /\ RequestOK([reqs[i] EXCEPT !.st = st, !.ans = ans], cards, Real')
    <3> DEFINE ans == IF reqs[i].kind = "list" THEN srv.list ELSE Block(live)
    <3>1. Answer(i, "ok", ans) BY <2>3
    <3>2. ans \in Nat \cup {Null} /\ (reqs[i].kind = "list" => ans \in Nat)
      BY <1>5 DEF Block
    <3> HIDE DEF ans
    <3>3. reqs[i].kind \notin {"command", "rooms", "create"} BY <1>5, <2>3
    <3>4. RequestOK([reqs[i] EXCEPT !.st = "ok", !.ans = ans], cards, Real')
      BY <1>2, <1>3, <3>2, <3>3, AnswerOK
    <3>5. QED BY <3>1, <3>2, <3>4
  <2>4. QED BY <1>6, <2>1, <2>2, <2>3
<1>8. QED BY <1>1, <1>2, <1>4, <1>7, AnswerKeeps

\* What the server does of a request, by its kind.
LEMMA ApplyIs ==
  ASSUME CardsInv, NEW i \in 1 .. Len(reqs), Apply(reqs[i])
  PROVE  /\ SrvType /\ srv.live' \in Real' /\ done \subseteq done' /\ Told
         /\ reqs[i].kind = "command" => reqs[i].n \in Real'
         /\ reqs[i].kind = "create" => srv.room' = "here"
<1> DEFINE r == reqs[i]
<1>1. r.n \in Nat /\ RequestOK(r, cards, Real)
  <2>1. reqs \in Seq(Request) BY DEF CardsInv, Fits
  <2>2. r \in Request BY <2>1, RequestTyped
  <2>3. QED BY <2>2 DEF Request, CardsInv, Fits
<1>2. done' = IF r.kind = "command" THEN done \cup {r.n} ELSE done BY DEF Apply
<1>3. done \subseteq done' /\ Real \subseteq Real' /\ (r.kind = "command" => r.n \in Real')
  <2>1. done \subseteq done' /\ (r.kind = "command" => r.n \in done') BY <1>2
  <2>2. r.kind = "command" => r.n \in Real' BY <1>1, <2>1 DEF Real
  <2>3. QED BY <2>1, <2>2, RealGrows
<1>4. CASE r.kind = "command" /\ Playback(r.n)
  BY <1>1, <1>3, <1>4, PlaybackIs
<1>5. CASE r.kind = "kick" /\ Kicked(r.n)
  <2>1. r.n \in Real BY <1>1, <1>5 DEF RequestOK
  <2>2. QED BY <1>1, <1>3, <1>5, <2>1, PlaybackIs
<1>6. CASE r.kind \in OfEditor /\ (Settings \/ Playlist \/ Cursor)
  <2>1. SrvType /\ srv.live' \in Real /\ Told BY <1>6, EditIs
  <2>2. r.kind # "create" BY <1>6 DEF OfEditor
  <2>3. QED BY <1>3, <2>1, <2>2
<1>7. ASSUME NEW room \in {"here", "gone"}, Born(room),
             r.kind = "create" => room = "here"
      PROVE  SrvType /\ srv.live' \in Real /\ Told /\ (r.kind = "create" => srv.room' = "here")
  BY <1>7 DEF Born, CardsInv, SrvType, Told
<1>8. CASE r.kind = "create" /\ Born("here") BY <1>3, <1>7, <1>8
<1>9. CASE r.kind = "delete" /\ Born("gone") BY <1>3, <1>7, <1>9
<1>10. r.kind = "edit" => r.kind \in OfEditor BY DEF OfEditor
<1>11. QED BY <1>4, <1>5, <1>6, <1>8, <1>9, <1>10 DEF Apply

LEMMA CommandServed ==
  ASSUME CardsInv, NEW i \in 1 .. Len(reqs), ServeCommand(i)
  PROVE  CardsInv'
<1>1. UNCHANGED <<cards, dlg>> /\ reqs[i].kind \notin {"rooms", "live", "list"}
  BY DEF ServeCommand
<1>2. reqs[i] \in Request /\ RequestOK(reqs[i], cards, Real)
  <2>1. reqs \in Seq(Request) BY DEF CardsInv, Fits
  <2>2. QED BY <2>1, RequestTyped DEF CardsInv, Fits
<1>3. \A more : Real \subseteq more =>
         RequestOK([reqs[i] EXCEPT !.st = "err", !.ans = Null], cards, more)
  BY <1>2, AnswerOK
<1>4. CASE Apply(reqs[i]) /\ UNCHANGED moves
           /\ Answer(i, "ok", IF reqs[i].kind = "create" THEN Room(Null) ELSE Null)
  <2> DEFINE ans == IF reqs[i].kind = "create" THEN Room(Null) ELSE Null
  <2>1. /\ SrvType /\ srv.live' \in Real' /\ done \subseteq done'
        /\ reqs[i].kind = "command" => reqs[i].n \in Real'
        /\ reqs[i].kind = "create" => srv.room' = "here"
    BY <1>4, ApplyIs
  <2>2. moves' \in Nat /\ Real \subseteq Real' BY <1>4, <2>1, RealGrows DEF CardsInv
  <2>3. /\ Room(Null) \in Seq(Card)
        /\ \A k \in 1 .. Len(Room(Null)) : Room(Null)[k].live = Null
        /\ srv.room' = "here" => Len(Room(Null)) = 1
    BY <2>1, RoomIs
  <2>4. /\ ans \in Seq(Card) \cup Nat \cup {Null}
        /\ reqs[i].kind = "create" =>
             /\ ans \in Seq(Card) /\ Len(ans) = 1
             /\ \A k \in 1 .. Len(ans) : ans[k].live \in Real' \cup {Null}
    BY <2>1, <2>3
  <2> HIDE DEF ans
  <2>5. RequestOK([reqs[i] EXCEPT !.st = "ok", !.ans = ans], cards, Real')
    BY <1>1, <1>2, <2>1, <2>2, <2>4, AnswerOK
  <2>6. Answer(i, "ok", ans) BY <1>4 DEF ans
  <2>7. QED BY <1>1, <2>1, <2>2, <2>4, <2>5, <2>6, AnswerKeeps
<1>5. CASE Quiet /\ UNCHANGED moves /\ Answer(i, "err", Null)
  <2>1. SrvType /\ srv.live' \in Real' /\ done \subseteq done' /\ Real \subseteq Real'
        /\ moves' \in Nat
    BY <1>5 DEF CardsInv, SrvType, Quiet, Real
  <2>2. QED BY <1>1, <1>3, <1>5, <2>1, AnswerKeeps
<1>6. CASE Apply(reqs[i]) /\ Tick /\ Answer(i, "err", Null)
  <2>1. SrvType /\ srv.live' \in Real' /\ done \subseteq done' BY <1>6, ApplyIs
  <2>2. moves' \in Nat /\ Real \subseteq Real' BY <1>6, <2>1, MovesTyped, RealGrows
  <2>3. QED BY <1>1, <1>3, <1>6, <2>1, <2>2, AnswerKeeps
<1>7. QED BY <1>4, <1>5, <1>6 DEF ServeCommand

-----------------------------------------------------------------------------
(* The steps of the browser.                                               *)

DlgType == dlg' \in [open : BOOLEAN, fresh : {dlg.fresh'}, seen : {dlg.seen'}]

LEMMA BrowserMoves ==
  ASSUME CardsInv, UNCHANGED <<srv, done>>, moves' \in Nat, DlgType,
         dlg.open' => cards' # <<>>, Fits(reqs', cards', Real)
  PROVE  CardsInv'
<1>1. Real' = Real BY DEF Real
<1>2. QED BY <1>1 DEF CardsInv, DlgType

LEMMA SameDialog == CardsInv /\ UNCHANGED <<dlg, cards>> => DlgType /\ (dlg.open' => cards' # <<>>)
BY DEF CardsInv, DlgType

\* Steps that send one call which plays nothing, or none.
LEMMA SendKeeps ==
  ASSUME CardsInv, UNCHANGED <<srv, done, cards>>, moves' \in Nat, DlgType,
         dlg.open' => cards # <<>>, NEW r \in Request, ~Playing(r), RequestOK(r, cards, Real),
         reqs' = reqs \/ reqs' = reqs \o <<r>>
  PROVE  CardsInv'
<1>1. Fits(reqs, cards, Real) BY DEF CardsInv
<1>2. Fits(reqs \o <<r>>, cards, Real) BY <1>1, SendFits
<1>3. Fits(reqs', cards', Real) BY <1>1, <1>2
<1>4. QED BY <1>3, BrowserMoves

LEMMA RefreshKeeps ==
  ASSUME CardsInv, UNCHANGED <<srv, done, cards>>, moves' \in Nat, DlgType,
         dlg.open' => cards # <<>>, reqs' = reqs \/ Send(<<Rooms>>)
  PROVE  CardsInv'
<1>1. /\ Rooms \in Request /\ ~Playing(Rooms) /\ RequestOK(Rooms, cards, Real)
  BY PlainCalls DEF Rooms
<1>2. reqs' = reqs \/ reqs' = reqs \o <<Rooms>> BY DEF Send
<1>3. QED BY <1>1, <1>2, SendKeeps

LEMMA DeliverKeepsCards == CardsInv /\ Deliver => CardsInv'
<1> SUFFICES ASSUME CardsInv, Deliver PROVE CardsInv' OBVIOUS
<1> DEFINE c == Call("list", "none")
<1>1. c \in Request /\ ~Playing(c) /\ RequestOK(c, cards, Real) BY PlainCalls
<1> HIDE DEF c
<1>2. UNCHANGED <<srv, done, cards, moves>> /\ (reqs' = reqs \/ reqs' = reqs \o <<c>>)
  BY DEF Deliver, Send, c
<1>3. DlgType /\ dlg.open' = dlg.open BY DEF CardsInv, DlgType, Deliver
<1>4. QED BY <1>1, <1>2, <1>3, SendKeeps DEF CardsInv

LEMMA AskKeeps ==
  ASSUME CardsInv, UNCHANGED <<srv, done, cards, dlg>>, Tick,
         NEW kind \in {"edit", "many", "create", "delete"},
         NEW lock \in {"none", "mode", "label", "clear", "add"}, Send(<<Call(kind, lock)>>)
  PROVE  CardsInv'
<1> DEFINE c == Call(kind, lock)
<1>1. c \in Request /\ ~Playing(c) /\ RequestOK(c, cards, Real) BY PlainCalls
<1> HIDE DEF c
<1>2. reqs' = reqs \o <<c>> BY DEF Send, c
<1>3. QED BY <1>1, <1>2, MovesTyped, SameDialog, SendKeeps

LEMMA EditsKeep == CardsInv /\ Edits => CardsInv'
<1>1. ASSUME CardsInv, NEW kind \in {"edit", "many"},
             NEW lock \in {"none", "mode", "label", "clear", "add"}, Edit(kind, lock)
      PROVE  CardsInv'
  BY <1>1, AskKeeps DEF Edit
<1>2. QED BY <1>1 DEF Edits, ChangeMode, SaveLabel, ClearAll, Add, AddMany, RowButton

LEMMA KickKeeps == CardsInv /\ Kick => CardsInv'
<1> SUFFICES ASSUME CardsInv, Kick PROVE CardsInv' OBVIOUS
<1> DEFINE c == Call("kick", "kick")
           r == [c EXCEPT !.n = Theirs]
<1>1. Theirs \in Nat /\ Theirs \in Real /\ moves' \in Nat BY MovesTyped DEF Kick
<1>2. c \in Request /\ c.kind = "kick" /\ c.lock = "kick" /\ c.st = "sent" /\ c.at = 0
  <2>1. "kick" \in {"rooms", "live", "list", "command", "kick", "edit", "many", "create",
                    "delete"}
        /\ "kick" \in {"none", "play", "kick", "mode", "label", "clear", "add"}
    OBVIOUS
  <2>2. QED BY <2>1, CallIs
<1>3. reqs' = reqs \o <<r>> /\ UNCHANGED <<srv, done, cards, dlg>> BY DEF Kick, Send
<1> HIDE DEF c
<1>4. /\ r \in Request /\ r.kind = "kick" /\ r.lock = "kick" /\ r.st = "sent" /\ r.at = 0
      /\ r.n = Theirs
  BY <1>1, <1>2 DEF Request
<1> HIDE DEF r
<1>5. ~Playing(r) /\ RequestOK(r, cards, Real) BY <1>1, <1>4 DEF Playing, RequestOK
<1>6. QED BY <1>1, <1>3, <1>4, <1>5, SameDialog, SendKeeps

LEMMA OpenKeeps == CardsInv /\ Open => CardsInv'
<1> SUFFICES ASSUME CardsInv, Open PROVE CardsInv' OBVIOUS
<1> DEFINE a == Call("live", "none")
           b == Call("list", "none")
<1>1. /\ a \in Request /\ ~Playing(a) /\ RequestOK(a, cards, Real)
      /\ b \in Request /\ ~Playing(b) /\ RequestOK(b, cards, Real)
  BY PlainCalls
<1> HIDE DEF a, b
<1>2. /\ UNCHANGED <<srv, done, cards>> /\ moves' \in Nat /\ cards # <<>>
      /\ reqs' = reqs \o <<a, b>>
  BY MovesTyped DEF CardsInv, Open, Send, a, b
<1>3. Fits(reqs, cards, Real) /\ reqs \in Seq(Request) BY DEF CardsInv, Fits
<1>4. Fits(Append(reqs, a), cards, Real) BY <1>1, <1>3, AppendFits
<1>5. Fits(Append(Append(reqs, a), b), cards, Real)
  <2> DEFINE u == Append(reqs, a)
  <2>1. Fits(u, cards, Real) BY <1>4
  <2> HIDE DEF u
  <2>2. Fits(Append(u, b), cards, Real) BY <1>1, <2>1, AppendFits
  <2>3. QED BY <2>2 DEF u
<1>6. reqs' = Append(Append(reqs, a), b) BY <1>1, <1>2, <1>3, SendIs
<1>7. DlgType BY DEF CardsInv, DlgType, Open
<1>8. QED BY <1>2, <1>5, <1>6, <1>7, BrowserMoves

\* A command that is in flight keeps its flag until it has been answered.
LEMMA CloseKeeps == CardsInv /\ Close => CardsInv'
<1> SUFFICES ASSUME CardsInv, Close PROVE CardsInv' OBVIOUS
<1> DEFINE out == Unmount(reqs, OfEditor)
<1>1. Fits(reqs, cards, Real) /\ reqs \in Seq(Request) BY DEF CardsInv, Fits
<1>2. /\ out \in Seq(Request) /\ Len(out) = Len(reqs)
      /\ \A i \in 1 .. Len(reqs) :
           /\ out[i].kind = reqs[i].kind /\ out[i].lock = reqs[i].lock
           /\ out[i].st = reqs[i].st /\ out[i].ans = reqs[i].ans /\ out[i].n = reqs[i].n
           /\ out[i].was = reqs[i].was /\ out[i].at = reqs[i].at
           /\ out[i].own <=> reqs[i].own /\ reqs[i].kind \notin OfEditor
  BY <1>1, UnmountIs
<1> HIDE DEF out
<1>3. \A i \in 1 .. Len(reqs) : RequestOK(out[i], cards, Real)
  <2> TAKE i \in 1 .. Len(reqs)
  <2>1. RequestOK(reqs[i], cards, Real) BY <1>1 DEF Fits
  <2>2. reqs[i].at > 0 => reqs[i].kind = "command" /\ Playing(reqs[i]) /\ reqs[i].at <= Len(cards)
    BY <2>1 DEF RequestOK
  <2>3. "command" \notin OfEditor BY DEF OfEditor
  <2>4. out[i].at > 0 => out[i].kind = "command" /\ Playing(out[i]) /\ out[i].at <= Len(cards)
    BY <1>2, <2>2, <2>3 DEF Playing
  <2>5. QED BY <1>2, <2>1, <2>4 DEF RequestOK
<1>4. \A i, j \in 1 .. Len(reqs) : Playing(out[i]) /\ Playing(out[j]) => i = j
  <2>1. \A i \in 1 .. Len(reqs) : Playing(out[i]) => Playing(reqs[i]) BY <1>2 DEF Playing
  <2>2. QED BY <1>1, <2>1 DEF Fits
<1>5. \A k \in 1 .. Len(cards) :
        cards[k].live \in Real \cup {Null} \/ \E i \in 1 .. Len(reqs) : Shows(out[i], cards, k)
  BY <1>1, <1>2 DEF Fits, Shows
<1>6. Fits(out, cards, Real) BY <1>1, <1>2, <1>3, <1>4, <1>5 DEF Fits
<1>7. reqs' = out /\ UNCHANGED <<srv, done, cards, moves>> /\ dlg' = Closed
  BY DEF Close, out
<1>8. DlgType /\ ~dlg.open' BY <1>7 DEF DlgType, Closed
<1>9. QED BY <1>6, <1>7, <1>8, BrowserMoves DEF CardsInv

\* The snapshot of a command is never the effect of another: none is in flight.
LEMMA CommandKeeps == CardsInv /\ Command => CardsInv'
<1> SUFFICES ASSUME CardsInv, Command PROVE CardsInv' OBVIOUS
<1> DEFINE c == Call("command", "play")
           r == [c EXCEPT !.n = Mine, !.was = cards[1].live, !.at = 1]
<1>1. /\ Fits(reqs, cards, Real) /\ reqs \in Seq(Request) /\ cards \in Seq(Card)
      /\ cards # <<>> /\ Len(cards) \in Nat /\ Len(cards) >= 1 /\ Len(reqs) \in Nat
  <2>1. reqs \in Seq(Request) /\ cards \in Seq(Card) /\ cards # <<>>
    BY DEF CardsInv, Fits, Command, PlaybackRow
  <2>2. QED BY <2>1, EmptySeq, LenProperties DEF CardsInv
<1>2. Mine \in Nat /\ moves' \in Nat BY MovesTyped DEF Command
<1>3. cards[1] \in Card /\ cards[1].live \in Nat \cup {Null}
  <2>1. 1 \in 1 .. Len(cards) BY <1>1
  <2>2. cards[1] \in Card BY <1>1, <2>1, ElementOfSeq
  <2>3. QED BY <2>2 DEF Card
<1>4. \A i \in 1 .. Len(reqs) : ~Playing(reqs[i])
  BY DEF Command, PlaybackRow, Busy, Playing
<1>5. cards[1].live \in Real \cup {Null}
  <2>1. \A i \in 1 .. Len(reqs) : ~Shows(reqs[i], cards, 1)
    <3> TAKE i \in 1 .. Len(reqs)
    <3>1. RequestOK(reqs[i], cards, Real) /\ ~Playing(reqs[i]) BY <1>1, <1>4 DEF Fits
    <3>2. reqs[i].at # 1 BY <3>1 DEF RequestOK
    <3>3. QED BY <3>2 DEF Shows
  <2>2. 1 \in 1 .. Len(cards) BY <1>1
  <2>3. QED BY <1>1, <2>1, <2>2 DEF Fits
<1>6. c \in Request /\ c.kind = "command" /\ c.lock = "play" /\ c.st = "sent" /\ c.own
  <2>1. "command" \in {"rooms", "live", "list", "command", "kick", "edit", "many", "create",
                       "delete"}
        /\ "play" \in {"none", "play", "kick", "mode", "label", "clear", "add"}
    OBVIOUS
  <2>2. QED BY <2>1, CallIs
<1>7. reqs' = reqs \o <<r>> /\ cards' = Optimistic /\ UNCHANGED <<srv, done, dlg>>
  BY DEF Command, Send
<1> HIDE DEF c
<1>8. /\ r \in Request /\ r.kind = "command" /\ r.st = "sent" /\ r.at = 1 /\ r.n = Mine
      /\ r.lock = "play" /\ r.own /\ r.was = cards[1].live
  BY <1>2, <1>3, <1>6 DEF Request
<1> HIDE DEF r
<1>9. RequestOK(r, cards, Real) BY <1>1, <1>5, <1>8 DEF RequestOK, Playing
<1>10. reqs' = Append(reqs, r) BY <1>1, <1>7, <1>8, SendIs
<1>11. Fits(reqs', cards, Real) BY <1>1, <1>4, <1>8, <1>9, <1>10, AppendFits
<1>12. Fits(reqs', cards', Real) /\ Len(cards') = Len(cards)
  <2>1. CASE cards[1].live = Null BY <1>7, <1>11, <2>1 DEF Optimistic
  <2>2. CASE cards[1].live # Null
    <3> DEFINE one == [cards[1] EXCEPT !.live = Mine]
    <3>1. one \in Card /\ one.live = Mine BY <1>2, <1>3 DEF Card
    <3>2. cards' = [cards EXCEPT ![1] = one] BY <1>7, <2>2 DEF Optimistic
    <3> HIDE DEF one
    <3>3. 1 \in 1 .. Len(cards) BY <1>1
    <3>4. /\ cards' \in Seq(Card) /\ Len(cards') = Len(cards)
          /\ \A k \in 1 .. Len(cards) : cards'[k] = IF k = 1 THEN one ELSE cards[k]
      BY <1>1, <3>1, <3>2, <3>3, ExceptSeq
    <3>5. Len(reqs) + 1 \in 1 .. Len(reqs') /\ reqs'[Len(reqs) + 1] = r
      BY <1>1, <1>8, <1>10, AppendProperties
    <3>6. Shows(r, cards', 1) BY <1>8, <2>2, <3>1, <3>3, <3>4 DEF Shows
    <3>7. \A k \in 1 .. Len(cards) :
            \/ cards'[k].live = cards[k].live
            \/ \E i \in 1 .. Len(reqs') : Shows(reqs'[i], cards', k)
      BY <3>4, <3>5, <3>6
    <3>8. QED BY <1>11, <3>4, <3>7, CardsFit
  <2>3. QED BY <2>1, <2>2
<1>13. DlgType /\ cards' # <<>>
  <2>1. DlgType BY <1>7 DEF CardsInv, DlgType
  <2>2. Len(cards') # 0 BY <1>1, <1>12
  <2>3. QED BY <2>1, <2>2, EmptySeq
<1>14. QED BY <1>2, <1>7, <1>12, <1>13, BrowserMoves

-----------------------------------------------------------------------------
(* The answers.                                                            *)

LEMMA RestFits ==
  ASSUME CardsInv, NEW i \in 1 .. Len(reqs), reqs[i].kind # "command"
  PROVE  /\ Fits(Rest(i), cards, Real) /\ Rest(i) \in Seq(Request)
         /\ Playing(reqs[i]) => \A j \in 1 .. Len(Rest(i)) : ~Playing(Rest(i)[j])
<1>1. Fits(reqs, cards, Real) BY DEF CardsInv
<1>2. \A k \in 1 .. Len(cards) : ~Shows(reqs[i], cards, k) BY DEF Shows
<1>3. Fits(RemoveAt(reqs, i), cards, Real)
      /\ (Playing(reqs[i]) => \A j \in 1 .. Len(RemoveAt(reqs, i)) : ~Playing(RemoveAt(reqs, i)[j]))
  BY <1>1, <1>2, RemoveFits
<1>4. QED BY <1>3 DEF Rest, Fits

LEMMA AnsweredOK ==
  ASSUME CardsInv, NEW i \in 1 .. Len(reqs)
  PROVE  reqs[i] \in Request /\ RequestOK(reqs[i], cards, Real)
<1>1. reqs \in Seq(Request) BY DEF CardsInv, Fits
<1>2. QED BY <1>1, RequestTyped DEF CardsInv, Fits

LEMMA ReplaceKeeps ==
  ASSUME CardsInv, NEW rs, Fits(rs, cards, Real), NEW rooms \in Seq(Card),
         \A k \in 1 .. Len(rooms) : rooms[k].live \in Real \cup {Null},
         Replace(rooms, rs), UNCHANGED <<srv, done, moves>>
  PROVE  CardsInv'
<1>1. rs \in Seq(Request) /\ cards' = rooms /\ moves' \in Nat BY DEF Fits, Replace, CardsInv
<1>2. CASE rooms = <<>>
  <2> DEFINE kinds == OfDialog \cup OfEditor
             u == Unmount(rs, kinds)
             out == Detach(u)
  <2> HIDE DEF kinds
  <2>1. /\ u \in Seq(Request) /\ Len(u) = Len(rs)
        /\ \A i \in 1 .. Len(rs) :
             /\ u[i].kind = rs[i].kind /\ u[i].lock = rs[i].lock /\ u[i].st = rs[i].st
             /\ u[i].ans = rs[i].ans /\ u[i].n = rs[i].n /\ u[i].was = rs[i].was
             /\ u[i].own => rs[i].own
    BY <1>1, UnmountIs
  <2> HIDE DEF u
  <2>2. /\ out \in Seq(Request) /\ Len(out) = Len(u)
        /\ \A i \in 1 .. Len(u) :
             /\ out[i].kind = u[i].kind /\ out[i].lock = u[i].lock /\ out[i].st = u[i].st
             /\ out[i].ans = u[i].ans /\ out[i].n = u[i].n /\ out[i].was = u[i].was
             /\ out[i].own = u[i].own /\ out[i].at = 0
    BY <2>1, DetachIs
  <2> HIDE DEF out
  <2>3. /\ Len(out) = Len(rs)
        /\ \A i \in 1 .. Len(rs) :
             /\ out[i].kind = rs[i].kind /\ out[i].lock = rs[i].lock /\ out[i].st = rs[i].st
             /\ out[i].ans = rs[i].ans /\ out[i].n = rs[i].n /\ out[i].was = rs[i].was
             /\ out[i].own => rs[i].own
             /\ out[i].at = 0
    BY <2>1, <2>2
  <2>4. Fits(out, rooms, Real) BY <2>2, <2>3, ReplaceFits
  <2>5. reqs' = out /\ dlg' = Closed BY <1>2 DEF Replace, out, u, kinds
  <2>6. DlgType /\ ~dlg.open' BY <2>5 DEF DlgType, Closed
  <2>7. QED BY <1>1, <2>4, <2>5, <2>6, BrowserMoves
<1>3. CASE rooms # <<>>
  <2> DEFINE out == Detach(rs)
  <2>1. /\ out \in Seq(Request) /\ Len(out) = Len(rs)
        /\ \A i \in 1 .. Len(rs) :
             /\ out[i].kind = rs[i].kind /\ out[i].lock = rs[i].lock /\ out[i].st = rs[i].st
             /\ out[i].ans = rs[i].ans /\ out[i].n = rs[i].n /\ out[i].was = rs[i].was
             /\ out[i].own = rs[i].own /\ out[i].at = 0
    BY <1>1, DetachIs
  <2> HIDE DEF out
  <2>2. Fits(out, rooms, Real) BY <2>1, ReplaceFits
  <2>3. reqs' = out /\ dlg' = dlg BY <1>3 DEF Replace, out
  <2>4. DlgType BY <2>3 DEF CardsInv, DlgType
  <2>5. QED BY <1>1, <1>3, <2>2, <2>3, <2>4, BrowserMoves
<1>4. QED BY <1>2, <1>3

LEMMA LandRoomsKeeps ==
  ASSUME CardsInv, NEW i \in 1 .. Len(reqs), LandRooms(i), Land(i)
  PROVE  CardsInv'
<1>1. reqs[i].kind = "rooms" /\ UNCHANGED <<srv, done>> BY DEF LandRooms, Land
<1>2. Fits(Rest(i), cards, Real) BY <1>1, RestFits
<1>3. CASE Ok(i)
  <2>1. Replace(reqs[i].ans, Rest(i)) /\ UNCHANGED moves BY <1>3 DEF LandRooms
  <2>2. /\ reqs[i].ans \in Seq(Card)
        /\ \A k \in 1 .. Len(reqs[i].ans) : reqs[i].ans[k].live \in Real \cup {Null}
    BY <1>1, <1>3, AnsweredOK DEF RequestOK, Ok
  <2>3. QED BY <1>1, <1>2, <2>1, <2>2, ReplaceKeeps
<1>4. CASE ~Ok(i)
  <2>1. reqs' = Rest(i) /\ UNCHANGED <<cards, dlg, moves>> BY <1>4 DEF LandRooms, Still
  <2>2. QED BY <1>1, <1>2, <2>1, SameDialog, BrowserMoves DEF CardsInv
<1>5. QED BY <1>3, <1>4

LEMMA LandDeleteKeeps ==
  ASSUME CardsInv, NEW i \in 1 .. Len(reqs), LandDelete(i), Land(i)
  PROVE  CardsInv'
<1>1. reqs[i].kind = "delete" /\ UNCHANGED <<srv, done>> BY DEF LandDelete, Land
<1>2. Fits(Rest(i), cards, Real) BY <1>1, RestFits
<1>3. CASE Ok(i)
  <2>1. Replace(<<>>, Rest(i)) /\ UNCHANGED moves BY <1>3 DEF LandDelete
  <2>2. <<>> \in Seq(Card) /\ Len(<<>>) = 0 BY EmptySeq
  <2> DEFINE none == <<>>
  <2>3. /\ none \in Seq(Card) /\ Replace(none, Rest(i))
        /\ \A k \in 1 .. Len(none) : none[k].live \in Real \cup {Null}
    BY <2>1, <2>2
  <2> HIDE DEF none
  <2>4. QED BY <1>1, <1>2, <2>1, <2>3, ReplaceKeeps
<1>4. CASE ~Ok(i)
  <2>1. reqs' = Rest(i) /\ UNCHANGED <<cards, dlg, moves>> BY <1>4 DEF LandDelete, Still
  <2>2. QED BY <1>1, <1>2, <2>1, SameDialog, BrowserMoves DEF CardsInv
<1>5. QED BY <1>3, <1>4

LEMMA LandLiveKeeps ==
  ASSUME CardsInv, NEW i \in 1 .. Len(reqs), LandLive(i), Land(i)
  PROVE  CardsInv'
<1>1. /\ reqs[i].kind = "live" /\ reqs' = Rest(i) /\ UNCHANGED <<srv, done, cards, moves>>
      /\ dlg' = dlg \/ dlg' = [dlg EXCEPT !.fresh = <<reqs[i].ans>>]
  BY DEF LandLive, Land
<1>2. DlgType /\ dlg.open' = dlg.open BY <1>1 DEF CardsInv, DlgType
<1>3. QED BY <1>1, <1>2, RestFits, BrowserMoves DEF CardsInv

LEMMA LandListKeeps ==
  ASSUME CardsInv, NEW i \in 1 .. Len(reqs), LandList(i), Land(i)
  PROVE  CardsInv'
<1>1. /\ reqs[i].kind = "list" /\ reqs' = Rest(i) /\ UNCHANGED <<srv, done, dlg, moves>>
      /\ cards' = IF Ok(i) /\ cards # <<>>
                  THEN [cards EXCEPT ![1].list = reqs[i].ans] ELSE cards
  BY DEF LandList, Land
<1>2. Fits(Rest(i), cards, Real) /\ cards \in Seq(Card) BY <1>1, RestFits DEF CardsInv, Fits
<1>3. CASE Ok(i) /\ cards # <<>>
  <2> DEFINE one == [cards[1] EXCEPT !.list = reqs[i].ans]
  <2>1. reqs[i].ans \in Nat BY <1>1, <1>3, AnsweredOK DEF RequestOK, Ok
  <2>2. 1 \in 1 .. Len(cards) /\ Len(cards) \in Nat BY <1>2, <1>3, EmptySeq, LenProperties
  <2>3. cards[1] \in Card BY <1>2, <2>2, ElementOfSeq
  <2>4. one \in Card /\ one.live = cards[1].live BY <2>1, <2>3 DEF Card
  <2>5. cards' = [cards EXCEPT ![1] = one] BY <1>1, <1>3
  <2> HIDE DEF one
  <2>6. /\ cards' \in Seq(Card) /\ Len(cards') = Len(cards)
        /\ \A k \in 1 .. Len(cards) : cards'[k] = IF k = 1 THEN one ELSE cards[k]
    BY <1>2, <2>2, <2>4, <2>5, ExceptSeq
  <2>7. \A k \in 1 .. Len(cards) : cards'[k].live = cards[k].live BY <2>4, <2>6
  <2>8. Fits(Rest(i), cards', Real) BY <1>2, <2>6, <2>7, CardsFit
  <2>9. cards' # <<>> BY <2>2, <2>6, EmptySeq
  <2>10. DlgType BY <1>1 DEF CardsInv, DlgType
  <2>11. QED BY <1>1, <2>8, <2>9, <2>10, BrowserMoves DEF CardsInv
<1>4. CASE ~(Ok(i) /\ cards # <<>>)
  BY <1>1, <1>2, <1>4, SameDialog, BrowserMoves DEF CardsInv
<1>5. QED BY <1>3, <1>4

\* What follows a command or a kick is sent under the same flag.
LEMMA AgainIs ==
  ASSUME NEW r \in Request
  PROVE  /\ Again(r) \in Request /\ \A cs, hd : RequestOK(Again(r), cs, hd)
         /\ Playing(Again(r)) => Playing(r)
<1> DEFINE c == Call("live", r.lock)
           a == [c EXCEPT !.own = r.own]
<1>1. r.lock \in {"none", "play", "kick", "mode", "label", "clear", "add"} /\ r.own \in BOOLEAN
  BY DEF Request
<1>2. c \in Request /\ c.kind = "live" /\ c.lock = r.lock /\ c.st = "sent" /\ c.at = 0
  <2>1. "live" \in {"rooms", "live", "list", "command", "kick", "edit", "many", "create",
                    "delete"}
    OBVIOUS
  <2>2. QED BY <1>1, <2>1, CallIs
<1> HIDE DEF c
<1>3. /\ a \in Request /\ a.kind = "live" /\ a.lock = r.lock /\ a.st = "sent" /\ a.at = 0
      /\ a.own <=> r.own
  BY <1>1, <1>2 DEF Request
<1>4. Again(r) = a BY DEF Again, c
<1> HIDE DEF a
<1>5. \A cs, hd : RequestOK(a, cs, hd) BY <1>3, Unanswered
<1>6. Playing(a) => Playing(r) BY <1>3 DEF Playing
<1>7. QED BY <1>3, <1>4, <1>5, <1>6

LEMMA LandKickKeeps ==
  ASSUME CardsInv, NEW i \in 1 .. Len(reqs), LandKick(i), Land(i)
  PROVE  CardsInv'
<1> DEFINE a == Again(reqs[i])
           rest == Rest(i)
<1>1. reqs[i].kind = "kick" /\ UNCHANGED <<srv, done, cards, dlg, moves>>
      /\ reqs' = rest \o (IF Ok(i) THEN <<a>> ELSE <<>>)
  BY DEF LandKick, Land, Still
<1>2. /\ Fits(rest, cards, Real) /\ rest \in Seq(Request)
      /\ Playing(reqs[i]) => \A j \in 1 .. Len(rest) : ~Playing(rest[j])
  BY <1>1, RestFits
<1>3. a \in Request /\ RequestOK(a, cards, Real) /\ (Playing(a) => Playing(reqs[i]))
  BY AnsweredOK, AgainIs
<1> HIDE DEF a, rest
<1>4. Fits(Append(rest, a), cards, Real) BY <1>2, <1>3, AppendFits
<1>5. reqs' = rest \/ reqs' = Append(rest, a) BY <1>1, <1>2, <1>3, SendIs
<1>6. Fits(reqs', cards, Real) BY <1>2, <1>4, <1>5
<1>7. QED BY <1>1, <1>6, SameDialog, BrowserMoves DEF CardsInv

\* A refused command puts back the snapshot, and a confirmed one has come true.
LEMMA LandCommandKeeps ==
  ASSUME CardsInv, NEW i \in 1 .. Len(reqs), LandCommand(i), Land(i)
  PROVE  CardsInv'
<1> DEFINE a == Again(reqs[i])
           rest == Rest(i)
           r == reqs[i]
<1>1. /\ r.kind = "command" /\ r.st # "sent" /\ UNCHANGED <<srv, done, dlg, moves>>
      /\ reqs' = rest \o (IF Ok(i) THEN <<Rooms, a>> ELSE <<>>)
      /\ cards' = IF Ok(i) \/ r.at = 0 \/ r.was = Null THEN cards
                  ELSE [cards EXCEPT ![r.at].live = r.was]
  BY DEF LandCommand, Land
<1>2. r \in Request /\ RequestOK(r, cards, Real) BY AnsweredOK
<1>3. r.was \in Real \cup {Null} /\ (Ok(i) => r.n \in Real) /\ r.at \in Nat
      /\ (r.at > 0 => r.at <= Len(cards)) /\ r.was \in Nat \cup {Null}
  BY <1>1, <1>2 DEF RequestOK, Ok, Request
<1>4. Fits(reqs, cards, Real) /\ cards \in Seq(Card) /\ Len(cards) \in Nat
  BY LenProperties DEF CardsInv, Fits
<1>5. a \in Request /\ RequestOK(a, cards, Real) /\ (Playing(a) => Playing(r))
  BY <1>2, AgainIs
<1>6. Rooms \in Request /\ RequestOK(Rooms, cards, Real) /\ ~Playing(Rooms)
  BY PlainCalls DEF Rooms
<1> HIDE DEF a
<1>7. rest = RemoveAt(reqs, i) BY DEF Rest
<1> HIDE DEF rest
<1>8. CASE Ok(i) \/ r.at = 0 \/ r.was = Null
  <2>1. \A k \in 1 .. Len(cards) : Shows(r, cards, k) => cards[k].live \in Real \cup {Null}
    BY <1>3, <1>8 DEF Shows
  <2>2. /\ Fits(rest, cards, Real) /\ rest \in Seq(Request)
        /\ Playing(r) => \A j \in 1 .. Len(rest) : ~Playing(rest[j])
    <3>1. /\ Fits(rest, cards, Real)
          /\ Playing(r) => \A j \in 1 .. Len(rest) : ~Playing(rest[j])
      BY <1>4, <1>7, <2>1, RemoveFits
    <3>2. rest \in Seq(Request) BY <3>1 DEF Fits
    <3>3. QED BY <3>1, <3>2
  <2> DEFINE u == Append(rest, Rooms)
  <2>3. Fits(u, cards, Real) BY <1>6, <2>2, AppendFits
  <2>4. Playing(r) => \A j \in 1 .. Len(u) : ~Playing(u[j])
    <3>1. /\ Len(u) = Len(rest) + 1 /\ u[Len(rest) + 1] = Rooms /\ Len(rest) \in Nat
          /\ \A j \in 1 .. Len(rest) : u[j] = rest[j]
      BY <1>6, <2>2, AppendProperties, LenProperties
    <3> HIDE DEF u
    <3>2. QED BY <1>6, <2>2, <3>1
  <2> HIDE DEF u
  <2>5. Fits(Append(u, a), cards, Real) BY <1>5, <2>3, <2>4, AppendFits
  <2>6. reqs' = rest \/ reqs' = Append(u, a) BY <1>1, <1>5, <1>6, <2>2, SendIs DEF u
  <2>7. Fits(reqs', cards, Real) /\ cards' = cards BY <1>1, <1>8, <2>2, <2>5, <2>6
  <2>8. QED BY <1>1, <2>7, SameDialog, BrowserMoves DEF CardsInv
<1>9. CASE ~(Ok(i) \/ r.at = 0 \/ r.was = Null)
  <2> DEFINE one == [cards[r.at] EXCEPT !.live = r.was]
  <2>1. r.at \in 1 .. Len(cards) BY <1>3, <1>4, <1>9
  <2>2. cards[r.at] \in Card BY <1>4, <2>1, ElementOfSeq
  <2>3. one \in Card /\ one.live = r.was BY <1>3, <2>2 DEF Card
  <2>4. cards' = [cards EXCEPT ![r.at] = one] BY <1>1, <1>9
  <2> HIDE DEF one
  <2>5. /\ cards' \in Seq(Card) /\ Len(cards') = Len(cards)
        /\ \A k \in 1 .. Len(cards) : cards'[k] = IF k = r.at THEN one ELSE cards[k]
    BY <1>4, <2>1, <2>3, <2>4, ExceptSeq
  <2>6. \A k \in 1 .. Len(cards) :
          cards'[k].live = cards[k].live \/ cards'[k].live \in Real \cup {Null}
    BY <1>3, <2>3, <2>5
  <2>7. Fits(reqs, cards', Real) BY <1>4, <2>5, <2>6, CardsFit
  <2>8. \A k \in 1 .. Len(cards') : Shows(r, cards', k) => cards'[k].live \in Real \cup {Null}
    BY <1>3, <2>3, <2>5 DEF Shows
  <2>9. Fits(rest, cards', Real) /\ rest \in Seq(Request)
    BY <1>7, <2>7, <2>8, RemoveFits DEF Fits
  <2>10. reqs' = rest BY <1>1, <1>9, <2>9, ConcatEmptySeq
  <2>11. cards' # <<>> BY <2>1, <1>4, <2>5, EmptySeq
  <2>12. DlgType BY <1>1 DEF CardsInv, DlgType
  <2>13. QED BY <1>1, <2>9, <2>10, <2>11, <2>12, BrowserMoves DEF CardsInv
<1>10. QED BY <1>8, <1>9

LEMMA LandEditKeeps ==
  ASSUME CardsInv, NEW i \in 1 .. Len(reqs), LandEdit(i), Land(i)
  PROVE  CardsInv'
<1> DEFINE rest == Rest(i)
           m == [Call("many", "add") EXCEPT !.own = reqs[i].own]
<1>1. /\ reqs[i].kind # "command" /\ UNCHANGED <<srv, done, cards, dlg>>
      /\ \/ reqs' = rest \o (IF Ok(i) THEN <<Rooms>> ELSE <<>>) /\ UNCHANGED moves
         \/ reqs' = rest \o <<Rooms, m>> /\ Tick
  BY DEF LandEdit, Land, OfEditor
<1>2. Fits(rest, cards, Real) /\ rest \in Seq(Request) BY <1>1, RestFits
<1>3. Rooms \in Request /\ RequestOK(Rooms, cards, Real) /\ ~Playing(Rooms)
  BY PlainCalls DEF Rooms
<1>4. m \in Request /\ RequestOK(m, cards, Real) /\ ~Playing(m)
  <2>1. reqs[i].own \in BOOLEAN BY AnsweredOK DEF Request
  <2>2. QED BY <2>1, PlainCalls
<1> HIDE DEF m, rest
<1> DEFINE u == Append(rest, Rooms)
<1>5. Fits(u, cards, Real) BY <1>2, <1>3, AppendFits
<1>6. Fits(Append(u, m), cards, Real)
  <2> HIDE DEF u
  <2>1. QED BY <1>4, <1>5, AppendFits
<1>7. reqs' = rest \/ reqs' = u \/ reqs' = Append(u, m) BY <1>1, <1>2, <1>3, <1>4, SendIs
<1>8. moves' \in Nat BY <1>1, MovesTyped DEF CardsInv
<1> HIDE DEF u
<1>9. Fits(reqs', cards, Real) BY <1>2, <1>5, <1>6, <1>7
<1>10. QED BY <1>1, <1>8, <1>9, SameDialog, BrowserMoves DEF CardsInv

LEMMA LandCreateKeeps ==
  ASSUME CardsInv, NEW i \in 1 .. Len(reqs), LandCreate(i), Land(i)
  PROVE  CardsInv'
<1> DEFINE rest == Rest(i)
           one == reqs[i].ans
           f(k) == IF Ok(i) /\ rest[k].at > 0
                   THEN [rest[k] EXCEPT !.at = rest[k].at + 1] ELSE rest[k]
           out == [k \in 1 .. Len(rest) |-> f(k)]
<1>1. reqs[i].kind = "create" /\ UNCHANGED <<srv, done, dlg, moves>>
      /\ cards' = (IF Ok(i) THEN one \o cards ELSE cards) /\ reqs' = out
  BY DEF LandCreate, Land, Each
<1>2. Fits(rest, cards, Real) /\ rest \in Seq(Request) BY <1>1, RestFits
<1> HIDE DEF rest
<1>3. Len(rest) \in Nat /\ \A k \in 1 .. Len(rest) : rest[k] \in Request /\ rest[k].at \in Nat
  BY <1>2, LenProperties, RequestTyped
<1>4. \A k \in 1 .. Len(rest) : f(k) \in Request
  <2> TAKE k \in 1 .. Len(rest)
  <2>1. CASE Ok(i) /\ rest[k].at > 0
    <3>1. rest[k] \in Request /\ rest[k].at + 1 \in Nat BY <1>3
    <3>2. [rest[k] EXCEPT !.at = rest[k].at + 1] \in Request BY <3>1 DEF Request
    <3>3. QED BY <2>1, <3>2
  <2>2. CASE ~(Ok(i) /\ rest[k].at > 0) BY <1>3, <2>2
  <2>3. QED BY <2>1, <2>2
<1>5. out \in Seq(Request) /\ Len(out) = Len(rest)
  <2> HIDE DEF f
  <2>1. QED BY <1>3, <1>4, IsASeq
<1>6. CASE Ok(i)
  <2>1. one \in Seq(Card) /\ Len(one) = 1 /\ one[1].live \in Real \cup {Null}
    BY <1>1, <1>6, AnsweredOK DEF RequestOK, Ok
  <2>2. \A k \in 1 .. Len(rest) :
          /\ out[k].kind = rest[k].kind /\ out[k].lock = rest[k].lock
          /\ out[k].st = rest[k].st /\ out[k].ans = rest[k].ans /\ out[k].n = rest[k].n
          /\ out[k].was = rest[k].was /\ out[k].own = rest[k].own
          /\ out[k].at = IF rest[k].at > 0 THEN rest[k].at + 1 ELSE rest[k].at
    <3> TAKE k \in 1 .. Len(rest)
    <3>2. CASE rest[k].at > 0
      <4>1. out[k] = [rest[k] EXCEPT !.at = rest[k].at + 1] BY <1>6, <3>2
      <4>2. rest[k] \in Request BY <1>3
      <4> HIDE DEF out
      <4>3. QED BY <3>2, <4>1, <4>2 DEF Request
    <3>3. CASE ~(rest[k].at > 0)
      <4>1. out[k] = rest[k] BY <3>3
      <4> HIDE DEF out
      <4>2. QED BY <3>3, <4>1
    <3>4. QED BY <3>2, <3>3
  <2> HIDE DEF out, one
  <2>3. Fits(out, one \o cards, Real) BY <1>2, <1>5, <2>1, <2>2, ShiftFits
  <2>4. cards' # <<>>
    <3>1. cards \in Seq(Card) /\ Len(cards) \in Nat BY LenProperties DEF CardsInv, Fits
    <3>2. Len(one \o cards) = Len(one) + Len(cards) BY <2>1, <3>1, ConcatProperties
    <3>3. Len(cards') # 0 BY <1>1, <1>6, <2>1, <3>1, <3>2
    <3>4. QED BY <3>3, EmptySeq
  <2>5. DlgType BY <1>1 DEF CardsInv, DlgType
  <2>6. QED BY <1>1, <1>6, <2>3, <2>4, <2>5, BrowserMoves DEF CardsInv
<1>7. CASE ~Ok(i)
  <2>1. \A k \in 1 .. Len(rest) : out[k] = rest[k] BY <1>7
  <2> HIDE DEF out
  <2>2. out = rest BY <1>2, <1>5, <2>1, SeqEqual
  <2>3. QED BY <1>1, <1>2, <1>7, <2>2, SameDialog, BrowserMoves DEF CardsInv
<1>8. QED BY <1>6, <1>7

-----------------------------------------------------------------------------
(* A refused command leaves no trace.                                      *)

LEMMA CardsStart == Init => CardsInv
<1> SUFFICES ASSUME Init PROVE CardsInv OBVIOUS
<1>1. reqs = <<>> /\ dlg = Closed /\ 0 \in Real /\ moves = 0 BY DEF Init, Real
<1>2. /\ srv \in [room : {"unborn", "here", "gone"}, list : Nat, live : Nat]
      /\ srv.live = 0
  BY DEF Init
<1>3. cards \in Seq(Card) /\ \A k \in 1 .. Len(cards) : cards[k].live = 0
  <2> DEFINE c == [list |-> 0, live |-> 0]
  <2>1. cards = <<>> \/ cards = <<c>> BY DEF Init
  <2>2. c \in Card /\ c.live = 0 BY DEF Card
  <2> HIDE DEF c
  <2>3. <<c>> \in Seq(Card) /\ Len(<<c>>) = 1 /\ <<c>>[1] = c BY <2>2
  <2>4. <<>> \in Seq(Card) /\ Len(<<>>) = 0 BY EmptySeq
  <2>5. CASE cards = <<>> BY <2>4, <2>5
  <2>6. CASE cards = <<c>> BY <2>2, <2>3, <2>6
  <2>7. QED BY <2>1, <2>5, <2>6
<1>4. Len(reqs) = 0 /\ reqs \in Seq(Request) BY <1>1
<1>5. Fits(reqs, cards, Real) BY <1>1, <1>3, <1>4 DEF Fits
<1>6. QED BY <1>1, <1>2, <1>5 DEF CardsInv, Closed

LEMMA LandKeeps ==
  ASSUME CardsInv, NEW i \in 1 .. Len(reqs), Land(i)
  PROVE  CardsInv'
BY LandRoomsKeeps, LandLiveKeeps, LandListKeeps, LandCommandKeeps, LandKickKeeps,
   LandEditKeeps, LandDeleteKeeps, LandCreateKeeps DEF Land

LEMMA CardsNext == CardsInv /\ [Next]_vars => CardsInv'
<1> SUFFICES ASSUME CardsInv, [Next]_vars PROVE CardsInv' OBVIOUS
<1>1. ASSUME NEW i \in 1 .. Len(reqs), Serve(i) PROVE CardsInv'
  BY <1>1, ReadKeeps, CommandServed DEF Serve
<1>2. ASSUME NEW i \in 1 .. Len(reqs), Land(i) PROVE CardsInv' BY <1>2, LandKeeps
<1>3. CASE Others BY <1>3, OthersKeepCards
<1>4. ASSUME NEW hidden \in BOOLEAN, Visibility(hidden) PROVE CardsInv'
  <2>1. /\ UNCHANGED <<srv, done, cards, dlg>> /\ Tick
        /\ reqs' = reqs \/ Send(<<Rooms>>)
    BY <1>4 DEF Visibility
  <2>2. QED BY <2>1, MovesTyped, SameDialog, RefreshKeeps
<1>5. CASE Restart BY <1>5, RestartKeepsCards
<1>6. CASE Toggle
  <2>1. UNCHANGED <<srv, done, cards, dlg, reqs>> /\ Tick BY <1>6 DEF Toggle
  <2>2. QED BY <2>1, MovesTyped, SameDialog, RefreshKeeps
<1>7. CASE Cycle
  <2>1. UNCHANGED <<srv, done, cards, dlg, moves>> /\ Send(<<Rooms>>) BY <1>7 DEF Cycle
  <2>2. QED BY <2>1, MovesTyped, SameDialog, RefreshKeeps
<1>8. CASE Open BY <1>8, OpenKeeps
<1>9. CASE Close BY <1>9, CloseKeeps
<1>10. CASE Connect
  <2>1. UNCHANGED <<srv, done, cards, dlg, moves, reqs>> BY <1>10 DEF Connect
  <2>2. QED BY <2>1, MovesTyped, SameDialog, RefreshKeeps
<1>11. CASE Break
  <2>1. UNCHANGED <<srv, done, cards, dlg, moves, reqs>> BY <1>11 DEF Break
  <2>2. QED BY <2>1, MovesTyped, SameDialog, RefreshKeeps
<1>12. CASE Deliver BY <1>12, DeliverKeepsCards
<1>13. CASE Command BY <1>13, CommandKeeps
<1>14. CASE Kick BY <1>14, KickKeeps
<1>15. CASE Edits BY <1>15, EditsKeep
<1>16. CASE Delete
  <2>1. UNCHANGED <<srv, done, cards, dlg>> /\ Tick /\ Send(<<Call("delete", "none")>>)
    BY <1>16 DEF Delete
  <2>2. QED BY <2>1, AskKeeps
<1>17. CASE Create
  <2>1. UNCHANGED <<srv, done, cards, dlg>> /\ Tick /\ Send(<<Call("create", "none")>>)
    BY <1>17 DEF Create
  <2>2. QED BY <2>1, AskKeeps
<1>18. CASE UNCHANGED vars BY <1>18 DEF vars, CardsInv, Real
<1>19. QED
  BY <1>1, <1>2, <1>3, <1>4, <1>5, <1>6, <1>7, <1>8, <1>9, <1>10, <1>11, <1>12, <1>13,
     <1>14, <1>15, <1>16, <1>17, <1>18 DEF Next

LEMMA CardsAlways == Spec => []CardsInv
<1>1. QED BY CardsStart, CardsNext, PTL DEF Spec

\* The optimistic effect of a command is gone once the daemon has refused it,
\* whatever else has been fetched, kicked, edited, created or deleted since:
\* with no command in flight, no card shows what the room was never like.
THEOREM NoTraceLeft == Spec => []NeverInvented
<1>1. CardsInv => NeverInvented
  <2> SUFFICES ASSUME CardsInv, \A i \in 1 .. Len(reqs) : reqs[i].kind # "command",
                      NEW k \in 1 .. Len(cards)
               PROVE  cards[k].live \in Real \cup {Null}
    BY DEF NeverInvented, Real
  <2>1. \A i \in 1 .. Len(reqs) : ~Shows(reqs[i], cards, k) BY DEF Shows
  <2>2. QED BY <2>1 DEF CardsInv, Fits
<1>2. QED BY <1>1, CardsAlways, PTL

-----------------------------------------------------------------------------
(* The event log is complete.                                              *)

LEMMA LogStart == Init => LogInv
<1> SUFFICES ASSUME Init PROVE LogInv OBVIOUS
<1>1. ring = <<>> /\ nextId = 1 /\ stream = Stopped BY DEF Init
<1>2. /\ <<>> \in Seq(Envelope) /\ <<>> \in Seq(Nat) /\ Len(<<>>) = 0
  BY EmptySeq
<1>3. stream \in Stream /\ stream.st = "closed" /\ stream.pipe = <<>>
  BY <1>1, <1>2 DEF Stopped, Stream
<1>4. RingOK(ring, nextId) BY <1>1, <1>2 DEF RingOK, UpToDate
<1>5. QED BY <1>1, <1>2, <1>3, <1>4 DEF LogInv, LogOK

\* After a restart nothing is said of a stream that the old process served.
LEMMA RestartKeeps == LogInv /\ Restart => LogInv'
<1> SUFFICES ASSUME LogInv, Restart PROVE LogInv' OBVIOUS
<1>1. /\ ring' = <<>> /\ nextId' = 1
      /\ stream' = IF stream.st = "closed" THEN stream
                   ELSE [stream EXCEPT !.st = "waiting", !.pipe = <<>>, !.same = FALSE]
  BY DEF Restart
<1>2. <<>> \in Seq(Envelope) /\ Len(<<>>) = 0 BY EmptySeq
<1>3. stream' \in Stream /\ stream'.pipe = <<>> /\ (stream'.st = "closed" \/ ~stream'.same)
  BY <1>1, <1>2 DEF LogInv, LogOK, Stream
<1>4. RingOK(ring', nextId') BY <1>1, <1>2 DEF RingOK, UpToDate
<1>5. QED BY <1>1, <1>2, <1>3, <1>4 DEF LogInv, LogOK

LEMMA ServeKeepsLog ==
  ASSUME LogInv, CardsInv, NEW i \in 1 .. Len(reqs), Serve(i)
  PROVE  LogInv'
<1>1. CASE Quiet BY <1>1, ToldKeeps DEF Quiet, Told
<1>2. CASE Apply(reqs[i]) BY <1>2, ApplyIs, ToldKeeps
<1>3. QED BY <1>1, <1>2 DEF Serve, ServeRead, ServeCommand

LEMMA StoppedIs == Blank(Stopped) /\ Blank(Start)
<1>1. <<>> \in Seq(Envelope) /\ <<>> \in Seq(Nat) BY EmptySeq
<1>2. QED BY <1>1 DEF Blank, Stopped, Start, Stream

LEMMA LandKeepsLog ==
  ASSUME LogInv, NEW i \in 1 .. Len(reqs), Land(i)
  PROVE  LogInv'
<1>1. UNCHANGED <<ring, nextId>> BY DEF Land
<1>2. stream' = stream \/ stream' = Stopped
  BY DEF Land, LandRooms, LandLive, LandList, LandCommand, LandKick, LandEdit, LandDelete,
         LandCreate, Replace, Still
<1>3. QED BY <1>1, <1>2, StoppedIs, LogStable, LogForgotten

LEMMA LogNext == LogInv /\ CardsInv /\ [Next]_vars => LogInv'
<1> SUFFICES ASSUME LogInv, CardsInv, [Next]_vars PROVE LogInv' OBVIOUS
<1>1. ASSUME UNCHANGED <<ring, nextId, stream>> PROVE LogInv' BY <1>1, LogStable
<1>2. ASSUME NEW i \in 1 .. Len(reqs), Serve(i) PROVE LogInv' BY <1>2, ServeKeepsLog
<1>3. ASSUME NEW i \in 1 .. Len(reqs), Land(i) PROVE LogInv' BY <1>3, LandKeepsLog
<1>4. CASE Others BY <1>4, OthersKeepCards, ToldKeeps
<1>5. ASSUME NEW hidden \in BOOLEAN, Visibility(hidden) PROVE LogInv'
  BY <1>1, <1>5 DEF Visibility
<1>6. CASE Restart BY <1>6, RestartKeeps
<1>7. CASE Toggle \/ Cycle BY <1>1, <1>7 DEF Toggle, Cycle
<1>8. CASE Open
  <2>1. stream' = Start /\ UNCHANGED <<ring, nextId>> BY <1>8 DEF Open
  <2>2. QED BY <2>1, StoppedIs, LogForgotten
<1>9. CASE Close
  <2>1. stream' = [stream EXCEPT !.st = "closed", !.pipe = <<>>] /\ UNCHANGED <<ring, nextId>>
    BY <1>9 DEF Close
  <2>2. QED BY <2>1, LogCut
<1>10. CASE Connect BY <1>10, ConnectKeeps
<1>11. CASE Break
  <2>1. /\ stream' = [stream EXCEPT !.st = "waiting", !.pipe = <<>>]
        /\ stream.st # "closed" /\ UNCHANGED <<ring, nextId>>
    BY <1>11 DEF Break
  <2>2. QED BY <2>1, LogCut
<1>12. CASE Deliver BY <1>12, DeliverKeeps
<1>13. CASE Command \/ Kick BY <1>1, <1>13 DEF Command, Kick
<1>14. CASE Edits
  BY <1>1, <1>14 DEF Edits, ChangeMode, SaveLabel, ClearAll, Add, AddMany, RowButton, Edit
<1>15. CASE Delete \/ Create BY <1>1, <1>15 DEF Delete, Create
<1>16. CASE UNCHANGED vars BY <1>1, <1>16 DEF vars
<1>17. QED
  BY <1>2, <1>3, <1>4, <1>5, <1>6, <1>7, <1>8, <1>9, <1>10, <1>11, <1>12, <1>13,
     <1>14, <1>15, <1>16 DEF Next

\* What the buffer is short of at most is what the ring has lost.
LEMMA NewestKept ==
  ASSUME LogInv, stream.st = "open", stream.pipe = <<>>, stream.same,
         NEW n \in 0 .. Len(ring), n <= MaxEvents
  PROVE  /\ n <= Len(stream.buf)
         /\ \A j \in 0 .. n - 1 :
              /\ ring[Len(ring) - j].id = nextId - 1 - j
              /\ stream.buf[Len(stream.buf) - j] = nextId - 1 - j
<1>1. /\ BufferOK(ring, nextId, stream) /\ PipeOK(ring, nextId, stream)
      /\ RingOK(ring, nextId) /\ nextId \in Nat /\ Len(ring) \in Nat
      /\ stream.since \in Nat /\ Len(stream.buf) \in Nat /\ Len(stream.pipe) = 0
      /\ MaxEvents \in Nat
  BY LenProperties, EmptySeq, DashboardAssumption DEF LogInv, LogOK, Stream
<1>2. \A j \in 0 .. n - 1 :
        /\ ring[Len(ring) - j].id = nextId - 1 - j
        /\ j < Len(stream.buf) /\ stream.buf[Len(stream.buf) - j] = nextId - 1 - j
  <2> TAKE j \in 0 .. n - 1
  <2>1. Len(ring) > 0 /\ Len(ring) - j \in 1 .. Len(ring) BY <1>1
  <2>2. ring[Len(ring) - j].id = nextId - 1 - Len(ring) + (Len(ring) - j)
    BY <1>1, <2>1 DEF RingOK, UpToDate
  <2>3. stream.since = nextId - 1
    <3>1. stream.since + Len(stream.pipe) = nextId - 1 BY <1>1, <2>1 DEF PipeOK
    <3>2. QED BY <1>1, <3>1
  <2>4. j \in 0 .. MaxEvents - 1 /\ stream.since - j > nextId - 1 - Len(ring)
    BY <1>1, <2>3
  <2>5. j < Len(stream.buf) /\ stream.buf[Len(stream.buf) - j] = stream.since - j
    BY <1>1, <2>4 DEF BufferOK
  <2>6. nextId - 1 - Len(ring) + (Len(ring) - j) = nextId - 1 - j BY <1>1
  <2>7. QED BY <2>2, <2>3, <2>5, <2>6
<1>3. n <= Len(stream.buf)
  <2>1. CASE n = 0 BY <1>1, <2>1
  <2>2. CASE n > 0
    <3>1. n - 1 \in 0 .. n - 1 BY <2>2
    <3>2. n - 1 < Len(stream.buf) BY <1>2, <3>1
    <3>3. QED BY <1>1, <3>2
  <2>3. QED BY <2>1, <2>2
<1>4. QED BY <1>2, <1>3

LEMMA EndOf ==
  ASSUME NEW s \in Seq(Nat), NEW n \in 0 .. Len(s)
  PROVE  /\ SubSeq(s, Len(s) - n + 1, Len(s)) \in Seq(Nat)
         /\ Len(SubSeq(s, Len(s) - n + 1, Len(s))) = n
         /\ \A k \in 1 .. n : SubSeq(s, Len(s) - n + 1, Len(s))[k] = s[Len(s) - (n - k)]
<1> DEFINE from == Len(s) - n + 1
           out == SubSeq(s, from, Len(s))
<1>1. Len(s) \in Nat /\ from \in 1 .. Len(s) + 1 BY LenProperties
<1>2. \A k \in from .. Len(s) : s[k] \in Nat BY <1>1, ElementOfSeq
<1>3. /\ out \in Seq(Nat) /\ Len(out) = IF from <= Len(s) THEN Len(s) - from + 1 ELSE 0
      /\ \A k \in 1 .. Len(s) - from + 1 : out[k] = s[from + k - 1]
  <2>1. from \in Int /\ Len(s) \in Int BY <1>1
  <2> HIDE DEF from
  <2>2. QED BY <1>2, <2>1, SubSeqProperties
<1>4. Len(s) - from + 1 = n /\ (from > Len(s) => n = 0)
      /\ \A k \in 1 .. n : from + k - 1 = Len(s) - (n - k)
  BY <1>1
<1> HIDE DEF out
<1>5. \A k \in 1 .. n : out[k] = s[Len(s) - (n - k)]
  <2> HIDE DEF from
  <2>1. QED BY <1>3, <1>4
<1>6. Len(out) = n
  <2> HIDE DEF from
  <2>1. QED BY <1>1, <1>3, <1>4
<1>7. QED BY <1>3, <1>5, <1>6 DEF out

LEMMA LogAlways == Spec => []LogInv
<1>1. QED BY LogStart, LogNext, CardsAlways, PTL DEF Spec

\* Through any number of breaks and reconnects the log neither misses an event
\* that the daemon still has nor shows one twice, for rings and buffers of any
\* size, as long as it is the same process.
THEOREM NothingMissed == Spec => []LogComplete
<1>1. LogInv => LogComplete
  <2> SUFFICES ASSUME LogInv, stream.st = "open", stream.pipe = <<>>, stream.same
               PROVE  LogComplete
    BY DEF LogComplete
  <2> DEFINE kept == [k \in 1 .. Len(ring) |-> ring[k].id]
             n == Min({Len(kept), MaxEvents})
             last(s) == SubSeq(s, Len(s) - n + 1, Len(s))
  <2>1. /\ ring \in Seq(Envelope) /\ Len(ring) \in Nat /\ MaxEvents \in Nat
        /\ stream.buf \in Seq(Nat) /\ Len(stream.buf) \in Nat
    BY LenProperties, DashboardAssumption DEF LogInv, LogOK, Stream
  <2>2. \A k \in 1 .. Len(ring) : ring[k].id \in Nat
    <3>1. \A k \in 1 .. Len(ring) : ring[k] \in Envelope BY <2>1, ElementOfSeq
    <3>2. QED BY <3>1 DEF Envelope
  <2>3. kept \in Seq(Nat) /\ Len(kept) = Len(ring)
    <3> DEFINE f(k) == ring[k].id
    <3>1. \A k \in 1 .. Len(ring) : f(k) \in Nat BY <2>2
    <3> HIDE DEF f
    <3>2. [k \in 1 .. Len(ring) |-> f(k)] \in Seq(Nat) BY <2>1, <3>1, IsASeq
    <3>3. kept \in Seq(Nat) BY <3>2 DEF f
    <3>4. Len(kept) = Len(ring) BY <2>1
    <3>5. QED BY <3>3, <3>4
  <2>4. \A k \in 1 .. Len(ring) : kept[k] = ring[k].id OBVIOUS
  <2> HIDE DEF kept
  <2>5. n \in 0 .. Len(kept) /\ n <= MaxEvents
    <3> DEFINE a == Len(kept)
    <3>1. a \in Nat BY <2>1, <2>3
    <3> HIDE DEF a
    <3>2. \E x \in {a, MaxEvents} : \A y \in {a, MaxEvents} : x <= y BY <2>1, <3>1
    <3>3. Min({a, MaxEvents}) \in {a, MaxEvents}
          /\ \A y \in {a, MaxEvents} : Min({a, MaxEvents}) <= y
      BY <3>2 DEF Min
    <3>4. QED BY <2>1, <3>1, <3>3 DEF a
  <2> HIDE DEF n
  <2>6. /\ n <= Len(stream.buf)
        /\ \A j \in 0 .. n - 1 :
             /\ ring[Len(ring) - j].id = nextId - 1 - j
             /\ stream.buf[Len(stream.buf) - j] = nextId - 1 - j
    BY <2>3, <2>5, NewestKept
  <2>7. n \in 0 .. Len(stream.buf) BY <2>1, <2>3, <2>5, <2>6
  <2>8. /\ last(kept) \in Seq(Nat) /\ Len(last(kept)) = n
        /\ \A k \in 1 .. n : last(kept)[k] = kept[Len(kept) - (n - k)]
    BY <2>3, <2>5, EndOf
  <2>9. /\ last(stream.buf) \in Seq(Nat) /\ Len(last(stream.buf)) = n
        /\ \A k \in 1 .. n : last(stream.buf)[k] = stream.buf[Len(stream.buf) - (n - k)]
    BY <2>1, <2>7, EndOf
  <2> HIDE DEF last
  <2>10. \A k \in 1 .. n : last(stream.buf)[k] = last(kept)[k]
    <3> TAKE k \in 1 .. n
    <3>1. n - k \in 0 .. n - 1 BY <2>5
    <3>2. Len(kept) - (n - k) \in 1 .. Len(ring) BY <2>1, <2>3, <2>5
    <3>3. kept[Len(kept) - (n - k)] = ring[Len(ring) - (n - k)].id BY <2>3, <2>4, <3>2
    <3>4. QED BY <2>6, <2>8, <2>9, <3>1, <3>3
  <2>11. last(stream.buf) = last(kept) BY <2>8, <2>9, <2>10, SeqEqual
  <2>12. QED BY <2>6, <2>11 DEF LogComplete, kept, n, last
<1>2. QED BY <1>1, LogAlways, PTL
=============================================================================
