------------------------- MODULE RecordedSchedProofs ------------------------
(***************************************************************************)
(* Two parts.  First what the scheduler state machine of SchedTracker      *)
(* keeps for every set of threads, every filter and every sequence of      *)
(* samples: where a span starts and which reason it gives needs no         *)
(* assumption; that the spans of a thread do not overlap needs the samples *)
(* to arrive in order.  Then what a recording of a kernel adds: the        *)
(* recording is a behaviour of the tracker, its states follow the          *)
(* kernel's, and in a system-wide recording on-cpu spans are exact; for    *)
(* every set of threads, CPUs and filters.                                 *)
(***************************************************************************)
EXTENDS RecordedSched, SequenceTheorems, TLAPS

\* An off-cpu thread remembers its latest switch-out.
OffSince ==
  \A t \in DOMAIN sched :
    ~sched[t].on => /\ lastOut[t].ts = sched[t].last
                    /\ lastOut[t].reason = sched[t].reason

\* A span in calls is the open span of its thread in f, closed at ts.
SpanOf(c, f, ts) ==
  c.op = "X" => /\ c.tid \in DOMAIN f
                /\ c.start = f[c.tid].last /\ c.start < ts /\ c.end = ts
                /\ c.name \in Reasons => /\ ~f[c.tid].on
                                         /\ c.name = f[c.tid].reason

Honest(calls, f, ts) == \A k \in 1 .. Len(calls) : SpanOf(calls[k], f, ts)

\* The threads of the spans in calls are among T.
Of(calls, T) == \A k \in 1 .. Len(calls) : calls[k].op = "X" => calls[k].tid \in T

States(f) == DOMAIN f \subseteq Shown /\ \A t \in DOMAIN f : f[t] \in SchedState

\* A handler that writes nothing is honest.
LEMMA NoCalls ==
  ASSUME NEW f, NEW ts, NEW T
  PROVE  <<>> \in Seq(Call) /\ Honest(<<>>, f, ts) /\ Of(<<>>, T)
BY DEF Honest, Of

\* An instant event is no span.
LEMMA InstantCall ==
  ASSUME NEW f, NEW ts \in Times, NEW T, NEW t \in Tids, NEW name \in {"wakeup", "fork"}
  PROVE  /\ Instant(name, t, ts) \in Seq(Call)
         /\ Honest(Instant(name, t, ts), f, ts)
         /\ Of(Instant(name, t, ts), T)
<1> DEFINE c == [op |-> "i", name |-> name, tid |-> t, start |-> ts, end |-> ts]
<1>1. c \in Call
  BY DEF Call
<1>2. c.op # "X"
  OBVIOUS
<1> HIDE DEF c
<1>3. <<c>> \in Seq(Call) /\ Len(<<c>>) = 1 /\ <<c>>[1] = c
  BY <1>1
<1>4. Instant(name, t, ts) = <<c>>
  BY DEF Instant, c
<1>5. \A k \in 1 .. Len(<<c>>) : <<c>>[k] = c
  BY <1>3
<1> QED
  BY <1>2, <1>3, <1>4, <1>5 DEF Honest, Of, SpanOf

\* The span that a thread in state f[t] has open, closed at ts.
LEMMA SpanCall ==
  ASSUME NEW f, States(f), NEW ts \in Times, NEW t \in DOMAIN f,
         NEW name, name = IF f[t].on THEN "on-cpu" ELSE f[t].reason
  PROVE  /\ Span(name, t, f[t].last, ts) \in Seq(Call)
         /\ Honest(Span(name, t, f[t].last, ts), f, ts)
         /\ Of(Span(name, t, f[t].last, ts), {t})
<1>1. /\ f[t].last \in Times /\ f[t].on \in BOOLEAN /\ f[t].reason \in Reasons
      /\ t \in Tids
  BY SchedAssumption DEF States, SchedState
<1>2. name \in {"on-cpu"} \cup Reasons
  BY <1>1
<1>3. CASE ts > f[t].last
  <2> DEFINE c == [op |-> "X", name |-> name, tid |-> t, start |-> f[t].last, end |-> ts]
  <2>1. c \in Call
    BY <1>1, <1>2 DEF Call
  <2>2. c.tid = t /\ c.start = f[t].last /\ c.end = ts /\ c.name = name
    OBVIOUS
  <2> HIDE DEF c
  <2>3. name \in Reasons => ~f[t].on /\ name = f[t].reason
    BY SchedAssumption
  <2>4. f[t].last < ts
    BY <1>1, <1>3 DEF Times
  <2>5. SpanOf(c, f, ts)
    BY <2>2, <2>3, <2>4 DEF SpanOf
  <2>6. Span(name, t, f[t].last, ts) = <<c>>
    BY <1>3 DEF Span, c
  <2>7. <<c>> \in Seq(Call) /\ Len(<<c>>) = 1 /\ <<c>>[1] = c
    BY <2>1
  <2>8. \A k \in 1 .. Len(<<c>>) : <<c>>[k] = c
    BY <2>7
  <2> QED
    BY <2>2, <2>5, <2>6, <2>7, <2>8 DEF Honest, Of
<1>4. CASE ~(ts > f[t].last)
  <2>1. Span(name, t, f[t].last, ts) = <<>>
    BY <1>4 DEF Span
  <2> QED
    BY <2>1, NoCalls
<1> QED
  BY <1>3, <1>4

\* Closing the off-cpu span of a thread, if it has one that is shown.
LEMMA CloseCalls ==
  ASSUME NEW f, States(f), NEW ts \in Times, NEW t
  PROVE  /\ CloseOn(f, t, ts) \in Seq(Call)
         /\ Honest(CloseOn(f, t, ts), f, ts)
         /\ Of(CloseOn(f, t, ts), {t})
         /\ CloseOff(f, t, ts) \in Seq(Call)
         /\ Honest(CloseOff(f, t, ts), f, ts)
         /\ Of(CloseOff(f, t, ts), {t})
<1>1. /\ CloseOn(f, t, ts) \in Seq(Call)
      /\ Honest(CloseOn(f, t, ts), f, ts)
      /\ Of(CloseOn(f, t, ts), {t})
  <2>1. CASE IsOn(f, t)
    BY <2>1, SpanCall DEF IsOn, CloseOn
  <2>2. CASE ~IsOn(f, t)
    BY <2>2, NoCalls DEF CloseOn
  <2> QED
    BY <2>1, <2>2
<1>2. /\ CloseOff(f, t, ts) \in Seq(Call)
      /\ Honest(CloseOff(f, t, ts), f, ts)
      /\ Of(CloseOff(f, t, ts), {t})
  <2>1. CASE IsOff(f, t)
    BY <2>1, SpanCall DEF IsOff, CloseOff
  <2>2. CASE ~IsOff(f, t)
    BY <2>2, NoCalls DEF CloseOff
  <2> QED
    BY <2>1, <2>2
<1> QED
  BY <1>1, <1>2

\* Honest calls followed by honest calls of other threads.
LEMMA TwoCalls ==
  ASSUME NEW f, NEW ts, NEW S, NEW T,
         NEW a \in Seq(Call), Honest(a, f, ts), Of(a, S),
         NEW b \in Seq(Call), Honest(b, f, ts), Of(b, T)
  PROVE  a \o b \in Seq(Call) /\ Honest(a \o b, f, ts) /\ Of(a \o b, S \cup T)
<1>1. /\ a \o b \in Seq(Call)
      /\ Len(a \o b) = Len(a) + Len(b)
      /\ \A k \in 1 .. Len(a) + Len(b) : (a \o b)[k] =
           IF k <= Len(a) THEN a[k] ELSE b[k - Len(a)]
  BY ConcatProperties
<1>2. Len(a) \in Nat /\ Len(b) \in Nat
  BY LenProperties
<1>3. ASSUME NEW k \in 1 .. Len(a \o b)
      PROVE  \/ \E i \in 1 .. Len(a) : (a \o b)[k] = a[i]
             \/ \E i \in 1 .. Len(b) : (a \o b)[k] = b[i]
  <2>1. CASE k <= Len(a)
    BY <1>1, <1>2, <2>1
  <2>2. CASE k > Len(a)
    <3>1. k - Len(a) \in 1 .. Len(b) /\ (a \o b)[k] = b[k - Len(a)]
      BY <1>1, <1>2, <2>2
    <3> QED
      BY <3>1
  <2> QED
    BY <1>2, <2>1, <2>2
<1> QED
  BY <1>1, <1>3 DEF Honest, Of

\* What the history makes of the spans that a handler writes.
LEMMA HistoryStep ==
  ASSUME NEW f, NEW ts \in Times, NEW T,
         NEW calls \in Seq(Call), Honest(calls, f, ts), Of(calls, T),
         spanEnd \in [Tids -> Times], Write(calls)
  PROVE  /\ out' = calls
         /\ spanEnd' \in [Tids -> Times]
         /\ \A t \in Tids : spanEnd'[t] = spanEnd[t] \/ (spanEnd'[t] = ts /\ t \in T)
<1> DEFINE ends(t) == {calls[k].end : k \in {k \in 1 .. Len(calls) :
                          calls[k].op = "X" /\ calls[k].tid = t}}
<1>1. ASSUME NEW t \in Tids
      PROVE  ends(t) \subseteq {ts} /\ (ends(t) # {} => t \in T)
  BY DEF Honest, SpanOf, Of
<1>2. spanEnd' = [t \in Tids |-> IF ends(t) = {} THEN spanEnd[t]
                                 ELSE CHOOSE e \in ends(t) : \A d \in ends(t) : d <= e]
  BY DEF Write
<1> HIDE DEF ends
<1>3. ASSUME NEW t \in Tids, ends(t) # {}
      PROVE  (CHOOSE e \in ends(t) : \A d \in ends(t) : d <= e) = ts
  <2>1. ends(t) = {ts}
    BY <1>1, <1>3
  <2>2. ts <= ts
    BY DEF Times
  <2>3. ts \in ends(t) /\ \A d \in ends(t) : d <= ts
    BY <2>1, <2>2
  <2>4. \A e \in ends(t) : e = ts
    BY <2>1
  <2> QED
    BY <2>3, <2>4
<1>4. ASSUME NEW t \in Tids
      PROVE  spanEnd'[t] = spanEnd[t] \/ (spanEnd'[t] = ts /\ t \in T)
  BY <1>1, <1>2, <1>3, <1>4
<1>5. spanEnd' = [t \in Tids |-> spanEnd'[t]]
  BY <1>2
<1>6. \A t \in Tids : spanEnd'[t] \in Times
  BY <1>4
<1> QED
  BY <1>4, <1>5, <1>6 DEF Write

-----------------------------------------------------------------------------
Inv == TypeOK /\ OffSince

\* What the handler of a sample taken at ts does, whatever the sample: the spans
\* it writes are open spans closed at ts, and a thread that changes its state,
\* which a thread with such a span does, changes it at ts.
Changes(ts) ==
  /\ States(sched')
  /\ DOMAIN sched \subseteq DOMAIN sched'
  /\ \A t \in DOMAIN sched' :
       sched'[t].last = ts \/ (t \in DOMAIN sched /\ sched'[t] = sched[t])

Spans(ts, T) == out' \in Seq(Call) /\ Honest(out', sched, ts) /\ Of(out', T)

\* What the type invariant says of the maps and the history.
LEMMA TypeFacts ==
  ASSUME TypeOK
  PROVE  /\ States(sched) /\ out \in Seq(Call)
         /\ DOMAIN sched \subseteq Tids /\ spanEnd \in [Tids -> Times]
BY SchedAssumption DEF TypeOK, States

\* sched_state_[t] = v
LEMMA Putting ==
  ASSUME NEW f, States(f), NEW t \in Shown, NEW v \in SchedState
  PROVE  /\ States(Put(f, t, v))
         /\ DOMAIN Put(f, t, v) = DOMAIN f \cup {t}
         /\ Put(f, t, v)[t] = v
         /\ \A u \in DOMAIN f : u # t => Put(f, t, v)[u] = f[u]
BY DEF Put, States

\* The two states that a thread can be put into.
LEMMA NewStates ==
  ASSUME NEW ts \in Times, NEW reason \in Reasons
  PROVE  /\ OnCpuSince(ts) \in SchedState
         /\ OnCpuSince(ts).on /\ OnCpuSince(ts).last = ts
         /\ OffCpuSince(ts, reason) \in SchedState
         /\ ~OffCpuSince(ts, reason).on
         /\ OffCpuSince(ts, reason).last = ts
         /\ OffCpuSince(ts, reason).reason = reason
BY SchedAssumption DEF OnCpuSince, OffCpuSince, SchedState

\* The spans of the two threads of a switch.
LEMMA SwitchSpans ==
  ASSUME TypeOK, NEW ts \in Times, NEW prev \in Tids, NEW next \in Tids,
         NEW reason \in Reasons, SchedSwitch(ts, prev, next, reason)
  PROVE  /\ Spans(ts, {t \in Shown : t \in DOMAIN sched' /\ sched'[t].last = ts})
         /\ Write(out')
<1> DEFINE prevShown == prev \in Shown
           nextShown == next \in Shown \cap Known
           switched  == IF prevShown THEN Put(sched, prev, OffCpuSince(ts, reason))
                                     ELSE sched
           a == IF prevShown THEN CloseOn(sched, prev, ts) ELSE <<>>
           b == IF nextShown THEN CloseOff(switched, next, ts) ELSE <<>>
           T == {t \in Shown : t \in DOMAIN sched' /\ sched'[t].last = ts}
<1>1. /\ Write(a \o b)
      /\ sched' = IF nextShown THEN Put(switched, next, OnCpuSince(ts)) ELSE switched
  BY DEF SchedSwitch
<1>2. out' = a \o b
  BY <1>1 DEF Write
<1>3. States(sched)
  BY TypeFacts
<1>4. /\ OnCpuSince(ts) \in SchedState /\ OnCpuSince(ts).last = ts
      /\ OffCpuSince(ts, reason) \in SchedState
      /\ OffCpuSince(ts, reason).last = ts
  BY NewStates
<1>5. States(switched)
  BY <1>3, <1>4, Putting
<1>6. ASSUME prevShown
      PROVE  /\ DOMAIN switched = DOMAIN sched \cup {prev}
             /\ switched[prev] = OffCpuSince(ts, reason)
             /\ \A u \in DOMAIN sched : u # prev => switched[u] = sched[u]
  BY <1>6 DEF Put
<1>7. ~prevShown => switched = sched
  OBVIOUS
<1> HIDE DEF switched
<1>8. ASSUME nextShown
      PROVE  /\ DOMAIN sched' = DOMAIN switched \cup {next}
             /\ sched'[next] = OnCpuSince(ts)
             /\ \A u \in DOMAIN switched : u # next => sched'[u] = switched[u]
  BY <1>1, <1>8 DEF Put
<1>9. ~nextShown => sched' = switched
  BY <1>1
<1>10. ASSUME prevShown PROVE prev \in T
  <2>1. prev \in Shown /\ prev \in DOMAIN switched /\ switched[prev].last = ts
    BY <1>4, <1>6, <1>10
  <2>2. CASE ~nextShown
    BY <1>9, <2>1, <2>2
  <2>3. CASE nextShown /\ next = prev
    BY <1>4, <1>8, <2>1, <2>3
  <2>4. CASE nextShown /\ next # prev
    BY <1>8, <2>1, <2>4
  <2> QED
    BY <2>2, <2>3, <2>4
<1>11. ASSUME nextShown PROVE next \in T
  BY <1>4, <1>8, <1>11
<1> HIDE DEF T
<1>12. a \in Seq(Call) /\ Honest(a, sched, ts) /\ Of(a, T)
  <2>1. CASE prevShown
    <3>1. a = CloseOn(sched, prev, ts)
      BY <2>1
    <3>2. Of(a, {prev})
      BY <3>1, <1>3, CloseCalls
    <3>3. Of(a, T)
      BY <3>2, <1>10, <2>1 DEF Of
    <3> QED
      BY <3>1, <3>3, <1>3, CloseCalls
  <2>2. CASE ~prevShown
    BY <2>2, NoCalls
  <2> QED
    BY <2>1, <2>2
<1>13. b \in Seq(Call) /\ Honest(b, sched, ts) /\ Of(b, T)
  <2>1. CASE nextShown /\ prevShown /\ prev = next
    <3>1. switched[next] = OffCpuSince(ts, reason)
      BY <1>6, <2>1
    <3>2. b = CloseOff(switched, next, ts)
      BY <2>1
    <3>3. ~(ts > switched[next].last)
      BY <3>1, <1>4 DEF Times
    <3>4. b = <<>>
      BY <3>2, <3>3 DEF CloseOff, Span
    <3> QED
      BY <3>4, NoCalls
  <2>2. CASE nextShown /\ ~(prevShown /\ prev = next)
    <3>1. /\ next \in DOMAIN switched <=> next \in DOMAIN sched
          /\ next \in DOMAIN sched => switched[next] = sched[next]
      BY <1>6, <1>7, <2>2
    <3>2. IsOff(switched, next) <=> IsOff(sched, next)
      BY <3>1 DEF IsOff
    <3>3. b = CloseOff(switched, next, ts)
      BY <2>2
    <3>4. b = CloseOff(sched, next, ts)
      BY <3>1, <3>2, <3>3 DEF CloseOff, IsOff
    <3>5. Of(b, {next})
      BY <3>4, <1>3, CloseCalls
    <3>6. Of(b, T)
      BY <3>5, <1>11, <2>2 DEF Of
    <3> QED
      BY <3>4, <3>6, <1>3, CloseCalls
  <2>3. CASE ~nextShown
    BY <2>3, NoCalls
  <2> QED
    BY <2>1, <2>2, <2>3
<1> HIDE DEF a, b
<1>14. a \o b \in Seq(Call) /\ Honest(a \o b, sched, ts) /\ Of(a \o b, T \cup T)
  BY <1>12, <1>13, TwoCalls
<1> QED
  BY <1>1, <1>2, <1>14 DEF Spans, T

Moved(ts) == {t \in Shown : t \in DOMAIN sched' /\ sched'[t].last = ts}

LastOuts == [Tids -> [ts : Times, reason : Reasons]]

\* What every handler does with a sample taken at ts.
Handled(ts) ==
  /\ ts + Backward >= clock /\ clock' = ts
  /\ phase = "run" /\ UNCHANGED <<toFlush, lastTs, phase>>
  /\ Changes(ts) /\ Spans(ts, Moved(ts)) /\ Write(out')
  /\ OffSince' /\ lastOut' \in LastOuts

\* A sample of another kind, or of a thread that is filtered out.
LEMMA IgnoredHandled ==
  ASSUME Inv, NEW ts \in Times, Ignored(ts)
  PROVE  Handled(ts)
<1>1. sched' = sched /\ lastOut' = lastOut /\ Write(<<>>) /\ out' = <<>>
  BY DEF Ignored, Write
<1>2. Changes(ts)
  BY <1>1, TypeFacts DEF Inv, Changes, States
<1>3. Spans(ts, Moved(ts))
  BY <1>1, NoCalls DEF Spans
<1>4. OffSince' /\ lastOut' \in LastOuts
  BY <1>1 DEF Inv, TypeOK, OffSince, LastOuts
<1> QED
  BY <1>1, <1>2, <1>3, <1>4 DEF Handled, Ignored, Sample

\* sched_switch: both threads change state, each closing its own span.
LEMMA SwitchHandled ==
  ASSUME Inv, NEW ts \in Times, NEW prev \in Tids, NEW next \in Tids,
         NEW reason \in Reasons, SchedSwitch(ts, prev, next, reason)
  PROVE  Handled(ts)
<1> DEFINE prevShown == prev \in Shown
           nextShown == next \in Shown \cap Known
           switched  == IF prevShown THEN Put(sched, prev, OffCpuSince(ts, reason))
                                     ELSE sched
<1>1. /\ sched' = IF nextShown THEN Put(switched, next, OnCpuSince(ts)) ELSE switched
      /\ lastOut' = [lastOut EXCEPT ![prev] = [ts |-> ts, reason |-> reason]]
  BY DEF SchedSwitch
<1>2. States(sched) /\ OffSince /\ lastOut \in LastOuts
  BY TypeFacts DEF Inv, TypeOK, LastOuts
<1>3. /\ OnCpuSince(ts) \in SchedState /\ OnCpuSince(ts).on /\ OnCpuSince(ts).last = ts
      /\ OffCpuSince(ts, reason) \in SchedState /\ ~OffCpuSince(ts, reason).on
      /\ OffCpuSince(ts, reason).last = ts /\ OffCpuSince(ts, reason).reason = reason
  BY NewStates
<1>4. lastOut' \in LastOuts /\ lastOut'[prev].ts = ts /\ lastOut'[prev].reason = reason
  BY <1>1, <1>2 DEF LastOuts
<1>5. \A t \in Tids \ {prev} : lastOut'[t] = lastOut[t]
  BY <1>1, <1>2 DEF LastOuts
<1>6. States(switched)
  BY <1>2, <1>3, Putting
<1>7. ASSUME prevShown
      PROVE  /\ DOMAIN switched = DOMAIN sched \cup {prev}
             /\ switched[prev] = OffCpuSince(ts, reason)
             /\ \A u \in DOMAIN sched : u # prev => switched[u] = sched[u]
  BY <1>7 DEF Put
<1>8. ~prevShown => switched = sched
  OBVIOUS
<1> HIDE DEF switched
<1>9. ASSUME nextShown
      PROVE  /\ DOMAIN sched' = DOMAIN switched \cup {next}
             /\ sched'[next] = OnCpuSince(ts)
             /\ \A u \in DOMAIN switched : u # next => sched'[u] = switched[u]
  BY <1>1, <1>9 DEF Put
<1>10. ~nextShown => sched' = switched
  BY <1>1
<1>11. States(sched')
  BY <1>1, <1>3, <1>6, Putting
<1>12. ASSUME NEW t \in DOMAIN switched
       PROVE  /\ switched[t].last = ts \/ (t \in DOMAIN sched /\ switched[t] = sched[t])
              /\ ~switched[t].on => /\ lastOut'[t].ts = switched[t].last
                                    /\ lastOut'[t].reason = switched[t].reason
  <2>1. t \in Shown /\ t \in Tids
    BY <1>6, SchedAssumption DEF States
  <2>2. CASE prevShown /\ t = prev
    BY <1>3, <1>4, <1>7, <2>2
  <2>3. CASE ~(prevShown /\ t = prev)
    <3>1. t \in DOMAIN sched /\ switched[t] = sched[t] /\ t # prev
      BY <1>7, <1>8, <2>1, <2>3
    <3> QED
      BY <3>1, <1>2, <1>5, <2>1 DEF OffSince
  <2> QED
    BY <2>2, <2>3
<1>13. ASSUME NEW t \in DOMAIN sched'
       PROVE  /\ sched'[t].last = ts \/ (t \in DOMAIN sched /\ sched'[t] = sched[t])
              /\ ~sched'[t].on => /\ lastOut'[t].ts = sched'[t].last
                                  /\ lastOut'[t].reason = sched'[t].reason
  <2>1. CASE nextShown /\ t = next
    BY <1>3, <1>9, <2>1
  <2>2. CASE ~(nextShown /\ t = next)
    <3>1. t \in DOMAIN switched /\ sched'[t] = switched[t]
      BY <1>9, <1>10, <2>2
    <3> QED
      BY <3>1, <1>12
  <2> QED
    BY <2>1, <2>2
<1>14. DOMAIN sched \subseteq DOMAIN sched'
  BY <1>7, <1>8, <1>9, <1>10
<1>15. Changes(ts) /\ OffSince'
  BY <1>11, <1>13, <1>14 DEF Changes, OffSince
<1>16. Spans(ts, Moved(ts)) /\ Write(out')
  BY SwitchSpans DEF Moved, Inv
<1> QED
  BY <1>4, <1>15, <1>16 DEF Handled, SchedSwitch, Sample

\* A handler that may find out that t is running, and closes its off-cpu span
\* if it does.
LEMMA FoundRunning ==
  ASSUME Inv, NEW ts \in Times, NEW t \in Shown, lastOut' = lastOut,
         \/ sched' = Put(sched, t, OnCpuSince(ts))
         \/ sched' = sched
  PROVE  /\ Changes(ts) /\ OffSince' /\ lastOut' \in LastOuts
         /\ sched' = Put(sched, t, OnCpuSince(ts)) => t \in Moved(ts)
<1>1. States(sched) /\ OffSince /\ lastOut \in LastOuts
  BY TypeFacts DEF Inv, TypeOK, LastOuts
<1>2. OnCpuSince(ts) \in SchedState /\ OnCpuSince(ts).on /\ OnCpuSince(ts).last = ts
  BY SchedAssumption, NewStates
<1>3. CASE sched' = Put(sched, t, OnCpuSince(ts))
  <2>1. States(sched')
    BY <1>1, <1>2, <1>3, Putting
  <2>2. /\ DOMAIN sched' = DOMAIN sched \cup {t}
        /\ sched'[t] = OnCpuSince(ts)
        /\ \A u \in DOMAIN sched : u # t => sched'[u] = sched[u]
    BY <1>3 DEF Put
  <2> QED
    BY <1>1, <1>2, <2>1, <2>2 DEF Changes, OffSince, Moved
<1>4. CASE sched' = sched /\ sched' # Put(sched, t, OnCpuSince(ts))
  BY <1>1, <1>4 DEF Changes, OffSince
<1> QED
  BY <1>3, <1>4

\* sched_wakeup: an off-cpu span closes only with a change of state.
LEMMA WakeupHandled ==
  ASSUME Inv, NEW ts \in Times, NEW t \in Tids, SchedWakeup(ts, t)
  PROVE  Handled(ts)
<1> DEFINE a == CloseOff(sched, t, ts)
           b == Instant("wakeup", t, ts)
<1>1. /\ t \in Shown /\ lastOut' = lastOut /\ Write(a \o b)
      /\ sched' = IF IsOff(sched, t) THEN Put(sched, t, OnCpuSince(ts)) ELSE sched
  BY DEF SchedWakeup
<1>2. /\ Changes(ts) /\ OffSince' /\ lastOut' \in LastOuts
      /\ sched' = Put(sched, t, OnCpuSince(ts)) => t \in Moved(ts)
  BY <1>1, FoundRunning
<1>3. States(sched)
  BY TypeFacts DEF Inv
<1>4. a \in Seq(Call) /\ Honest(a, sched, ts) /\ Of(a, Moved(ts))
  <2>1. CASE IsOff(sched, t)
    <3>1. t \in Moved(ts)
      BY <1>1, <1>2, <2>1
    <3>2. Of(a, {t})
      BY <1>3, CloseCalls
    <3>3. Of(a, Moved(ts))
      BY <3>1, <3>2 DEF Of
    <3> QED
      BY <1>3, <3>3, CloseCalls
  <2>2. CASE ~IsOff(sched, t)
    <3>1. a = <<>>
      BY <2>2 DEF CloseOff
    <3> QED
      BY <3>1, NoCalls
  <2> QED
    BY <2>1, <2>2
<1>5. b \in Seq(Call) /\ Honest(b, sched, ts) /\ Of(b, Moved(ts))
  BY InstantCall
<1> HIDE DEF a, b
<1>6. a \o b \in Seq(Call) /\ Honest(a \o b, sched, ts) /\ Of(a \o b, Moved(ts) \cup Moved(ts))
  BY <1>4, <1>5, TwoCalls
<1>7. out' = a \o b
  BY <1>1 DEF Write
<1> QED
  BY <1>1, <1>2, <1>6, <1>7 DEF Handled, Spans, SchedWakeup, Sample

\* sched_process_fork writes an instant and moves nobody.
LEMMA ForkHandled ==
  ASSUME Inv, NEW ts \in Times, NEW t \in Tids, SchedFork(ts, t)
  PROVE  Handled(ts)
<1>1. /\ t \in Shown /\ lastOut' = lastOut /\ sched' = sched
      /\ Write(Instant("fork", t, ts))
  BY DEF SchedFork
<1>2. Changes(ts) /\ OffSince' /\ lastOut' \in LastOuts
  BY <1>1, FoundRunning
<1>3. out' = Instant("fork", t, ts)
  BY <1>1 DEF Write
<1>4. Spans(ts, Moved(ts))
  BY <1>3, InstantCall DEF Spans
<1> QED
  BY <1>1, <1>2, <1>3, <1>4 DEF Handled, SchedFork, Sample

\* A sample of a thread found running closes its off-cpu span.
LEMMA RunningHandled ==
  ASSUME Inv, NEW ts \in Times, NEW t \in Tids, Running(ts, t)
  PROVE  Handled(ts)
<1> DEFINE switchIn == IsOff(sched, t) /\ Gap(ts, sched[t].last) > EchoGap
           a == IF switchIn THEN CloseOff(sched, t, ts) ELSE <<>>
<1>1. /\ t \in Shown /\ lastOut' = lastOut /\ Write(a)
      /\ sched' = IF t \notin DOMAIN sched \/ switchIn
                  THEN Put(sched, t, OnCpuSince(ts)) ELSE sched
  BY DEF Running
<1>2. /\ Changes(ts) /\ OffSince' /\ lastOut' \in LastOuts
      /\ sched' = Put(sched, t, OnCpuSince(ts)) => t \in Moved(ts)
  BY <1>1, FoundRunning
<1>3. States(sched)
  BY TypeFacts DEF Inv
<1>4. a \in Seq(Call) /\ Honest(a, sched, ts) /\ Of(a, Moved(ts))
  <2>1. CASE switchIn
    <3>1. t \in Moved(ts)
      BY <1>1, <1>2, <2>1
    <3>2. a = CloseOff(sched, t, ts)
      BY <2>1
    <3>3. Of(a, {t})
      BY <1>3, <3>2, CloseCalls
    <3>4. Of(a, Moved(ts))
      BY <3>1, <3>3 DEF Of
    <3> QED
      BY <1>3, <3>2, <3>4, CloseCalls
  <2>2. CASE ~switchIn
    BY <2>2, NoCalls
  <2> QED
    BY <2>1, <2>2
<1>5. out' = a
  BY <1>1 DEF Write
<1> HIDE DEF a
<1> QED
  BY <1>1, <1>2, <1>4, <1>5 DEF Handled, Spans, Running, Sample

\* One turn of the loop of flush_sched_state.
LEMMA FlushSpans ==
  ASSUME Inv, NEW t \in Tids, FlushThread(t)
  PROVE  Spans(lastTs, {t}) /\ Write(out') /\ lastTs \in Times /\ t \in DOMAIN sched
<1> DEFINE name == IF sched[t].on THEN "on-cpu" ELSE sched[t].reason
           a == IF t \in Shown THEN Span(name, t, sched[t].last, lastTs) ELSE <<>>
<1>1. /\ States(sched) /\ t \in DOMAIN sched /\ lastTs \in Times
  BY TypeFacts DEF Inv, TypeOK, FlushThread
<1>2. Write(a) /\ out' = a
  BY DEF FlushThread, Write
<1>3. a \in Seq(Call) /\ Honest(a, sched, lastTs) /\ Of(a, {t})
  <2>1. CASE t \in Shown
    BY <1>1, <2>1, SpanCall
  <2>2. CASE t \notin Shown
    BY <2>2, NoCalls
  <2> QED
    BY <2>1, <2>2
<1> HIDE DEF a
<1> QED
  BY <1>1, <1>2, <1>3 DEF Spans

\* Writing nothing leaves the history as it is.
LEMMA SilentStep ==
  ASSUME TypeOK, Write(<<>>)
  PROVE  out' = <<>> /\ spanEnd' = spanEnd
<1>1. 0 \in Times
  BY SchedAssumption DEF Times
<1> DEFINE none == {}
           calls == <<>>
<1>2. calls \in Seq(Call) /\ Honest(calls, sched, 0) /\ Of(calls, none) /\ Write(calls)
  BY NoCalls
<1>3. spanEnd \in [Tids -> Times]
  BY TypeFacts
<1> HIDE DEF none, calls
<1>4. /\ out' = calls /\ spanEnd' \in [Tids -> Times]
      /\ \A t \in Tids : spanEnd'[t] = spanEnd[t] \/ (spanEnd'[t] = 0 /\ t \in none)
  BY <1>1, <1>2, <1>3, HistoryStep
<1>5. spanEnd' = spanEnd
  BY <1>3, <1>4 DEF none
<1> QED
  BY <1>4, <1>5 DEF calls

\* A step of Next is a handled sample or a step of the flush.
LEMMA Steps ==
  ASSUME Inv, Next
  PROVE  \/ \E ts \in Times : Handled(ts)
         \/ BeginFlush
         \/ \E t \in Tids : FlushThread(t)
         \/ EndFlush
<1>1. ASSUME NEW ts \in Times,
             \/ Ignored(ts)
             \/ \E prev, next \in Tids, reason \in Reasons :
                  SchedSwitch(ts, prev, next, reason)
             \/ \E t \in Tids : SchedWakeup(ts, t) \/ SchedFork(ts, t) \/ Running(ts, t)
      PROVE  Handled(ts)
  BY <1>1, IgnoredHandled, SwitchHandled, WakeupHandled, ForkHandled, RunningHandled
<1> QED
  BY <1>1 DEF Next

\* No thread is tracked at first.
LEMMA InvInit == Init => Inv
<1> SUFFICES ASSUME Init PROVE Inv
  OBVIOUS
<1>1. 0 \in Times /\ Preempted \in Reasons
  BY SchedAssumption DEF Times
<1>2. DOMAIN sched = {}
  BY DEF Init
<1>3. out \in Seq(Call)
  BY DEF Init
<1> QED
  BY <1>1, <1>2, <1>3 DEF Init, Inv, TypeOK, OffSince

\* One case per disjunct of Next; Handled covers every sample at once.
LEMMA InvStep == Inv /\ [Next]_vars => Inv'
<1> SUFFICES ASSUME Inv, [Next]_vars PROVE Inv'
  OBVIOUS
<1>1. States(sched) /\ TypeOK /\ OffSince /\ spanEnd \in [Tids -> Times]
  BY TypeFacts DEF Inv
<1>2. ASSUME NEW ts \in Times, Handled(ts) PROVE Inv'
  <2>1. out' \in Seq(Call) /\ spanEnd' \in [Tids -> Times]
    BY <1>1, <1>2, HistoryStep DEF Handled, Spans
  <2>2. States(sched') /\ DOMAIN sched \subseteq DOMAIN sched' /\ OffSince'
    BY <1>2 DEF Handled, Changes
  <2>3. /\ clock' \in Times /\ toFlush' = toFlush /\ lastTs' = lastTs /\ phase' = phase
        /\ lastOut' \in [Tids -> [ts : Times, reason : Reasons]]
    BY <1>2 DEF Handled, LastOuts
  <2> QED
    BY <1>1, <2>1, <2>2, <2>3 DEF Inv, TypeOK, States
<1>3. CASE BeginFlush
  <2>1. out' = <<>> /\ spanEnd' = spanEnd
    BY <1>1, <1>3, SilentStep DEF BeginFlush
  <2>2. lastTs' \in Times
    BY <1>1, <1>3 DEF BeginFlush, TypeOK
  <2>3. out' \in Seq(Call)
    BY <2>1
  <2>4. phase' = "flush" /\ toFlush' \subseteq DOMAIN sched
    BY <1>3 DEF BeginFlush
  <2>5. sched' = sched /\ clock' = clock /\ lastOut' = lastOut
    BY <1>3 DEF BeginFlush
  <2> QED
    BY <1>1, <2>1, <2>2, <2>3, <2>4, <2>5 DEF Inv, TypeOK, OffSince
<1>4. ASSUME NEW t \in Tids, FlushThread(t) PROVE Inv'
  <2>1. Spans(lastTs, {t}) /\ Write(out') /\ lastTs \in Times
    BY <1>4, FlushSpans
  <2>2. out' \in Seq(Call) /\ spanEnd' \in [Tids -> Times]
    BY <1>1, <2>1, HistoryStep DEF Spans
  <2>3. /\ toFlush' \subseteq toFlush /\ sched' = sched /\ clock' = clock
        /\ lastTs' = lastTs /\ phase' = phase /\ lastOut' = lastOut
    BY <1>4 DEF FlushThread
  <2> QED
    BY <1>1, <2>2, <2>3 DEF Inv, TypeOK, OffSince
<1>5. CASE EndFlush
  <2>1. out' = <<>> /\ spanEnd' = spanEnd
    BY <1>1, <1>5, SilentStep DEF EndFlush
  <2>2. out' \in Seq(Call)
    BY <2>1
  <2> QED
    BY <1>1, <1>5, <2>1, <2>2 DEF EndFlush, Inv, TypeOK, OffSince
<1>6. CASE UNCHANGED vars
  BY <1>1, <1>6 DEF vars, history, Inv, TypeOK, OffSince
<1> QED
  BY <1>2, <1>3, <1>4, <1>5, <1>6, Steps

\* An off-cpu thread remembers its latest switch-out, in every state.
THEOREM InvCorrect == Spec => []Inv
BY InvInit, InvStep, PTL DEF Spec

\* The tracker's maps and the calls it makes have their types.
THEOREM TypeCorrect == Spec => []TypeOK
<1>1. Inv => TypeOK
  BY DEF Inv
<1> QED
  BY <1>1, InvCorrect, PTL

\* The open span of a thread that a call closes is the one that the tracker
\* has had since the thread's latest switch-out, and gives its reason.
LEMMA HonestReason ==
  ASSUME Inv, NEW ts, NEW T, Spans(ts, T), NEW k \in 1 .. Len(out'),
         out'[k].op = "X", out'[k].name \in Reasons
  PROVE  /\ out'[k].start = lastOut[out'[k].tid].ts
         /\ out'[k].name = lastOut[out'[k].tid].reason
BY DEF Spans, Honest, SpanOf, Inv, OffSince

\* merge_engine.cpp:448-463 and 705-779: whichever kind of sample closes an
\* off-cpu span, it starts at the thread's latest switch-out and gives the
\* reason sampled there; for all threads, filters and orders of samples.
THEOREM ReasonsAreSwitchOuts == Spec => OffCpuFromSwitchOut
<1> DEFINE A == \A k \in 1 .. Len(out') :
                  out'[k].op = "X" /\ out'[k].name \in Reasons =>
                    /\ out'[k].start = lastOut[out'[k].tid].ts
                    /\ out'[k].name = lastOut[out'[k].tid].reason
<1>1. Inv /\ [Next]_vars => [A]_vars
  <2> SUFFICES ASSUME Inv, Next PROVE A
    OBVIOUS
  <2>1. ASSUME NEW ts \in Times, Handled(ts) PROVE A
    BY <2>1, HonestReason DEF Handled
  <2>2. ASSUME NEW t \in Tids, FlushThread(t) PROVE A
    BY <2>2, FlushSpans, HonestReason
  <2>3. ASSUME BeginFlush \/ EndFlush PROVE A
    <3>1. out' = <<>>
      BY <2>3 DEF BeginFlush, EndFlush, Write
    <3> QED
      BY <3>1
  <2> QED
    BY <2>1, <2>2, <2>3, Steps
<1>2. Spec => [][A]_vars
  BY <1>1, InvCorrect, PTL DEF Spec
<1> QED
  BY <1>2 DEF OffCpuFromSwitchOut

-----------------------------------------------------------------------------
(* With samples in order, the spans of a thread are disjoint.               *)

\* No span reaches beyond the sample that is being handled.
EndsPast == phase = "run" => \A t \in Tids : spanEnd[t] <= clock

OrderInv == Backward = 0 /\ Inv /\ OpenSpanIsLast /\ EndsPast

\* No span is written at first.
LEMMA OrderInit ==
  ASSUME Backward = 0
  PROVE  Init => OrderInv
<1> SUFFICES ASSUME Init PROVE OrderInv
  OBVIOUS
<1>1. Inv
  BY InvInit
<1>2. DOMAIN sched = {} /\ clock = 0 /\ \A t \in Tids : spanEnd[t] = 0
  BY DEF Init
<1> QED
  BY <1>1, <1>2 DEF OrderInv, OpenSpanIsLast, EndsPast

\* A sample that is not older than its predecessor.
LEMMA OrderSample ==
  ASSUME OrderInv, Inv', NEW ts \in Times, Handled(ts)
  PROVE  OpenSpanIsLast' /\ EndsPast'
<1>1. /\ clock' = ts /\ phase' = phase /\ phase = "run" /\ toFlush' = toFlush
      /\ spanEnd \in [Tids -> Times] /\ clock \in Times
  BY DEF OrderInv, Inv, TypeOK, Handled
<1>2. ts >= clock
  BY <1>1 DEF Handled, Times, OrderInv
<1>3. \A t \in Tids : spanEnd'[t] = spanEnd[t] \/ (spanEnd'[t] = ts /\ t \in Moved(ts))
  BY <1>1, HistoryStep DEF Handled, Spans
<1>4. \A t \in Tids : spanEnd[t] \in Times /\ spanEnd[t] <= clock
  BY <1>1 DEF OrderInv, EndsPast
<1>5. \A t \in Tids : spanEnd'[t] <= ts
  BY <1>1, <1>2, <1>3, <1>4 DEF Times
<1>6. ASSUME NEW t \in DOMAIN sched'
      PROVE  spanEnd'[t] <= sched'[t].last /\ sched'[t].last <= ts
  <2>1. t \in Tids
    BY SchedAssumption DEF Inv, TypeOK
  <2>2. CASE sched'[t].last = ts
    BY <1>5, <2>1, <2>2 DEF Times
  <2>3. CASE sched'[t].last # ts
    <3>1. t \in DOMAIN sched /\ sched'[t] = sched[t]
      BY <2>3 DEF Handled, Changes
    <3>2. spanEnd'[t] = spanEnd[t]
      BY <1>3, <2>1, <2>3 DEF Moved
    <3>3. spanEnd[t] <= sched[t].last /\ sched[t].last <= clock
      BY <1>1, <3>1 DEF OrderInv, OpenSpanIsLast
    <3>4. sched[t].last \in Times
      BY <3>1 DEF OrderInv, Inv, TypeOK, SchedState
    <3> QED
      BY <1>1, <1>2, <3>1, <3>2, <3>3, <3>4 DEF Times
  <2> QED
    BY <2>2, <2>3
<1> QED
  BY <1>1, <1>5, <1>6 DEF OpenSpanIsLast, EndsPast

\* Every step keeps the spans of a thread behind its open span.
LEMMA OrderStep == OrderInv /\ [Next]_vars => OrderInv'
<1> SUFFICES ASSUME OrderInv, [Next]_vars PROVE OrderInv'
  OBVIOUS
<1>1. Inv /\ TypeOK /\ Inv' /\ OpenSpanIsLast /\ EndsPast
  BY InvStep DEF OrderInv, Inv
<1>2. ASSUME NEW ts \in Times, Handled(ts) PROVE OrderInv'
  BY <1>1, <1>2, OrderSample DEF OrderInv
<1>3. CASE BeginFlush
  <2>1. spanEnd' = spanEnd
    BY <1>1, <1>3, SilentStep DEF BeginFlush
  <2> QED
    BY <1>1, <1>3, <2>1 DEF BeginFlush, OrderInv, OpenSpanIsLast, EndsPast
<1>4. ASSUME NEW t \in Tids, FlushThread(t) PROVE OrderInv'
  <2>1. \A u \in Tids : spanEnd'[u] = spanEnd[u] \/ u = t
    <3> DEFINE T == {t}
               calls == out'
    <3>1. Spans(lastTs, T) /\ Write(calls) /\ lastTs \in Times
      BY <1>1, <1>4, FlushSpans
    <3>2. calls \in Seq(Call) /\ Honest(calls, sched, lastTs) /\ Of(calls, T)
      BY <3>1 DEF Spans
    <3>3. spanEnd \in [Tids -> Times]
      BY <1>1, TypeFacts
    <3> HIDE DEF T, calls
    <3>4. \A u \in Tids : spanEnd'[u] = spanEnd[u] \/ (spanEnd'[u] = lastTs /\ u \in T)
      BY <3>1, <3>2, <3>3, HistoryStep
    <3> QED
      BY <3>4 DEF T
  <2>2. /\ phase = "flush" /\ phase' = phase /\ toFlush' = toFlush \ {t}
        /\ sched' = sched /\ clock' = clock
    BY <1>4 DEF FlushThread
  <2>3. DOMAIN sched \subseteq Tids
    BY <1>1, TypeFacts
  <2> QED
    BY <1>1, <2>1, <2>2, <2>3 DEF OrderInv, OpenSpanIsLast, EndsPast
<1>5. CASE EndFlush
  <2>1. spanEnd' = spanEnd
    BY <1>1, <1>5, SilentStep DEF EndFlush
  <2> QED
    BY <1>1, <1>5, <2>1 DEF EndFlush, OrderInv, OpenSpanIsLast, EndsPast
<1>6. CASE UNCHANGED vars
  BY <1>1, <1>6 DEF vars, history, OrderInv, OpenSpanIsLast, EndsPast
<1> QED
  BY <1>1, <1>2, <1>3, <1>4, <1>5, <1>6, Steps

\* The open span of a thread begins where its last written span ended or later,
\* and not after the last sample, if no sample is older than its predecessor.
THEOREM OpenSpanFollows ==
  ASSUME Backward = 0
  PROVE  Spec => []OpenSpanIsLast
<1>1. Init => OrderInv
  BY OrderInit
<1>2. OrderInv => OpenSpanIsLast
  BY DEF OrderInv
<1> QED
  BY <1>1, <1>2, OrderStep, PTL DEF Spec

\* The on-cpu and off-cpu spans of a thread's track never overlap
\* (merge_engine.cpp:361-531, 679-817), if no sample is older than its
\* predecessor.
THEOREM SpansDisjoint ==
  ASSUME Backward = 0
  PROVE  Spec => NoOverlap
<1> DEFINE A == \A k \in 1 .. Len(out') :
                  out'[k].op = "X" => out'[k].start >= spanEnd[out'[k].tid]
<1>1. ASSUME NEW ts, NEW T, Spans(ts, T), OrderInv,
             \A t \in T : t \in toFlush \/ phase = "run"
      PROVE  A
  <2> SUFFICES ASSUME NEW k \in 1 .. Len(out'), out'[k].op = "X"
               PROVE  out'[k].start >= spanEnd[out'[k].tid]
    OBVIOUS
  <2> DEFINE t == out'[k].tid
  <2>1. t \in T /\ t \in DOMAIN sched /\ out'[k].start = sched[t].last
    BY <1>1 DEF Spans, Honest, SpanOf, Of
  <2>2. spanEnd[t] <= sched[t].last
    BY <1>1, <2>1 DEF OrderInv, OpenSpanIsLast
  <2>3. spanEnd[t] \in Times /\ sched[t].last \in Times
    BY <1>1, <2>1, TypeFacts DEF OrderInv, Inv, States, SchedState
  <2> QED
    BY <2>1, <2>2, <2>3 DEF Times
<1>2. OrderInv /\ [Next]_vars => [A]_vars
  <2> SUFFICES ASSUME OrderInv, Next PROVE A
    OBVIOUS
  <2>1. ASSUME NEW ts \in Times, Handled(ts) PROVE A
    <3>1. Spans(ts, Moved(ts)) /\ phase = "run"
      BY <2>1 DEF Handled
    <3> QED
      BY <1>1, <3>1
  <2>2. ASSUME NEW t \in Tids, FlushThread(t) PROVE A
    <3>1. Spans(lastTs, {t}) /\ t \in toFlush
      BY <2>2, FlushSpans DEF OrderInv, FlushThread
    <3>2. \A u \in {t} : u \in toFlush \/ phase = "run"
      BY <3>1
    <3> QED
      BY <1>1, <3>1, <3>2
  <2>3. ASSUME BeginFlush \/ EndFlush PROVE A
    <3>1. out' = <<>>
      BY <2>3 DEF BeginFlush, EndFlush, Write
    <3> QED
      BY <3>1
  <2> QED
    BY <2>1, <2>2, <2>3, Steps DEF OrderInv
<1>3. Init => OrderInv
  BY OrderInit
<1>4. Spec => [][A]_vars
  BY <1>2, <1>3, OrderStep, PTL DEF Spec
<1> QED
  BY <1>4 DEF NoOverlap
-----------------------------------------------------------------------------
(* The flush, if it starts from the last sample's timestamp.                *)

\* Every thread that the flush has visited is accounted for up to the end.
FlushedToEnd ==
  /\ phase # "run" => /\ lastTs = clock
                      /\ \A t \in DOMAIN sched \ toFlush :
                           spanEnd[t] = clock \/ sched[t].last = clock
  /\ phase = "done" => toFlush = {}

FlushInv == LastIsKnown /\ OrderInv /\ FlushedToEnd

\* The one span that the flush writes for a thread ends at lastTs.
LEMMA FlushedThread ==
  ASSUME Inv, NEW t \in Tids, FlushThread(t), sched[t].last < lastTs
  PROVE  spanEnd'[t] = lastTs
<1>1. t \in DOMAIN sched /\ t \in Shown /\ sched[t].last \in Times /\ lastTs \in Times
  BY DEF Inv, TypeOK, FlushThread, SchedState
<1> DEFINE name == IF sched[t].on THEN "on-cpu" ELSE sched[t].reason
           c == [op |-> "X", name |-> name, tid |-> t,
                 start |-> sched[t].last, end |-> lastTs]
<1>2. Span(name, t, sched[t].last, lastTs) = <<c>>
  BY <1>1 DEF Span, Times
<1>3. Write(<<c>>)
  BY <1>1, <1>2 DEF FlushThread
<1>4. c.op = "X" /\ c.tid = t /\ c.end = lastTs
  OBVIOUS
<1> HIDE DEF c
<1>5. Len(<<c>>) = 1 /\ <<c>>[1] = c
  OBVIOUS
<1> DEFINE ends == {<<c>>[k].end : k \in {k \in 1 .. Len(<<c>>) :
                       <<c>>[k].op = "X" /\ <<c>>[k].tid = t}}
<1>6. spanEnd'[t] = IF ends = {} THEN spanEnd[t]
                    ELSE CHOOSE e \in ends : \A d \in ends : d <= e
  BY <1>3 DEF Write
<1>7. ends = {lastTs}
  BY <1>4, <1>5
<1> HIDE DEF ends
<1>8. lastTs <= lastTs
  BY <1>1 DEF Times
<1> QED
  BY <1>6, <1>7, <1>8

\* Nothing is flushed at first.
LEMMA FlushInit ==
  ASSUME Backward = 0, LastIsKnown
  PROVE  Init => FlushInv
BY OrderInit DEF Init, FlushInv, FlushedToEnd

\* Samples come before the flush; the flush visits one thread after the other.
LEMMA FlushStep == FlushInv /\ [Next]_vars => FlushInv'
<1> SUFFICES ASSUME FlushInv, [Next]_vars PROVE FlushedToEnd'
  BY OrderStep DEF FlushInv
<1>1. Inv /\ TypeOK /\ OpenSpanIsLast /\ FlushedToEnd /\ LastIsKnown
  BY DEF FlushInv, OrderInv, Inv
<1>2. ASSUME NEW ts \in Times, Handled(ts) PROVE FlushedToEnd'
  BY <1>2 DEF Handled, FlushedToEnd
<1>3. CASE BeginFlush
  <2>1. /\ lastTs' = clock /\ clock' = clock /\ sched' = sched /\ phase' = "flush"
        /\ toFlush' = IF clock = 0 THEN {} ELSE DOMAIN sched
    BY <1>1, <1>3 DEF BeginFlush
  <2>2. ASSUME NEW t \in DOMAIN sched, clock = 0 PROVE sched[t].last = clock
    <3>1. sched[t].last \in Times /\ sched[t].last <= clock
      BY <1>1 DEF OpenSpanIsLast, TypeOK, SchedState
    <3> QED
      BY <2>2, <3>1 DEF Times
  <2> QED
    BY <2>1, <2>2 DEF FlushedToEnd
<1>4. ASSUME NEW t \in Tids, FlushThread(t) PROVE FlushedToEnd'
  <2>1. /\ phase = "flush" /\ phase' = phase /\ toFlush' = toFlush \ {t}
        /\ sched' = sched /\ clock' = clock /\ lastTs' = lastTs /\ lastTs = clock
    BY <1>1, <1>4 DEF FlushThread, FlushedToEnd
  <2>2. Spans(lastTs, {t}) /\ Write(out') /\ lastTs \in Times /\ t \in DOMAIN sched
    BY <1>1, <1>4, FlushSpans
  <2>3. \A u \in Tids : u # t => spanEnd'[u] = spanEnd[u]
    <3> DEFINE T == {t}
               calls == out'
    <3>1. calls \in Seq(Call) /\ Honest(calls, sched, lastTs) /\ Of(calls, T)
          /\ Write(calls)
      BY <2>2 DEF Spans
    <3>2. spanEnd \in [Tids -> Times]
      BY <1>1, TypeFacts
    <3> HIDE DEF T, calls
    <3>3. \A u \in Tids : spanEnd'[u] = spanEnd[u] \/ (spanEnd'[u] = lastTs /\ u \in T)
      BY <2>2, <3>1, <3>2, HistoryStep
    <3> QED
      BY <3>3 DEF T
  <2>4. spanEnd'[t] = clock \/ sched[t].last = clock
    <3>1. sched[t].last \in Times /\ sched[t].last <= clock
      BY <1>1, <2>2 DEF OpenSpanIsLast, TypeOK, SchedState
    <3>2. CASE sched[t].last < lastTs
      BY <1>1, <1>4, <2>1, <3>2, FlushedThread
    <3>3. CASE ~(sched[t].last < lastTs)
      BY <2>1, <2>2, <3>1, <3>3 DEF Times
    <3> QED
      BY <3>2, <3>3
  <2>5. DOMAIN sched \subseteq Tids
    BY <1>1, TypeFacts
  <2> QED
    BY <1>1, <2>1, <2>3, <2>4, <2>5 DEF FlushedToEnd
<1>5. CASE EndFlush
  <2>1. spanEnd' = spanEnd
    BY <1>1, <1>5, SilentStep DEF EndFlush
  <2> QED
    BY <1>1, <1>5, <2>1 DEF EndFlush, FlushedToEnd
<1>6. CASE UNCHANGED vars
  BY <1>1, <1>6 DEF vars, history, FlushedToEnd
<1> QED
  BY <1>1, <1>2, <1>3, <1>4, <1>5, <1>6, Steps

\* flush_sched_state (merge_engine.cpp:790-817) leaves no thread it knows of short
\* of the last sample, whatever the order of the map, if samples are sorted and
\* last_perf_ts_ns_ is the last sample's.
THEOREM FlushIsComplete ==
  ASSUME Backward = 0, LastIsKnown
  PROVE  Spec => []FlushReachesEnd
<1>1. Init => FlushInv
  BY FlushInit
<1>2. FlushInv => FlushReachesEnd
  BY DEF FlushInv, FlushedToEnd, FlushReachesEnd
<1> QED
  BY <1>1, <1>2, FlushStep, PTL DEF Spec

-----------------------------------------------------------------------------
(* A recording of a kernel. *)

Found(t) == [type |-> "running", tid |-> t]
Woken(t) == [type |-> "wakeup", tid |-> t]
Switched(prev, next, reason) ==
  [type |-> "switch", prev |-> prev, next |-> next, reason |-> reason]

\* The sample of a switch has not been delivered yet.
Due(samples, prev, next, reason) ==
  \/ samples = <<Switched(prev, next, reason)>>
  \/ next \in Threads /\ samples = <<Found(next), Switched(prev, next, reason)>>

Leaving(t) == \E next \in Tids, reason \in Reasons : Due(pending, t, next, reason)
Entering(t) == \E prev \in Tids, reason \in Reasons : Due(pending, prev, t, reason)

-----------------------------------------------------------------------------
(* The kernel and its samples. *)

KernelTypeOK ==
  /\ time \in Times
  /\ runs \in [Cpus -> Tids]
  /\ state \in [Threads -> {"run", "ready", "sleep"}]
  /\ inAt \in [Threads -> Times]
  /\ outAt \in [Threads -> Times]

\* A CPU runs a thread that is running, and no thread has two CPUs.
RunsOK ==
  /\ \A c \in Cpus : runs[c] \in Threads => state[runs[c]] = "run"
  /\ \A c, d \in Cpus : c # d /\ runs[c] \in Threads => runs[c] # runs[d]

\* Evidence is of a thread that runs, or an echo.
Evident(t) ==
  \/ state[t] = "run"
  \/ 0 < outAt[t] /\ outAt[t] < time /\ time <= outAt[t] + EchoGap

\* A switch that is due has just happened.
JustSwitched(prev, next) ==
  /\ prev # next
  /\ prev \in Threads => state[prev] # "run" /\ outAt[prev] = time
  /\ next \in Threads => state[next] = "run" /\ inAt[next] = time

PendingOK ==
  \/ pending = <<>>
  \/ \E t \in Threads : pending = <<Found(t)>> /\ Evident(t)
  \/ \E t \in Threads : pending = <<Woken(t)>> /\ state[t] = "ready"
  \/ \E prev, next \in Tids, reason \in Reasons :
       Due(pending, prev, next, reason) /\ JustSwitched(prev, next)

KernelInv ==
  mode # "any" => KernelTypeOK /\ RunsOK /\ PendingOK

-----------------------------------------------------------------------------
(* The tracker and the kernel. *)

\* A recorded thread that sleeps has not been seen yet, or its switch-out is
\* due, or it is off-cpu since that switch-out.
AsleepOK(t) ==
  Recorded(t) /\ t \in Shown /\ state[t] = "sleep" =>
    \/ t \notin DOMAIN sched /\ outAt[t] = 0
    \/ Leaving(t)
    \/ IsOff(sched, t) /\ sched[t].last = outAt[t]

\* In a system-wide recording a known thread that is shown and runs has not been
\* seen yet, or is on-cpu, since its switch-in if that was recorded; up to and not
\* including its switch-out.
AwakeOK(t) ==
  mode = "system" /\ t \in Shown \cap Known /\
  (Leaving(t) \/ (state[t] = "run" /\ ~Entering(t))) =>
    \/ t \notin DOMAIN sched /\ inAt[t] = 0
    \/ IsOn(sched, t) /\ (inAt[t] > 0 => sched[t].last = inAt[t])

TrackerInv == mode # "any" => \A t \in Threads : AsleepOK(t) /\ AwakeOK(t)

RecordingInv == Inv /\ (mode = "any" => pending = <<>>) /\ KernelInv /\ TrackerInv

-----------------------------------------------------------------------------
(* Sequences of samples. *)

\* The concatenation of two samples.
LEMMA TwoSamples ==
  ASSUME NEW a, NEW b
  PROVE  <<a>> \o <<b>> = <<a, b>>
<1> DEFINE S == {a, b}
           x == <<a>>
           y == <<b>>
           z == <<a, b>>
<1>1. x \in Seq(S) /\ y \in Seq(S) /\ z \in Seq(S)
  OBVIOUS
<1>2. /\ Len(x) = 1 /\ Len(y) = 1 /\ Len(z) = 2
      /\ x[1] = a /\ y[1] = b /\ z[1] = a /\ z[2] = b
  OBVIOUS
<1> HIDE DEF x, y, z, S
<1>3. x \o y \in Seq(S) /\ Len(x \o y) = 2 /\ (x \o y)[1] = a /\ (x \o y)[2] = b
  BY <1>1, <1>2, ConcatProperties
<1>4. \A k \in 1 .. 2 : k = 1 \/ k = 2
  OBVIOUS
<1>5. x \o y = z
  BY <1>1, <1>2, <1>3, <1>4, SeqEqual
<1> QED
  BY <1>5 DEF x, y, z

\* Evidence or a wakeup alone is no switch.
LEMMA NoSwitchDue ==
  ASSUME NEW t, NEW samples, samples \in {<<>>, <<Found(t)>>, <<Woken(t)>>}
  PROVE  \A prev, next, reason : ~Due(samples, prev, next, reason)
<1> SUFFICES ASSUME NEW prev, NEW next, NEW reason, Due(samples, prev, next, reason)
             PROVE  FALSE
  OBVIOUS
<1>1. /\ Found(t).type # "switch" /\ Woken(t).type # "switch"
      /\ Switched(prev, next, reason).type = "switch"
  BY DEF Found, Woken, Switched
<1> HIDE DEF Found, Woken, Switched
<1> QED
  BY <1>1 DEF Due

\* Only one switch is due at a time.
LEMMA OneSwitchDue ==
  ASSUME NEW samples, NEW p, NEW n, NEW r, Due(samples, p, n, r),
         NEW prev, NEW next, NEW reason, Due(samples, prev, next, reason)
  PROVE  p = prev /\ n = next /\ r = reason
<1>1. Switched(p, n, r) = Switched(prev, next, reason) => p = prev /\ n = next /\ r = reason
  BY DEF Switched
<1> HIDE DEF Switched, Found
<1> QED
  BY <1>1 DEF Due

-----------------------------------------------------------------------------
(* What the tracker's handlers leave alone. *)

\* The tracker's view of thread u stays as it is.
Same(u) ==
  /\ u \in DOMAIN sched' <=> u \in DOMAIN sched
  /\ u \in DOMAIN sched => sched'[u] = sched[u]

\* A sample about t changes the state of t only.
LEMMA OthersSame ==
  ASSUME NEW ts, NEW t, Running(ts, t) \/ SchedWakeup(ts, t) \/ Ignored(ts),
         NEW u, u # t
  PROVE  Same(u)
BY DEF Running, SchedWakeup, Ignored, Put, Same

\* A switch changes its two threads only.
LEMMA SwitchSame ==
  ASSUME NEW ts, NEW prev, NEW next, NEW reason, SchedSwitch(ts, prev, next, reason),
         NEW u, u # prev, u # next
  PROVE  Same(u)
BY DEF SchedSwitch, Put, Same

\* What a switch makes of its two threads.
LEMMA SwitchStates ==
  ASSUME NEW ts, NEW prev, NEW next, NEW reason, SchedSwitch(ts, prev, next, reason),
         prev # next
  PROVE  /\ prev \in Shown => IsOff(sched, prev)' /\ sched'[prev].last = ts
         /\ next \in Shown \cap Known => IsOn(sched, next)' /\ sched'[next].last = ts
BY DEF SchedSwitch, Put, OnCpuSince, OffCpuSince, IsOn, IsOff

-----------------------------------------------------------------------------
(* Steps of the kernel. *)

KernelOK == KernelTypeOK /\ RunsOK /\ PendingOK
ThreadsOK == \A t \in Threads : AsleepOK(t) /\ AwakeOK(t)

\* A sample of a single thread is taken, and perhaps the thread is woken.
LEMMA BetweenStep ==
  ASSUME ThreadsOK, pending = <<>>, NEW t,
         UNCHANGED <<sched, mode, inAt, outAt>>,
         pending' \in {<<>>, <<Found(t)>>, <<Woken(t)>>},
         \A u \in Threads : /\ state'[u] = "sleep" => state[u] = "sleep"
                            /\ state'[u] = "run" => state[u] = "run"
  PROVE  ThreadsOK'
<1>1. /\ \A p, n, r : ~Due(pending, p, n, r)
      /\ \A p, n, r : ~Due(pending', p, n, r)
  BY NoSwitchDue
<1> SUFFICES ASSUME NEW u \in Threads PROVE AsleepOK(u)' /\ AwakeOK(u)'
  BY DEF ThreadsOK
<1>2. AsleepOK(u) /\ AwakeOK(u)
  BY DEF ThreadsOK
<1>3. ~Leaving(u) /\ ~Leaving(u)' /\ ~Entering(u)
  BY <1>1 DEF Leaving, Entering
<1>4. AsleepOK(u)'
  BY <1>2, <1>3 DEF AsleepOK, Recorded, IsOff
<1>5. AwakeOK(u)'
  BY <1>2, <1>3 DEF AwakeOK, IsOn
<1> QED
  BY <1>4, <1>5

\* A tick of a running thread.
LEMMA TickStep ==
  ASSUME KernelOK, ThreadsOK, NEW ts \in Times, NEW t \in Threads, Tick(ts, t)
  PROVE  KernelOK' /\ ThreadsOK'
<1>1. /\ state[t] = "run" /\ pending = <<>> /\ pending' = <<Found(t)>>
      /\ time' = ts /\ UNCHANGED <<vars, mode, runs, state, inAt, outAt>>
  BY DEF Tick, Between, Happens, Evidence, Found
<1>2. Evident(t)'
  BY <1>1 DEF Evident
<1>3. PendingOK'
  BY <1>1, <1>2 DEF PendingOK
<1>4. ThreadsOK'
  BY <1>1, BetweenStep DEF vars
<1> QED
  BY <1>1, <1>3, <1>4 DEF KernelOK, KernelTypeOK, RunsOK

\* An echo of a switch-out.
LEMMA EchoStep ==
  ASSUME KernelOK, ThreadsOK, NEW ts \in Times, NEW t \in Threads, Echo(ts, t)
  PROVE  KernelOK' /\ ThreadsOK'
<1>1. /\ pending = <<>> /\ pending' = <<Found(t)>>
      /\ time' = ts /\ UNCHANGED <<vars, mode, runs, state, inAt, outAt>>
      /\ 0 < outAt[t] /\ outAt[t] < ts /\ ts <= outAt[t] + EchoGap
  BY DEF Echo, Between, Happens, Evidence, Found
<1>2. Evident(t)'
  BY <1>1 DEF Evident
<1>3. PendingOK'
  BY <1>1, <1>2 DEF PendingOK
<1>4. ThreadsOK'
  BY <1>1, BetweenStep DEF vars
<1> QED
  BY <1>1, <1>3, <1>4 DEF KernelOK, KernelTypeOK, RunsOK

\* A wakeup, sampled or not.
LEMMA WakeStep ==
  ASSUME KernelOK, ThreadsOK, NEW ts \in Times, NEW t \in Threads, Wake(ts, t)
  PROVE  KernelOK' /\ ThreadsOK'
<1>1. /\ state[t] = "sleep" /\ state' = [state EXCEPT ![t] = "ready"]
      /\ pending = <<>> /\ pending' \in {<<>>, <<Found(t)>>, <<Woken(t)>>}
      /\ pending' = <<>> \/ pending' = <<Woken(t)>>
      /\ time' = ts /\ UNCHANGED <<vars, mode, runs, inAt, outAt>>
  BY DEF Wake, Between, Happens, Woken
<1>2. KernelTypeOK /\ RunsOK
  BY DEF KernelOK
<1>3. state'[t] = "ready" /\ \A u \in Threads : u # t => state'[u] = state[u]
  BY <1>1, <1>2 DEF KernelTypeOK
<1>4. KernelTypeOK'
  BY <1>1, <1>2 DEF KernelTypeOK
<1>5. RunsOK'
  BY <1>1, <1>2, <1>3 DEF RunsOK
<1>6. PendingOK'
  BY <1>1, <1>3 DEF PendingOK
<1>7. ThreadsOK'
  BY <1>1, <1>3, BetweenStep DEF vars
<1> QED
  BY <1>4, <1>5, <1>6, <1>7 DEF KernelOK

\* A switch: what is due afterwards.
LEMMA SwitchPending ==
  ASSUME NEW ts, NEW c, NEW prev, prev = runs[c], NEW next \in Tids,
         NEW reason \in Reasons, Switch(ts, c, next, reason)
  PROVE  IF mode = "system" \/ prev \in Traced
         THEN Due(pending', prev, next, reason)
         ELSE pending' = <<>> \/ (next \in Threads /\ pending' = <<Found(next)>>)
<1> DEFINE sampled == mode = "system" \/ prev \in Traced
           evidence == IF ts > switchAt THEN Evidence(next) ELSE <<>>
           switch == IF sampled THEN <<Switched(prev, next, reason)>> ELSE <<>>
<1>1. pending' = evidence \o switch
  BY DEF Switch, Switched
<1>2. evidence = <<>> \/ (next \in Threads /\ evidence = <<Found(next)>>)
  BY DEF Evidence, Recorded, Found
<1> HIDE DEF evidence
<1>3. CASE sampled
  <2>1. switch = <<Switched(prev, next, reason)>>
    BY <1>3
  <2> HIDE DEF switch
  <2>2. CASE evidence = <<>>
    <3>1. pending' = <<Switched(prev, next, reason)>>
      BY <1>1, <2>1, <2>2
    <3> QED
      BY <1>3, <3>1 DEF Due
  <2>3. CASE next \in Threads /\ evidence = <<Found(next)>>
    <3>1. pending' = <<Found(next), Switched(prev, next, reason)>>
      BY <1>1, <2>1, <2>3, TwoSamples
    <3> QED
      BY <1>3, <2>3, <3>1 DEF Due
  <2> QED
    BY <1>2, <2>2, <2>3
<1>4. CASE ~sampled
  <2>1. switch = <<>>
    BY <1>4
  <2> HIDE DEF switch
  <2>2. CASE evidence = <<>>
    BY <1>1, <1>4, <2>1, <2>2
  <2>3. CASE next \in Threads /\ evidence = <<Found(next)>>
    <3>1. pending' = <<Found(next)>>
      BY <1>1, <2>1, <2>3
    <3> QED
      BY <1>4, <2>3, <3>1
  <2> QED
    BY <1>2, <2>2, <2>3
<1> QED
  BY <1>3, <1>4

\* A switch, sampled or not.
LEMMA SwitchStep ==
  ASSUME KernelOK, ThreadsOK,
         NEW ts \in Times, NEW c \in Cpus, NEW next \in Tids, NEW reason \in Reasons,
         Switch(ts, c, next, reason)
  PROVE  KernelOK' /\ ThreadsOK'
<1>1. KernelTypeOK /\ RunsOK
  BY DEF KernelOK
<1>2. PICK prev \in Tids : prev = runs[c]
  BY <1>1 DEF KernelTypeOK
<1> DEFINE sampled == mode = "system" \/ prev \in Traced
<1>3. /\ pending = <<>> /\ time' = ts /\ UNCHANGED <<vars, mode>>
      /\ next # prev /\ (next \in Threads => state[next] = "ready")
      /\ runs' = [runs EXCEPT ![c] = next]
  BY <1>2 DEF Switch, Happens, Threads
<1>4. /\ state' \in [Threads -> {"run", "ready", "sleep"}]
      /\ inAt' \in [Threads -> Times] /\ outAt' \in [Threads -> Times]
      /\ \A t \in Threads \ {prev, next} :
           state'[t] = state[t] /\ inAt'[t] = inAt[t] /\ outAt'[t] = outAt[t]
      /\ next \in Threads => state'[next] = "run" /\ inAt'[next] = ts
      /\ prev \in Threads =>
           /\ state[prev] = "run" /\ state'[prev] # "run"
           /\ inAt'[prev] = inAt[prev] /\ outAt'[prev] = ts
  <2>1. prev \in Threads => state[prev] = "run"
    BY <1>1, <1>2 DEF RunsOK
  <2>2. /\ state' = [t \in Threads |->
              IF t = next THEN "run"
              ELSE IF t # prev THEN state[t]
              ELSE IF reason = Preempted THEN "ready" ELSE "sleep"]
        /\ inAt' = [t \in Threads |-> IF t = next THEN ts ELSE inAt[t]]
        /\ outAt' = [t \in Threads |-> IF t = prev THEN ts ELSE outAt[t]]
    BY <1>2 DEF Switch
  <2> QED
    BY <1>1, <1>3, <2>1, <2>2 DEF KernelTypeOK
<1>5. KernelTypeOK'
  BY <1>1, <1>3, <1>4 DEF KernelTypeOK
<1>6. RunsOK'
  <2>1. \A d \in Cpus : runs'[d] = IF d = c THEN next ELSE runs[d]
    BY <1>1, <1>3 DEF KernelTypeOK
  <2>2. \A d \in Cpus : d # c /\ runs[d] \in Threads =>
          runs[d] # prev /\ runs[d] # next /\ state[runs[d]] = "run"
    BY <1>1, <1>2, <1>3 DEF RunsOK
  <2> QED
    BY <1>1, <1>4, <2>1, <2>2 DEF RunsOK
<1>7. JustSwitched(prev, next)'
  BY <1>3, <1>4 DEF JustSwitched
<1>8. /\ sampled => Due(pending', prev, next, reason)
      /\ ~sampled => pending' = <<>> \/ (next \in Threads /\ pending' = <<Found(next)>>)
  BY <1>2, SwitchPending
<1>9. PendingOK'
  <2>1. CASE sampled
    BY <1>7, <1>8, <2>1 DEF PendingOK
  <2>2. CASE ~sampled /\ pending' = <<>>
    BY <2>2 DEF PendingOK
  <2>3. CASE ~sampled /\ next \in Threads /\ pending' = <<Found(next)>>
    BY <1>4, <2>3 DEF PendingOK, Evident
  <2> QED
    BY <1>8, <2>1, <2>2, <2>3
<1>10. \A p, n, r : ~Due(pending, p, n, r)
  BY <1>3, NoSwitchDue
<1>11. ASSUME NEW u \in Threads PROVE AsleepOK(u)' /\ AwakeOK(u)'
  <2>1. AsleepOK(u) /\ AwakeOK(u) /\ ~Leaving(u) /\ ~Entering(u)
    BY <1>10 DEF ThreadsOK, Leaving, Entering
  <2>2. sched' = sched /\ mode' = mode /\ (Recorded(u)' <=> Recorded(u))
    BY <1>3 DEF vars, Recorded
  <2>3. sampled => \A p, n, r : Due(pending', p, n, r) => p = prev /\ n = next
    BY <1>8, OneSwitchDue
  <2>4. u = prev /\ sampled => Leaving(u)'
    BY <1>8 DEF Leaving
  <2>5. u = next /\ sampled => Entering(u)'
    BY <1>8 DEF Entering
  <2>6. AsleepOK(u)'
    <3>1. CASE u = prev
      BY <2>2, <2>4, <3>1 DEF AsleepOK, Recorded
    <3>2. CASE u = next
      BY <1>4, <3>2 DEF AsleepOK
    <3>3. CASE u # prev /\ u # next
      BY <1>4, <2>1, <2>2, <3>3 DEF AsleepOK, IsOff
    <3> QED
      BY <3>1, <3>2, <3>3
  <2>7. AwakeOK(u)'
    <3> SUFFICES ASSUME mode = "system", u \in Shown \cap Known,
                        Leaving(u)' \/ (state'[u] = "run" /\ ~Entering(u)')
                 PROVE  \/ u \notin DOMAIN sched' /\ inAt'[u] = 0
                        \/ IsOn(sched, u)' /\ (inAt'[u] > 0 => sched'[u].last = inAt'[u])
      BY <2>2 DEF AwakeOK
    <3>1. Leaving(u)' => u = prev
      BY <2>3 DEF Leaving
    <3>2. u # next /\ state[u] = "run" /\ inAt'[u] = inAt[u]
      BY <1>3, <1>4, <2>5, <3>1
    <3> QED
      BY <2>1, <2>2, <3>2 DEF AwakeOK, IsOn
  <2> QED
    BY <2>6, <2>7
<1> QED
  BY <1>5, <1>6, <1>9, <1>11 DEF KernelOK, ThreadsOK

-----------------------------------------------------------------------------
(* The samples reach the tracker. *)

\* What a delivery does, by the sample that is first.
LEMMA DeliverForms ==
  ASSUME KernelOK, Deliver
  PROVE  \/ \E t \in Threads : /\ pending = <<Found(t)>> /\ Evident(t) /\ pending' = <<>>
                               /\ Running(time, t) \/ (t \notin Shown /\ Ignored(time))
         \/ \E t \in Threads : /\ pending = <<Woken(t)>> /\ state[t] = "ready"
                               /\ pending' = <<>>
                               /\ SchedWakeup(time, t) \/ (t \notin Shown /\ Ignored(time))
         \/ \E prev, next \in Tids, reason \in Reasons :
              /\ JustSwitched(prev, next)
              /\ \/ /\ next \in Threads
                    /\ pending = <<Found(next), Switched(prev, next, reason)>>
                    /\ pending' = <<Switched(prev, next, reason)>>
                    /\ Running(time, next) \/ (next \notin Shown /\ Ignored(time))
                 \/ /\ pending = <<Switched(prev, next, reason)>>
                    /\ pending' = <<>>
                    /\ SchedSwitch(time, prev, next, reason)
<1> DEFINE s == pending[1]
<1>1. /\ pending # <<>> /\ pending' = Tail(pending)
      /\ \/ s.type = "switch" /\ SchedSwitch(time, s.prev, s.next, s.reason)
         \/ s.type = "wakeup" /\ SchedWakeup(time, s.tid)
         \/ s.type = "running" /\ Running(time, s.tid)
         \/ s.type # "switch" /\ s.tid \notin Shown /\ Ignored(time)
  BY DEF Deliver
<1>2. ASSUME NEW t \in Threads, s = Found(t)
      PROVE  Running(time, t) \/ (t \notin Shown /\ Ignored(time))
  <2>1. s.type = "running" /\ s.tid = t
    BY <1>2 DEF Found
  <2> QED
    BY <1>1, <2>1
<1>3. ASSUME NEW t \in Threads, s = Woken(t)
      PROVE  SchedWakeup(time, t) \/ (t \notin Shown /\ Ignored(time))
  <2>1. s.type = "wakeup" /\ s.tid = t
    BY <1>3 DEF Woken
  <2> QED
    BY <1>1, <2>1
<1>4. ASSUME NEW prev \in Tids, NEW next \in Tids, NEW reason \in Reasons,
             s = Switched(prev, next, reason)
      PROVE  SchedSwitch(time, prev, next, reason)
  <2>1. s.type = "switch" /\ s.prev = prev /\ s.next = next /\ s.reason = reason
    BY <1>4 DEF Switched
  <2> QED
    BY <1>1, <2>1
<1>5. CASE \E t \in Threads : pending = <<Found(t)>> /\ Evident(t)
  <2>1. PICK t \in Threads : pending = <<Found(t)>> /\ Evident(t)
    BY <1>5
  <2>2. s = Found(t) /\ pending' = <<>>
    BY <1>1, <2>1
  <2> QED
    BY <1>2, <2>1, <2>2
<1>6. CASE \E t \in Threads : pending = <<Woken(t)>> /\ state[t] = "ready"
  <2>1. PICK t \in Threads : pending = <<Woken(t)>> /\ state[t] = "ready"
    BY <1>6
  <2>2. s = Woken(t) /\ pending' = <<>>
    BY <1>1, <2>1
  <2> QED
    BY <1>3, <2>1, <2>2
<1>7. CASE \E prev, next \in Tids, reason \in Reasons :
             Due(pending, prev, next, reason) /\ JustSwitched(prev, next)
  <2>1. PICK prev \in Tids, next \in Tids, reason \in Reasons :
          Due(pending, prev, next, reason) /\ JustSwitched(prev, next)
    BY <1>7
  <2>2. CASE pending = <<Switched(prev, next, reason)>>
    <3>1. s = Switched(prev, next, reason) /\ pending' = <<>>
      BY <1>1, <2>2
    <3> QED
      BY <1>4, <2>1, <2>2, <3>1
  <2>3. CASE next \in Threads /\ pending = <<Found(next), Switched(prev, next, reason)>>
    <3>1. s = Found(next) /\ pending' = <<Switched(prev, next, reason)>>
      BY <1>1, <2>3
    <3> QED
      BY <1>2, <2>1, <2>3, <3>1
  <2> QED
    BY <2>1, <2>2, <2>3 DEF Due
<1> QED
  BY <1>1, <1>5, <1>6, <1>7 DEF KernelOK, PendingOK

\* No delivery changes what is true of the kernel.
LEMMA KernelKept ==
  ASSUME KernelOK, Deliver, PendingOK'
  PROVE  KernelOK'
BY DEF KernelOK, KernelTypeOK, RunsOK, Deliver

\* An echo does not wake the thread: it comes no later than EchoGap after the
\* switch-out, and the subtraction does not wrap.
LEMMA EchoIgnored ==
  ASSUME KernelTypeOK, NEW t \in Threads, Running(time, t), IsOff(sched, t),
         sched[t].last = outAt[t], outAt[t] < time, time <= outAt[t] + EchoGap
  PROVE  sched' = sched
<1>1. /\ time \in Nat /\ outAt[t] \in Nat /\ EchoGap \in Nat /\ TsMod \in Nat
      /\ time <= MaxTs /\ MaxTs \in Nat /\ Backward \in Nat
      /\ TsMod > MaxTs + EchoGap + Backward
  BY SchedAssumption DEF KernelTypeOK, Times
<1> DEFINE gap == time - outAt[t]
<1>2. gap \in Nat /\ gap <= EchoGap /\ gap < TsMod
  BY <1>1
<1>3. gap % TsMod = gap
  <2> HIDE DEF gap
  <2> QED
    BY <1>1, <1>2
<1>4. ~(Gap(time, sched[t].last) > EchoGap)
  BY <1>1, <1>2, <1>3 DEF Gap
<1> QED
  BY <1>4 DEF Running, IsOff

\* Evidence of a thread is delivered; nothing else is pending.
LEMMA FoundStep ==
  ASSUME KernelOK, ThreadsOK, Deliver, NEW t \in Threads,
         pending = <<Found(t)>>, Evident(t), pending' = <<>>,
         Running(time, t) \/ (t \notin Shown /\ Ignored(time))
  PROVE  ThreadsOK'
<1>1. UNCHANGED <<mode, state, inAt, outAt>>
  BY DEF Deliver
<1>2. /\ \A p, n, r : ~Due(pending, p, n, r)
      /\ \A p, n, r : ~Due(pending', p, n, r)
  BY NoSwitchDue
<1> SUFFICES ASSUME NEW u \in Threads PROVE AsleepOK(u)' /\ AwakeOK(u)'
  BY DEF ThreadsOK
<1>3. /\ AsleepOK(u) /\ AwakeOK(u) /\ ~Leaving(u) /\ ~Entering(u) /\ ~Leaving(u)'
      /\ Recorded(u)' <=> Recorded(u)
  BY <1>1, <1>2 DEF ThreadsOK, Leaving, Entering, Recorded
<1>4. CASE u # t
  <2>1. Same(u)
    BY <1>4, OthersSame
  <2> QED
    BY <1>1, <1>3, <2>1 DEF AsleepOK, AwakeOK, IsOn, IsOff, Same
<1>5. CASE u = t /\ u \notin Shown
  BY <1>5 DEF AsleepOK, AwakeOK
<1>6. CASE u = t /\ u \in Shown
  <2>1. Running(time, u)
    BY <1>6
  <2>2. AsleepOK(u)'
    <3> SUFFICES ASSUME Recorded(u), state[u] = "sleep"
                 PROVE  IsOff(sched, u)' /\ sched'[u].last = outAt'[u]
      BY <1>1, <1>3 DEF AsleepOK
    <3>1. 0 < outAt[u] /\ outAt[u] < time /\ time <= outAt[u] + EchoGap
      BY <1>6 DEF Evident
    <3>2. KernelTypeOK /\ outAt[u] # 0
      BY <3>1 DEF KernelOK
    <3>3. IsOff(sched, u) /\ sched[u].last = outAt[u]
      BY <1>3, <1>6, <3>2 DEF AsleepOK
    <3>4. sched' = sched
      BY <2>1, <3>1, <3>2, <3>3, EchoIgnored
    <3> QED
      BY <1>1, <3>3, <3>4 DEF IsOff
  <2>3. AwakeOK(u)'
    <3> SUFFICES ASSUME mode = "system", u \in Shown \cap Known, state[u] = "run"
                 PROVE  IsOn(sched, u)' /\ (inAt[u] > 0 => sched'[u].last = inAt[u])
      BY <1>1, <1>3 DEF AwakeOK
    <3>1. \/ u \notin DOMAIN sched /\ inAt[u] = 0
          \/ IsOn(sched, u) /\ (inAt[u] > 0 => sched[u].last = inAt[u])
      BY <1>3 DEF AwakeOK
    <3>2. CASE u \notin DOMAIN sched /\ inAt[u] = 0
      <4>1. sched' = Put(sched, u, OnCpuSince(time))
        BY <2>1, <3>2 DEF Running
      <4> QED
        BY <3>2, <4>1 DEF Put, IsOn, OnCpuSince
    <3>3. CASE IsOn(sched, u) /\ (inAt[u] > 0 => sched[u].last = inAt[u])
      <4>1. sched' = sched
        BY <2>1, <3>3 DEF Running, IsOn, IsOff
      <4> QED
        BY <3>3, <4>1 DEF IsOn
    <3> QED
      BY <3>1, <3>2, <3>3
  <2> QED
    BY <2>2, <2>3
<1> QED
  BY <1>4, <1>5, <1>6

\* A wakeup is delivered: its thread waits for a CPU, and nothing is claimed of it.
LEMMA WokenStep ==
  ASSUME KernelOK, ThreadsOK, Deliver, NEW t \in Threads,
         pending = <<Woken(t)>>, state[t] = "ready", pending' = <<>>,
         SchedWakeup(time, t) \/ (t \notin Shown /\ Ignored(time))
  PROVE  ThreadsOK'
<1>1. UNCHANGED <<mode, state, inAt, outAt>>
  BY DEF Deliver
<1>2. /\ \A p, n, r : ~Due(pending, p, n, r)
      /\ \A p, n, r : ~Due(pending', p, n, r)
  BY NoSwitchDue
<1> SUFFICES ASSUME NEW u \in Threads PROVE AsleepOK(u)' /\ AwakeOK(u)'
  BY DEF ThreadsOK
<1>3. /\ AsleepOK(u) /\ AwakeOK(u) /\ ~Leaving(u) /\ ~Entering(u) /\ ~Leaving(u)'
      /\ Recorded(u)' <=> Recorded(u)
  BY <1>1, <1>2 DEF ThreadsOK, Leaving, Entering, Recorded
<1>4. CASE u # t
  <2>1. Same(u)
    BY <1>4, OthersSame
  <2> QED
    BY <1>1, <1>3, <2>1 DEF AsleepOK, AwakeOK, IsOn, IsOff, Same
<1>5. CASE u = t
  BY <1>1, <1>3, <1>5 DEF AsleepOK, AwakeOK
<1> QED
  BY <1>4, <1>5

\* Evidence of the switch-in is delivered ahead of the switch itself.
LEMMA EarlyFoundStep ==
  ASSUME KernelOK, ThreadsOK, Deliver,
         NEW prev \in Tids, NEW next \in Threads, NEW reason \in Reasons,
         JustSwitched(prev, next),
         pending = <<Found(next), Switched(prev, next, reason)>>,
         pending' = <<Switched(prev, next, reason)>>,
         Running(time, next) \/ (next \notin Shown /\ Ignored(time))
  PROVE  ThreadsOK'
<1>1. UNCHANGED <<mode, state, inAt, outAt>> /\ next \in Tids
  BY DEF Deliver, Threads
<1>2. Due(pending, prev, next, reason) /\ Due(pending', prev, next, reason)
  BY DEF Due
<1>3. /\ \A p, n, r : Due(pending, p, n, r) => p = prev /\ n = next /\ r = reason
      /\ \A p, n, r : Due(pending', p, n, r) => p = prev /\ n = next /\ r = reason
  BY <1>2, OneSwitchDue
<1>4. \A u : /\ Leaving(u) <=> u = prev
             /\ Leaving(u)' <=> u = prev
             /\ Entering(u) <=> u = next
             /\ Entering(u)' <=> u = next
  BY <1>1, <1>2, <1>3 DEF Leaving, Entering
<1> SUFFICES ASSUME NEW u \in Threads PROVE AsleepOK(u)' /\ AwakeOK(u)'
  BY DEF ThreadsOK
<1>5. AsleepOK(u) /\ AwakeOK(u) /\ (Recorded(u)' <=> Recorded(u))
  BY <1>1 DEF ThreadsOK, Recorded
<1>6. CASE u # next
  <2>1. Same(u)
    BY <1>6, OthersSame
  <2> QED
    BY <1>1, <1>4, <1>5, <1>6, <2>1 DEF AsleepOK, AwakeOK, IsOn, IsOff, Same
<1>7. CASE u = next
  BY <1>1, <1>4, <1>7 DEF AsleepOK, AwakeOK, JustSwitched
<1> QED
  BY <1>6, <1>7

\* The switch is delivered.
LEMMA SwitchedStep ==
  ASSUME KernelOK, ThreadsOK, Deliver,
         NEW prev \in Tids, NEW next \in Tids, NEW reason \in Reasons,
         JustSwitched(prev, next),
         pending = <<Switched(prev, next, reason)>>, pending' = <<>>,
         SchedSwitch(time, prev, next, reason)
  PROVE  ThreadsOK'
<1>1. UNCHANGED <<mode, state, inAt, outAt>>
  BY DEF Deliver
<1>2. Due(pending, prev, next, reason) /\ \A p, n, r : ~Due(pending', p, n, r)
  BY NoSwitchDue DEF Due
<1>3. \A p, n, r : Due(pending, p, n, r) => p = prev /\ n = next /\ r = reason
  BY <1>2, OneSwitchDue
<1>4. \A u : /\ Leaving(u) => u = prev
             /\ Entering(u) => u = next
             /\ ~Leaving(u)'
  BY <1>2, <1>3 DEF Leaving, Entering
<1>5. /\ prev \in Shown => IsOff(sched, prev)' /\ sched'[prev].last = time
      /\ next \in Shown \cap Known => IsOn(sched, next)' /\ sched'[next].last = time
  BY SwitchStates DEF JustSwitched
<1> SUFFICES ASSUME NEW u \in Threads PROVE AsleepOK(u)' /\ AwakeOK(u)'
  BY DEF ThreadsOK
<1>6. AsleepOK(u) /\ AwakeOK(u) /\ (Recorded(u)' <=> Recorded(u))
  BY <1>1 DEF ThreadsOK, Recorded
<1>7. CASE u = prev
  BY <1>1, <1>4, <1>5, <1>7 DEF AsleepOK, AwakeOK, JustSwitched
<1>8. CASE u = next
  BY <1>1, <1>4, <1>5, <1>8 DEF AsleepOK, AwakeOK, JustSwitched
<1>9. CASE u # prev /\ u # next
  <2>1. Same(u)
    BY <1>9, SwitchSame
  <2> QED
    BY <1>1, <1>4, <1>6, <1>9, <2>1 DEF AsleepOK, AwakeOK, IsOn, IsOff, Same
<1> QED
  BY <1>7, <1>8, <1>9

\* Whatever sample is delivered.
LEMMA DeliverStep ==
  ASSUME KernelOK, ThreadsOK, Deliver
  PROVE  KernelOK' /\ ThreadsOK' /\ Next
<1>1. time \in Times /\ UNCHANGED <<state, inAt, outAt, time>>
  BY DEF KernelOK, KernelTypeOK, Deliver
<1>2. ASSUME NEW t \in Threads
      PROVE  /\ Running(time, t) => Next
             /\ SchedWakeup(time, t) => Next
             /\ Ignored(time) => Next
  BY <1>1 DEF Next, Threads
<1>3. ASSUME NEW t \in Threads,
             pending = <<Found(t)>>, Evident(t), pending' = <<>>,
             Running(time, t) \/ (t \notin Shown /\ Ignored(time))
      PROVE  KernelOK' /\ ThreadsOK' /\ Next
  <2>1. PendingOK'
    BY <1>3 DEF PendingOK
  <2> QED
    BY <1>2, <1>3, <2>1, KernelKept, FoundStep
<1>4. ASSUME NEW t \in Threads,
             pending = <<Woken(t)>>, state[t] = "ready", pending' = <<>>,
             SchedWakeup(time, t) \/ (t \notin Shown /\ Ignored(time))
      PROVE  KernelOK' /\ ThreadsOK' /\ Next
  <2>1. PendingOK'
    BY <1>4 DEF PendingOK
  <2> QED
    BY <1>2, <1>4, <2>1, KernelKept, WokenStep
<1>5. ASSUME NEW prev \in Tids, NEW next \in Threads, NEW reason \in Reasons,
             JustSwitched(prev, next),
             pending = <<Found(next), Switched(prev, next, reason)>>,
             pending' = <<Switched(prev, next, reason)>>,
             Running(time, next) \/ (next \notin Shown /\ Ignored(time))
      PROVE  KernelOK' /\ ThreadsOK' /\ Next
  <2>1. JustSwitched(prev, next)'
    BY <1>1, <1>5 DEF JustSwitched
  <2>2. Due(pending', prev, next, reason) /\ next \in Tids
    BY <1>5 DEF Due, Threads
  <2>3. PendingOK'
    BY <2>1, <2>2 DEF PendingOK
  <2> QED
    BY <1>2, <1>5, <2>3, KernelKept, EarlyFoundStep
<1>6. ASSUME NEW prev \in Tids, NEW next \in Tids, NEW reason \in Reasons,
             JustSwitched(prev, next),
             pending = <<Switched(prev, next, reason)>>, pending' = <<>>,
             SchedSwitch(time, prev, next, reason)
      PROVE  KernelOK' /\ ThreadsOK' /\ Next
  <2>1. PendingOK'
    BY <1>6 DEF PendingOK
  <2>2. Next
    BY <1>1, <1>6 DEF Next
  <2> QED
    BY <1>6, <2>1, <2>2, KernelKept, SwitchedStep
<1> QED
  BY <1>3, <1>4, <1>5, <1>6, DeliverForms

-----------------------------------------------------------------------------
\* At the start every thread is unknown to the tracker and nothing is pending.
LEMMA RecordingInitInv == RecordingInit => RecordingInv
<1> SUFFICES ASSUME RecordingInit PROVE RecordingInv
  OBVIOUS
<1>1. Inv /\ DOMAIN sched = {} /\ pending = <<>>
  BY InvInit DEF RecordingInit, Init
<1>2. KernelTypeOK /\ RunsOK /\ PendingOK
  <2>1. 0 \in Times
    BY SchedAssumption DEF Times
  <2> QED
    BY <2>1 DEF RecordingInit, KernelTypeOK, RunsOK, PendingOK
<1>3. ASSUME NEW t \in Threads PROVE AsleepOK(t) /\ AwakeOK(t)
  <2>1. ~Leaving(t)
    BY <1>1, NoSwitchDue DEF Leaving
  <2> QED
    BY <1>1, <2>1 DEF RecordingInit, AsleepOK, AwakeOK
<1> QED
  BY <1>1, <1>2, <1>3 DEF RecordingInv, KernelInv, TrackerInv

\* What the kernel does happens at some time and leaves the tracker alone.
LEMMA KernelHappens == Kernel => \E ts : Happens(ts)
<1> SUFFICES ASSUME Kernel PROVE \E ts : Happens(ts)
  OBVIOUS
<1>1. PICK ts \in Times :
        \/ \E t \in Threads : Tick(ts, t) \/ Echo(ts, t) \/ Wake(ts, t)
        \/ \E c \in Cpus, next \in Tids, reason \in Reasons : Switch(ts, c, next, reason)
  BY DEF Kernel
<1>2. CASE \E t \in Threads : Tick(ts, t) \/ Echo(ts, t) \/ Wake(ts, t)
  BY <1>2 DEF Tick, Echo, Wake, Between
<1>3. CASE \E c \in Cpus, next \in Tids, reason \in Reasons : Switch(ts, c, next, reason)
  BY <1>3 DEF Switch
<1> QED
  BY <1>1, <1>2, <1>3

\* Every step of a recording is a step of the tracker or leaves it alone, and
\* keeps the invariant.
LEMMA RecordingStep ==
  RecordingInv /\ [RecordingNext]_recordingVars => RecordingInv' /\ [Next]_vars
<1> SUFFICES ASSUME RecordingInv, [RecordingNext]_recordingVars
             PROVE  RecordingInv' /\ [Next]_vars
  OBVIOUS
<1>1. Inv /\ (mode # "any" => KernelOK /\ ThreadsOK)
  BY DEF RecordingInv, KernelInv, KernelOK, TrackerInv, ThreadsOK
<1>2. ASSUME mode # "any", mode' = mode, KernelOK', ThreadsOK', [Next]_vars
      PROVE  RecordingInv' /\ [Next]_vars
  BY <1>1, <1>2, InvStep DEF RecordingInv, KernelInv, KernelOK, TrackerInv, ThreadsOK
<1>3. CASE Kernel
  <2>1. mode # "any" /\ UNCHANGED <<vars, mode>>
    <3>1. \E ts : Happens(ts)
      BY <1>3, KernelHappens
    <3> QED
      BY <3>1 DEF Happens
  <2>2. KernelOK' /\ ThreadsOK'
    BY <1>1, <1>3, <2>1, TickStep, EchoStep, WakeStep, SwitchStep DEF Kernel
  <2> QED
    BY <1>2, <2>1, <2>2
<1>4. CASE Deliver
  <2>1. mode # "any" /\ mode' = mode
    BY <1>4 DEF Deliver, RecordingInv
  <2>2. KernelOK' /\ ThreadsOK' /\ Next
    BY <1>1, <1>4, <2>1, DeliverStep
  <2> QED
    BY <1>2, <2>1, <2>2
<1>5. CASE FlushRecorded
  <2>1. /\ mode # "any" /\ UNCHANGED <<mode, kernelVars>> /\ sched' = sched
        /\ Next
    BY <1>5 DEF FlushRecorded, BeginFlush, FlushThread, EndFlush, Next
  <2>2. KernelOK'
    BY <1>1, <2>1 DEF kernelVars, KernelOK, KernelTypeOK, RunsOK, PendingOK, Evident,
                      JustSwitched
  <2>3. ThreadsOK'
    BY <1>1, <2>1 DEF kernelVars, ThreadsOK, AsleepOK, AwakeOK, Leaving, Entering,
                      Recorded, IsOn, IsOff
  <2> QED
    BY <1>2, <2>1, <2>2, <2>3
<1>6. CASE AnySamples
  <2>1. mode = "any" /\ mode' = mode /\ pending' = pending /\ Next
    BY <1>6 DEF AnySamples, kernelVars
  <2> QED
    BY <1>1, <2>1, InvStep DEF RecordingInv, KernelInv, TrackerInv
<1>7. CASE UNCHANGED recordingVars
  <2>1. UNCHANGED <<vars, mode, kernelVars>> /\ sched' = sched
    BY <1>7 DEF recordingVars, vars
  <2>2. Inv'
    BY <1>1, <2>1, InvStep
  <2>3. mode # "any" => KernelOK'
    BY <1>1, <2>1 DEF kernelVars, KernelOK, KernelTypeOK, RunsOK, PendingOK, Evident,
                      JustSwitched
  <2>4. mode # "any" => ThreadsOK'
    BY <1>1, <2>1 DEF kernelVars, ThreadsOK, AsleepOK, AwakeOK, Leaving, Entering,
                      Recorded, IsOn, IsOff
  <2> QED
    BY <2>1, <2>2, <2>3, <2>4
    DEF kernelVars, RecordingInv, KernelInv, KernelOK, TrackerInv, ThreadsOK
<1> QED
  BY <1>3, <1>4, <1>5, <1>6, <1>7 DEF RecordingNext

\* The invariant holds throughout a recording.
THEOREM RecordingCorrect == RecordingSpec => []RecordingInv
BY RecordingInitInv, RecordingStep, PTL DEF RecordingSpec

\* The samples of a recording, however it is made, are samples the tracker may
\* be given: what the theorems of the first part say of the tracker is true of every
\* recording.
THEOREM RecordingIsTracked == RecordingSpec => Spec
<1>1. RecordingInit => Init
  BY DEF RecordingInit
<1> QED
  BY <1>1, RecordingCorrect, RecordingStep, PTL DEF RecordingSpec, Spec

\* merge_engine.cpp:679-779: no tick or echo wakes a thread that sleeps, and in a
\* system-wide recording no thread that runs stays off-cpu; for all threads, CPUs,
\* filters and every EchoGap.
THEOREM StatesFollowKernel == RecordingSpec => []StateFollows
<1>1. RecordingInv => StateFollows
  <2> SUFFICES ASSUME RecordingInv, mode # "any", pending = <<>>,
                      NEW t \in Followed
               PROVE  /\ state[t] = "sleep" => ~sched[t].on
                      /\ mode = "system" /\ t \in Known /\ state[t] = "run" => sched[t].on
    BY DEF StateFollows
  <2>1. t \in Threads /\ t \in DOMAIN sched /\ t \in Shown /\ Recorded(t)
    BY DEF Followed, Recorded, RecordingInv, Inv, TypeOK
  <2>2. ~Leaving(t) /\ ~Entering(t)
    BY NoSwitchDue DEF Leaving, Entering
  <2>3. AsleepOK(t) /\ AwakeOK(t)
    BY <2>1 DEF RecordingInv, TrackerInv
  <2> QED
    BY <2>1, <2>2, <2>3 DEF AsleepOK, AwakeOK, IsOn, IsOff
<1> QED
  BY <1>1, RecordingCorrect, PTL

-----------------------------------------------------------------------------
(* On-cpu spans. *)

\* The on-cpu spans in calls are of threads in T.
OnCpuOf(calls, T) ==
  \A k \in 1 .. Len(calls) :
    calls[k].op = "X" /\ calls[k].name = "on-cpu" => calls[k].tid \in T

\* No calls, an instant, and the end of an off-cpu span: no on-cpu span.
LEMMA NoOnCpu ==
  ASSUME NEW f, States(f), NEW ts, NEW t, NEW T
  PROVE  /\ OnCpuOf(<<>>, T)
         /\ OnCpuOf(Instant("wakeup", t, ts), T)
         /\ OnCpuOf(CloseOff(f, t, ts), T)
<1>1. OnCpuOf(<<>>, T)
  BY DEF OnCpuOf
<1>2. OnCpuOf(Instant("wakeup", t, ts), T)
  BY DEF OnCpuOf, Instant
<1>3. CASE IsOff(f, t) /\ ts > f[t].last
  <2> DEFINE c == [op |-> "X", name |-> f[t].reason, tid |-> t,
                   start |-> f[t].last, end |-> ts]
  <2>1. c.name # "on-cpu"
    BY <1>3, SchedAssumption DEF States, SchedState, IsOff
  <2>2. CloseOff(f, t, ts) = <<c>>
    BY <1>3 DEF CloseOff, Span
  <2> HIDE DEF c
  <2>3. Len(<<c>>) = 1 /\ <<c>>[1] = c
    OBVIOUS
  <2>4. OnCpuOf(<<c>>, T)
    BY <2>1, <2>3 DEF OnCpuOf
  <2> QED
    BY <1>1, <1>2, <2>2, <2>4
<1>4. CASE ~(IsOff(f, t) /\ ts > f[t].last)
  <2>1. CloseOff(f, t, ts) = <<>>
    BY <1>4 DEF CloseOff, Span
  <2> QED
    BY <1>1, <1>2, <2>1
<1> QED
  BY <1>3, <1>4

\* The calls of one part of a handler followed by those of another.
LEMMA OnCpuOfTwo ==
  ASSUME NEW T, NEW a \in Seq(Call), OnCpuOf(a, T), NEW b \in Seq(Call), OnCpuOf(b, T)
  PROVE  OnCpuOf(a \o b, T)
<1>1. /\ a \o b \in Seq(Call) /\ Len(a \o b) = Len(a) + Len(b)
      /\ \A k \in 1 .. Len(a) + Len(b) : (a \o b)[k] =
           IF k <= Len(a) THEN a[k] ELSE b[k - Len(a)]
  BY ConcatProperties
<1>2. Len(a) \in Nat /\ Len(b) \in Nat
  BY LenProperties
<1>3. ASSUME NEW k \in 1 .. Len(a \o b)
      PROVE  \/ \E i \in 1 .. Len(a) : (a \o b)[k] = a[i]
             \/ \E i \in 1 .. Len(b) : (a \o b)[k] = b[i]
  <2>1. CASE k <= Len(a)
    BY <1>1, <1>2, <2>1
  <2>2. CASE k > Len(a)
    <3>1. k - Len(a) \in 1 .. Len(b) /\ (a \o b)[k] = b[k - Len(a)]
      BY <1>1, <1>2, <2>2
    <3> QED
      BY <3>1
  <2> QED
    BY <1>2, <2>1, <2>2
<1> QED
  BY <1>1, <1>3 DEF OnCpuOf

\* Only a switch writes on-cpu spans before the flush: that of the thread it
\* takes off the CPU.
LEMMA SwitchOnCpu ==
  ASSUME Inv, NEW ts \in Times, NEW prev \in Tids, NEW next \in Tids,
         NEW reason \in Reasons, SchedSwitch(ts, prev, next, reason)
  PROVE  OnCpuOf(out', {prev})
<1> DEFINE T == {prev}
           switched == IF prev \in Shown THEN Put(sched, prev, OffCpuSince(ts, reason))
                                         ELSE sched
           a == IF prev \in Shown THEN CloseOn(sched, prev, ts) ELSE <<>>
           b == IF next \in Shown \cap Known THEN CloseOff(switched, next, ts) ELSE <<>>
<1>1. out' = a \o b
  BY DEF SchedSwitch, Write
<1>2. States(sched) /\ States(switched)
  BY TypeFacts, Putting, NewStates DEF Inv
<1> HIDE DEF switched
<1>3. a \in Seq(Call) /\ OnCpuOf(a, T)
  <2>1. CASE prev \in Shown
    <3>1. a \in Seq(Call) /\ Of(a, {prev})
      BY <1>2, <2>1, CloseCalls
    <3> QED
      BY <3>1 DEF Of, OnCpuOf
  <2>2. CASE prev \notin Shown
    <3>1. a = <<>>
      BY <2>2
    <3>2. <<>> \in Seq(Call) /\ OnCpuOf(<<>>, T)
      BY DEF OnCpuOf
    <3> QED
      BY <3>1, <3>2
  <2> QED
    BY <2>1, <2>2
<1> HIDE DEF T
<1>4. b \in Seq(Call) /\ OnCpuOf(b, T)
  <2>1. CASE next \in Shown \cap Known
    BY <1>2, <2>1, CloseCalls, NoOnCpu
  <2>2. CASE next \notin Shown \cap Known
    <3>1. b = <<>>
      BY <2>2
    <3>2. <<>> \in Seq(Call) /\ OnCpuOf(<<>>, T)
      BY DEF OnCpuOf
    <3> QED
      BY <3>1, <3>2
  <2> QED
    BY <2>1, <2>2
<1> HIDE DEF a, b
<1>5. OnCpuOf(a \o b, T)
  BY <1>3, <1>4, OnCpuOfTwo
<1> QED
  BY <1>1, <1>5 DEF T

\* The other handlers write none.
LEMMA OthersOnCpu ==
  ASSUME Inv, NEW ts \in Times, NEW t \in Tids,
         Running(ts, t) \/ SchedWakeup(ts, t) \/ Ignored(ts)
  PROVE  OnCpuOf(out', {})
<1> DEFINE T == {}
           a == CloseOff(sched, t, ts)
           b == Instant("wakeup", t, ts)
<1>1. States(sched)
  BY TypeFacts DEF Inv
<1> HIDE DEF T
<1>2. OnCpuOf(<<>>, T) /\ OnCpuOf(a, T) /\ OnCpuOf(b, T)
  BY <1>1, NoOnCpu
<1>3. a \in Seq(Call) /\ b \in Seq(Call)
  BY <1>1, CloseCalls, InstantCall
<1>4. out' = <<>> \/ out' = a \/ out' = a \o b
  BY DEF Running, SchedWakeup, Ignored, Write
<1> HIDE DEF a, b
<1>5. OnCpuOf(a \o b, T)
  BY <1>2, <1>3, OnCpuOfTwo
<1> QED
  BY <1>2, <1>4, <1>5 DEF T

\* What OnCpuExact says of a step.
ExactCalls ==
  \A k \in 1 .. Len(out') :
    LET call == out'[k] IN
    out' # out /\ call.op = "X" /\ call.name = "on-cpu" /\ call.tid \in Threads \cap Known =>
      /\ call.end = outAt[call.tid]
      /\ inAt[call.tid] > 0 => call.start = inAt[call.tid]

\* The delivery of a switch writes an exact on-cpu span, that of other samples none.
LEMMA ExactDelivery ==
  ASSUME Inv, KernelOK, ThreadsOK, mode = "system", Deliver
  PROVE  ExactCalls
<1>1. time \in Times /\ Threads \subseteq Tids
  BY DEF KernelOK, KernelTypeOK, Threads
<1>2. ASSUME OnCpuOf(out', {}) PROVE ExactCalls
  BY <1>2 DEF OnCpuOf, ExactCalls
<1>3. ASSUME NEW t \in Threads, Running(time, t) \/ SchedWakeup(time, t) \/ Ignored(time)
      PROVE  ExactCalls
  BY <1>1, <1>2, <1>3, OthersOnCpu
<1>4. ASSUME NEW prev \in Tids, NEW next \in Tids, NEW reason \in Reasons,
             JustSwitched(prev, next),
             pending = <<Switched(prev, next, reason)>>,
             SchedSwitch(time, prev, next, reason)
      PROVE  ExactCalls
  <2>1. OnCpuOf(out', {prev}) /\ Handled(time)
    BY <1>1, <1>4, SwitchOnCpu, SwitchHandled
  <2>2. Leaving(prev)
    BY <1>4 DEF Leaving, Due
  <2> SUFFICES ASSUME NEW k \in 1 .. Len(out'), out'[k].op = "X",
                      out'[k].name = "on-cpu", out'[k].tid \in Threads \cap Known
               PROVE  /\ out'[k].end = outAt[out'[k].tid]
                      /\ inAt[out'[k].tid] > 0 => out'[k].start = inAt[out'[k].tid]
    BY DEF ExactCalls
  <2>3. out'[k].tid = prev
    BY <2>1 DEF OnCpuOf
  <2>4. /\ prev \in DOMAIN sched /\ prev \in Shown /\ prev \in Threads \cap Known
        /\ out'[k].start = sched[prev].last /\ out'[k].end = time
    <3>1. Honest(out', sched, time)
      BY <2>1 DEF Handled, Spans
    <3>2. SpanOf(out'[k], sched, time)
      BY <3>1 DEF Honest
    <3>3. DOMAIN sched \subseteq Shown
      BY DEF Inv, TypeOK
    <3> QED
      BY <2>3, <3>2, <3>3 DEF SpanOf
  <2>5. outAt[prev] = time
    BY <1>4, <2>4 DEF JustSwitched
  <2>6. inAt[prev] > 0 => sched[prev].last = inAt[prev]
    BY <2>2, <2>4 DEF ThreadsOK, AwakeOK
  <2> QED
    BY <2>3, <2>4, <2>5, <2>6
<1> QED
  BY <1>3, <1>4, DeliverForms

\* merge_engine.cpp:368-473, 679-779: in a system-wide recording the on-cpu spans of a known
\* thread are the times it had a CPU, wakeups and echoes notwithstanding; for all
\* threads, CPUs, filters and every EchoGap.
THEOREM OnCpuIsExact == RecordingSpec => OnCpuExact
<1> DEFINE A == mode = "system" /\ phase = "run" => ExactCalls
<1>1. RecordingInv /\ [RecordingNext]_recordingVars => [A]_recordingVars
  <2> SUFFICES ASSUME RecordingInv, RecordingNext, mode = "system", phase = "run"
               PROVE  ExactCalls
    OBVIOUS
  <2>1. CASE Kernel
    <3>1. \E ts : Happens(ts)
      BY <2>1, KernelHappens
    <3>2. out' = out
      BY <3>1 DEF Happens, vars
    <3> QED
      BY <3>2 DEF ExactCalls
  <2>2. CASE Deliver
    BY <2>2, ExactDelivery
    DEF RecordingInv, KernelInv, KernelOK, TrackerInv, ThreadsOK
  <2>3. CASE FlushRecorded
    <3>1. out' = <<>>
      BY <2>3 DEF FlushRecorded, BeginFlush, FlushThread, EndFlush, Write
    <3> QED
      BY <3>1 DEF ExactCalls
  <2>4. CASE AnySamples
    BY <2>4 DEF AnySamples
  <2> QED
    BY <2>1, <2>2, <2>3, <2>4 DEF RecordingNext
<1>2. RecordingSpec => [][A]_recordingVars
  BY <1>1, RecordingCorrect, PTL DEF RecordingSpec
<1> QED
  BY <1>2 DEF OnCpuExact, ExactCalls
=============================================================================
