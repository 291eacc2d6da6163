-------------------------- MODULE SinkImageProofs ---------------------------
(***************************************************************************)
(* Proofs about SinkPacing, for every number of threads, period, delay,    *)
(* setting and bound, and about SinkImage: an image is only made of fully  *)
(* patched sources, so that the sink it runs is the one of SinkPacing.     *)
(***************************************************************************)
EXTENDS SinkImage, BuildPatchProofs, TLAPS

(* The shortest retry the code may choose is MinRetry, whatever the        *)
(* environment says.                                                       *)
LEMMA RetryBound == TooEarlyRetry \in Nat /\ TooEarlyRetry >= MinRetry
BY PacingAssumption DEF TooEarlyRetry, Smaller, Larger

LEMMA IntervalType == Interval \in Nat
<1>1. Second \in Nat /\ Modulus \in Nat \ {0} /\ (IF RateEnv = Unset THEN 10 ELSE RateEnv) \in Nat
  BY PacingAssumption
<1>2. (IF RateEnv = Unset THEN 10 ELSE RateEnv) * Second \in Nat
  BY <1>1
<1>3. ASSUME NEW a \in Nat PROVE a % Modulus \in Nat
  BY <1>1
<1> QED BY <1>2, <1>3 DEF Interval

LEMMA MinusType == ASSUME NEW a \in Nat, NEW b \in Nat PROVE Minus(a, b) \in Nat
<1>1. Modulus \in Nat \ {0} BY PacingAssumption
<1> QED BY <1>1 DEF Minus

(* A difference that does not wrap.                                        *)
LEMMA MinusSmall ==
    ASSUME NEW a \in 0 .. MaxTime, NEW b \in 0 .. MaxTime, b <= a
    PROVE  Minus(a, b) = a - b
<1>1. Modulus \in Nat \ {0} /\ MaxTime \in Nat /\ MaxTime < Modulus BY PacingAssumption
<1>2. a - b \in 0 .. Modulus - 1 BY <1>1
<1>3. ASSUME NEW x \in 0 .. Modulus - 1 PROVE x % Modulus = x
  BY <1>1, <1>3
<1> QED BY <1>2, <1>3 DEF Minus

LEMMA CursorType ==
    ASSUME NEW t \in Nat PROVE CursorAt(t) \in Nat /\ IndexAt(t) \in Nat
<1>1. GrainPeriod \in Nat \ {0} /\ ReadDelay \in Nat BY PacingAssumption
<1>2. ASSUME NEW x \in Nat PROVE x \div GrainPeriod \in Nat
  BY <1>1
<1>3. Larger(t - ReadDelay, 0) \in Nat BY <1>1 DEF Larger
<1> QED BY <1>2, <1>3 DEF CursorAt, IndexAt

LEMMA TimeType ==
    ASSUME NEW i \in Nat PROVE Deadline(i) \in Nat /\ GrainTime(i) \in Nat
BY PacingAssumption DEF Deadline, GrainTime

LEMMA CheckedType ==
    ASSUME NEW l \in LimiterType, NEW t \in Nat, NEW kind \in {kTooEarly, kTooLate},
           NEW i \in Nat
    PROVE  Checked(l, t, kind, i) \in LimiterType
BY DEF Checked, LimiterType

LEMMA ExtendedType ==
    ASSUME NEW k \in StreakType, NEW t \in Nat, NEW kind \in {kTooEarly, kTooLate},
           NEW i \in Nat, NEW lines
    PROVE  Extended(k, t, kind, i, lines) \in StreakType
<1> DEFINE states == {kTooEarly, kTooLate, kNone} \X Nat
<1>2. <<kind, i>> \in states OBVIOUS
<1>3. /\ k.state \in states /\ k.since \in Nat /\ k.last \in Nat /\ k.events \in Nat
      /\ k.unsaid \in Nat
  BY DEF StreakType
<1> HIDE DEF states
<1>4. CASE k.state # <<kind, i>>
  BY <1>2, <1>4 DEF Extended, StreakType, states
<1>5. CASE k.state = <<kind, i>>
  BY <1>3, <1>5 DEF Extended, StreakType, states
<1> QED BY <1>4, <1>5

-----------------------------------------------------------------------------
LEMMA LimiterNames ==
    /\ PtsOffset \in Limiters
    /\ \A s \in Streams : RetryOf(s) \in Limiters /\ LatencyOf(s) \in Limiters
    /\ \A s, r \in Streams : /\ RetryOf(s) # LatencyOf(r) /\ RetryOf(s) # PtsOffset
                             /\ LatencyOf(s) # PtsOffset
                             /\ RetryOf(s) = RetryOf(r) => s = r
BY DEF Limiters, RetryOf, LatencyOf, PtsOffset

LEMMA NoStreakType == NoStreak \in StreakType
BY DEF NoStreak, StreakType

LEMMA RecoveredType == ASSUME NEW l \in LimiterType PROVE Recovered(l) \in LimiterType
BY DEF Recovered, LimiterType

(* The parts of the type invariant that the limiters do not concern.       *)
LoopType ==
    /\ now \in 0 .. MaxTime
    /\ head \in [Streams -> Nat]
    /\ pc \in [Streams -> {"off", "top", "reading", "push", "adjusted"}]
    /\ index \in [Streams -> Nat]
    /\ start \in [Streams -> Nat] /\ timeout \in [Streams -> Nat]
    /\ stamp \in [Streams -> Nat] /\ highest \in [Streams -> Int]
    /\ fixes \in [paced : BOOLEAN, limited : BOOLEAN]
LogType ==
    /\ limiter \in [Limiters -> LimiterType]
    /\ streak \in [Limiters -> StreakType]

LEMMA LoopTypeHolds == SinkSpec => []LoopType
<1> USE PacingAssumption DEF LoopType
<1>1. SinkInit => LoopType
  BY DEF SinkInit
<1>2. LoopType /\ [SinkNext]_sinkVars => LoopType'
  <2> SUFFICES ASSUME LoopType, [SinkNext]_sinkVars PROVE LoopType'
    OBVIOUS
  <2>1. CASE Tick BY <2>1 DEF Tick
  <2>2. CASE StartSink(AllFixes)
    <3>1. now \in Nat /\ CursorAt(now) \in Nat /\ IndexAt(now) \in Nat
      BY CursorType
    <3>2. GrainTime(IndexAt(now) - CursorAt(now)) \in Int
      BY <3>1 DEF GrainTime
    <3> QED BY <2>2, <3>1, <3>2 DEF StartSink, AllFixes
  <2>3. ASSUME NEW s \in Streams, Publish(s) PROVE LoopType'
    <3>1. IndexAt(now) \in Nat BY CursorType
    <3> QED BY <2>3, <3>1 DEF Publish, Smaller
  <2>4. ASSUME NEW s \in Streams, Iterate(s) PROVE LoopType'
    <3>1. Deadline(index[s]) \in Nat BY TimeType
    <3> QED BY <2>4, <3>1, RetryBound DEF Iterate
  <2>5. ASSUME NEW s \in Streams, ReadGrain(s) PROVE LoopType'
    <3>1. GrainTime(index[s]) \in Nat BY TimeType
    <3>2. Larger(now - GrainTime(index[s]), 0) \in Int BY <3>1 DEF Larger
    <3>3. highest'= [highest EXCEPT ![s] = Larger(@, Larger(now - GrainTime(index[s]), 0))]
      BY <2>5 DEF ReadGrain
    <3>4. highest' \in [Streams -> Int] BY <3>2, <3>3 DEF Larger
    <3> QED BY <2>5, <3>4 DEF ReadGrain, ReadReturns
  <2>6. ASSUME NEW s \in Streams, TooEarly(s) PROVE LoopType'
    BY <2>6 DEF TooEarly, Fails, ReadReturns
  <2>7. ASSUME NEW s \in Streams, TooLate(s) PROVE LoopType'
    <3>1. CursorAt(start[s]) \in Nat BY CursorType
    <3> QED BY <2>7, <3>1 DEF TooLate, Fails, ReadReturns
  <2>8. ASSUME NEW s \in Streams, PushBuffer(s) PROVE LoopType'
    BY <2>8 DEF PushBuffer, Advance
  <2>9. ASSUME NEW s \in Streams, AdjustOffset(s) PROVE LoopType'
    BY <2>9 DEF AdjustOffset
  <2>10. ASSUME NEW s \in Streams, LogOffset(s) PROVE LoopType'
    BY <2>10 DEF LogOffset, Advance
  <2>11. CASE UNCHANGED sinkVars BY <2>11 DEF sinkVars
  <2> QED
    BY <2>1, <2>2, <2>3, <2>4, <2>5, <2>6, <2>7, <2>8, <2>9, <2>10, <2>11
    DEF SinkNext, Thread
<1> QED BY <1>1, <1>2, PTL DEF SinkSpec

LEMMA LogTypeHolds == SinkSpec => []LogType
<1> USE DEF LogType
<1>1. SinkInit => LogType
  BY NoStreakType DEF SinkInit, NewLimiter, LimiterType, kTooEarly
<1>2. LoopType /\ LogType /\ [SinkNext]_sinkVars => LogType'
  <2> SUFFICES ASSUME LoopType, LogType, [SinkNext]_sinkVars PROVE LogType'
    OBVIOUS
  <2>0. now \in Nat BY PacingAssumption DEF LoopType
  <2>k. 0 \in {kTooEarly, kTooLate} /\ 1 \in {kTooEarly, kTooLate}
        /\ kTooEarly \in {kTooEarly, kTooLate} /\ kTooLate \in {kTooEarly, kTooLate}
    BY DEF kTooEarly, kTooLate
  <2>1. ASSUME NEW s \in Streams, ReadGrain(s) PROVE LogType'
    <3>1. \A l \in Limiters :
             /\ Recovered(limiter[l]) \in LimiterType
             /\ Checked(limiter[l], now, 0, 0) \in LimiterType
             /\ \A lines : Extended(streak[l], now, 0, 0, lines) \in StreakType
      BY <2>0, <2>k, RecoveredType, CheckedType, ExtendedType
    <3>2. RetryOf(s) \in Limiters /\ LatencyOf(s) \in Limiters
          /\ RetryOf(s) # LatencyOf(s)
      BY LimiterNames
    <3> QED BY <2>1, <3>1, <3>2, NoStreakType DEF ReadGrain
  <2>2. ASSUME NEW s \in Streams, NEW kind \in {kTooEarly, kTooLate}, NEW i \in Nat,
               Fails(s, kind, i)
        PROVE  LogType'
    <3>1. \A l \in Limiters :
             /\ Checked(limiter[l], now, kind, i) \in LimiterType
             /\ \A lines : Extended(streak[l], now, kind, i, lines) \in StreakType
      BY <2>0, CheckedType, ExtendedType
    <3> QED BY <2>2, <3>1 DEF Fails
  <2>3. ASSUME NEW s \in Streams, LogOffset(s) PROVE LogType'
    <3>1. stamp[s] \in Nat BY DEF LoopType
    <3>2. \A l \in Limiters :
             /\ Checked(limiter[l], stamp[s], 0, 0) \in LimiterType
             /\ \A lines : Extended(streak[l], stamp[s], 0, 0, lines) \in StreakType
      BY <2>k, <3>1, CheckedType, ExtendedType
    <3> QED BY <2>3, <3>2 DEF LogOffset
  <2>4. ASSUME NEW s \in Streams, TooEarly(s) \/ TooLate(s) PROVE LogType'
    <3>1. index[s] \in Nat /\ 0 \in Nat BY DEF LoopType
    <3> QED BY <2>2, <2>4, <2>k, <3>1 DEF TooEarly, TooLate
  <2>5. CASE UNCHANGED <<limiter, streak>> BY <2>5
  <2> QED
    BY <2>1, <2>3, <2>4, <2>5
    DEF SinkNext, Thread, Tick, StartSink, Publish, Iterate, PushBuffer, AdjustOffset,
        sinkVars
<1> QED BY <1>1, <1>2, LoopTypeHolds, PTL DEF SinkSpec

(* The variables keep their types.                                         *)
THEOREM SinkType == SinkSpec => []SinkTypeOK
<1>1. LoopType /\ LogType => SinkTypeOK
  BY DEF LoopType, LogType, SinkTypeOK
<1> QED BY <1>1, LoopTypeHolds, LogTypeHolds, PTL

-----------------------------------------------------------------------------
(* What a limiter remembers is what the history says: that is why its      *)
(* decisions and the numbers it prints can be trusted.                     *)
Mirrors(l, k) ==
    /\ l.active => /\ k.state = <<l.kind, l.index>>
                   /\ k.since = l.firstSeen
                   /\ k.last = l.lastSummary
    /\ ~l.active => k.state = <<kNone, 0>> /\ l.suppressed = 0
    /\ k.unsaid = l.suppressed

LEMMA CheckedMirrors ==
    ASSUME NEW l \in LimiterType, NEW k \in StreakType, Mirrors(l, k),
           NEW t \in Nat, NEW kind \in {kTooEarly, kTooLate}, NEW i \in Nat, NEW lines,
           lines = {} <=> Decision(l, t, kind, i) = "Suppress"
    PROVE  Mirrors(Checked(l, t, kind, i), Extended(k, t, kind, i, lines))
<1>1. CASE ~l.active
  <2>1. Decision(l, t, kind, i) = "FirstOccurrence" BY <1>1 DEF Decision
  <2>2. k.state # <<kind, i>> BY <1>1 DEF Mirrors, kNone, kTooEarly, kTooLate
  <2> QED BY <2>1, <2>2 DEF Mirrors, Checked, Extended
<1>2. CASE l.active /\ (kind # l.kind \/ i # l.index)
  <2>1. Decision(l, t, kind, i) = "FirstOccurrence" BY <1>2 DEF Decision
  <2>2. k.state # <<kind, i>> BY <1>2 DEF Mirrors
  <2> QED BY <2>1, <2>2 DEF Mirrors, Checked, Extended
<1>3. CASE l.active /\ kind = l.kind /\ i = l.index
  <2>1. k.state = <<kind, i>> BY <1>3 DEF Mirrors
  <2>2. CASE Minus(t, l.lastSummary) >= Interval
    <3>1. Decision(l, t, kind, i) = "PeriodicSummary" BY <1>3, <2>2 DEF Decision
    <3> QED BY <1>3, <2>1, <3>1 DEF Mirrors, Checked, Extended, LimiterType
  <2>3. CASE ~(Minus(t, l.lastSummary) >= Interval)
    <3>1. Decision(l, t, kind, i) = "Suppress" BY <1>3, <2>3 DEF Decision
    <3> QED BY <1>3, <2>1, <3>1 DEF Mirrors, Checked, Extended, LimiterType
  <2> QED BY <2>2, <2>3
<1> QED BY <1>1, <1>2, <1>3

LEMMA RecoveredMirrors ==
    ASSUME NEW l \in LimiterType PROVE Mirrors(Recovered(l), NoStreak)
BY DEF Mirrors, Recovered, NoStreak, LimiterType

(* A sink that runs has every fix, and its lines are the limiter's.        *)
LogMirrors ==
    /\ \A s \in Streams : pc[s] # "off" => fixes = AllFixes
    /\ \A l \in Limiters : Mirrors(limiter[l], streak[l])
    /\ \A l \in Limiters : streak[l].since <= now /\ streak[l].last <= now
    /\ \A s \in Streams : stamp[s] <= now

LEMMA PrintedUnlessSuppressed ==
    ASSUME fixes = AllFixes, NEW name, NEW t, NEW kind, NEW i
    PROVE  Printed(name, t, kind, i) = {} <=> Decision(limiter[name], t, kind, i) = "Suppress"
BY DEF Printed, AllFixes

LEMMA ExtendedTimes ==
    ASSUME NEW k \in StreakType, NEW t \in Nat, NEW u \in Nat, t <= u,
           k.since <= u, k.last <= u, NEW kind, NEW i, NEW lines
    PROVE  Extended(k, t, kind, i, lines).since <= u
           /\ Extended(k, t, kind, i, lines).last <= u
BY DEF Extended

LEMMA LogMirrorsHolds == SinkSpec => []LogMirrors
<1>1. SinkInit => LogMirrors
  BY DEF SinkInit, LogMirrors, Mirrors, NewLimiter, NoStreak
<1>2. LoopType /\ LogType /\ LogMirrors /\ [SinkNext]_sinkVars => LogMirrors'
  <2> SUFFICES ASSUME LoopType, LogType, LogMirrors, [SinkNext]_sinkVars
               PROVE LogMirrors'
    OBVIOUS
  <2>0. now \in Nat BY PacingAssumption DEF LoopType
  <2>k. 0 \in {kTooEarly, kTooLate} /\ kTooEarly \in {kTooEarly, kTooLate}
        /\ kTooLate \in {kTooEarly, kTooLate}
    BY DEF kTooEarly, kTooLate
  <2>1. CASE Tick BY <2>0, <2>1 DEF Tick, LogMirrors, LogType, LoopType, StreakType
  <2>2. CASE StartSink(AllFixes) BY <2>2 DEF StartSink, LogMirrors
  <2>3. ASSUME NEW s \in Streams, ReadGrain(s) PROVE LogMirrors'
    <3> DEFINE latency == Larger(now - GrainTime(index[s]), 0)
               rises == latency > highest[s]
               lines == IF rises THEN Printed(LatencyOf(s), now, 0, 0) ELSE {}
    <3>1. /\ fixes = AllFixes /\ pc[s] = "reading"
          /\ limiter' = [limiter EXCEPT
                ![RetryOf(s)] = Recovered(@),
                ![LatencyOf(s)] = IF rises THEN Checked(@, now, 0, 0) ELSE @]
          /\ streak' = [streak EXCEPT
                ![RetryOf(s)] = NoStreak,
                ![LatencyOf(s)] = IF rises THEN Extended(@, now, 0, 0, lines) ELSE @]
          /\ pc' = [pc EXCEPT ![s] = "push"] /\ UNCHANGED <<now, stamp, fixes>>
      BY <2>3 DEF ReadGrain, LogMirrors
    <3>2. RetryOf(s) \in Limiters /\ LatencyOf(s) \in Limiters
          /\ RetryOf(s) # LatencyOf(s)
      BY LimiterNames
    <3>3. rises => Mirrors(Checked(limiter[LatencyOf(s)], now, 0, 0),
                           Extended(streak[LatencyOf(s)], now, 0, 0, lines))
      BY <2>0, <2>k, <3>1, <3>2, CheckedMirrors, PrintedUnlessSuppressed
      DEF LogType, LogMirrors
    <3>4. Mirrors(Recovered(limiter[RetryOf(s)]), NoStreak)
      BY <3>2, RecoveredMirrors DEF LogType
    <3>5. /\ Extended(streak[LatencyOf(s)], now, 0, 0, lines).since <= now
          /\ Extended(streak[LatencyOf(s)], now, 0, 0, lines).last <= now
      <4> HIDE DEF rises, lines
      <4>1. /\ streak[LatencyOf(s)] \in StreakType
            /\ streak[LatencyOf(s)].since <= now /\ streak[LatencyOf(s)].last <= now
        BY <3>2 DEF LogType, LogMirrors
      <4> QED BY <2>0, <4>1, ExtendedTimes
    <3> HIDE DEF rises, lines
    <3>6. \A l \in Limiters : Mirrors(limiter'[l], streak'[l])
      BY <3>1, <3>2, <3>3, <3>4 DEF LogType, LogMirrors
    <3>7. \A l \in Limiters : streak'[l].since <= now' /\ streak'[l].last <= now'
      BY <2>0, <3>1, <3>2, <3>5 DEF LogType, LogMirrors, NoStreak
    <3> QED BY <3>1, <3>6, <3>7 DEF LogMirrors, LoopType
  <2>4. ASSUME NEW s \in Streams, pc[s] = "reading",
               NEW kind \in {kTooEarly, kTooLate}, NEW i \in Nat, Fails(s, kind, i)
        PROVE  LogMirrors'
    <3> DEFINE lines == Printed(RetryOf(s), now, kind, i)
    <3>1. /\ fixes = AllFixes
          /\ limiter' = [limiter EXCEPT ![RetryOf(s)] = Checked(@, now, kind, i)]
          /\ streak' = [streak EXCEPT ![RetryOf(s)] = Extended(@, now, kind, i, lines)]
          /\ pc' = [pc EXCEPT ![s] = "top"] /\ UNCHANGED <<now, stamp, fixes>>
      BY <2>4 DEF Fails, LogMirrors
    <3>2. RetryOf(s) \in Limiters BY LimiterNames
    <3>3. Mirrors(Checked(limiter[RetryOf(s)], now, kind, i),
                  Extended(streak[RetryOf(s)], now, kind, i, lines))
      BY <2>0, <3>1, <3>2, CheckedMirrors, PrintedUnlessSuppressed DEF LogType, LogMirrors
    <3>4. /\ Extended(streak[RetryOf(s)], now, kind, i, lines).since <= now
          /\ Extended(streak[RetryOf(s)], now, kind, i, lines).last <= now
      <4> HIDE DEF lines
      <4>1. /\ streak[RetryOf(s)] \in StreakType
            /\ streak[RetryOf(s)].since <= now /\ streak[RetryOf(s)].last <= now
        BY <3>2 DEF LogType, LogMirrors
      <4> QED BY <2>0, <4>1, ExtendedTimes
    <3> HIDE DEF lines
    <3>5. \A l \in Limiters : Mirrors(limiter'[l], streak'[l])
      BY <3>1, <3>2, <3>3 DEF LogType, LogMirrors
    <3>6. \A l \in Limiters : streak'[l].since <= now' /\ streak'[l].last <= now'
      BY <2>0, <3>1, <3>2, <3>4 DEF LogType, LogMirrors
    <3> QED BY <3>1, <3>5, <3>6 DEF LogMirrors, LoopType
  <2>5. ASSUME NEW s \in Streams, TooEarly(s) \/ TooLate(s) PROVE LogMirrors'
    <3>1. index[s] \in Nat /\ 0 \in Nat BY DEF LoopType
    <3> QED BY <2>4, <2>5, <2>k, <3>1 DEF TooEarly, TooLate
  <2>6. ASSUME NEW s \in Streams, LogOffset(s) PROVE LogMirrors'
    <3> DEFINE lines == Printed(PtsOffset, stamp[s], 0, 0)
    <3>1. /\ fixes = AllFixes
          /\ limiter' = [limiter EXCEPT ![PtsOffset] = Checked(@, stamp[s], 0, 0)]
          /\ streak' = [streak EXCEPT ![PtsOffset] = Extended(@, stamp[s], 0, 0, lines)]
          /\ stamp' = [stamp EXCEPT ![s] = 0]
          /\ pc' = [pc EXCEPT ![s] = "top"] /\ UNCHANGED <<now, fixes>>
      BY <2>6 DEF LogOffset, Advance, LogMirrors
    <3>2. PtsOffset \in Limiters /\ stamp[s] \in Nat /\ stamp[s] <= now
      BY LimiterNames DEF LoopType, LogMirrors
    <3>3. Mirrors(Checked(limiter[PtsOffset], stamp[s], 0, 0),
                  Extended(streak[PtsOffset], stamp[s], 0, 0, lines))
      BY <2>k, <3>1, <3>2, CheckedMirrors, PrintedUnlessSuppressed DEF LogType, LogMirrors
    <3>4. /\ Extended(streak[PtsOffset], stamp[s], 0, 0, lines).since <= now
          /\ Extended(streak[PtsOffset], stamp[s], 0, 0, lines).last <= now
      <4> HIDE DEF lines
      <4>1. /\ streak[PtsOffset] \in StreakType
            /\ streak[PtsOffset].since <= now /\ streak[PtsOffset].last <= now
        BY <3>2 DEF LogType, LogMirrors
      <4> QED BY <2>0, <3>2, <4>1, ExtendedTimes
    <3> HIDE DEF lines
    <3>5. \A l \in Limiters : Mirrors(limiter'[l], streak'[l])
      BY <3>1, <3>2, <3>3 DEF LogType, LogMirrors
    <3>6. \A l \in Limiters : streak'[l].since <= now' /\ streak'[l].last <= now'
      BY <2>0, <3>1, <3>2, <3>4 DEF LogType, LogMirrors
    <3> QED BY <2>0, <3>1, <3>5, <3>6 DEF LogMirrors, LoopType
  <2>7. ASSUME NEW s \in Streams, AdjustOffset(s) PROVE LogMirrors'
    BY <2>0, <2>7 DEF AdjustOffset, LogMirrors, LoopType
  <2>8. ASSUME NEW s \in Streams, Iterate(s) \/ PushBuffer(s) PROVE LogMirrors'
    BY <2>8 DEF Iterate, PushBuffer, Advance, LogMirrors, LoopType
  <2>9. CASE UNCHANGED <<now, pc, fixes, limiter, streak, stamp>>
    BY <2>9 DEF LogMirrors
  <2> QED
    BY <2>1, <2>2, <2>3, <2>5, <2>6, <2>7, <2>8, <2>9
    DEF SinkNext, Thread, Publish, sinkVars
<1> QED BY <1>1, <1>2, LoopTypeHolds, LogTypeHolds, PTL DEF SinkSpec

(* No successful read forgets suppressed lines.                            *)
THEOREM SuppressedLinesReported == SinkSpec => SuppressedIsReported
<1> DEFINE Reported ==
      \A s \in Streams :
          ReadGrain(s) /\ streak[RetryOf(s)].unsaid > 0
             => \E line \in log' : line.by = RetryOf(s) /\ line.what = "Recovery"
<1>1. ASSUME LogType, LogMirrors, NEW s \in Streams, ReadGrain(s),
             streak[RetryOf(s)].unsaid > 0
      PROVE  \E line \in log' : line.by = RetryOf(s) /\ line.what = "Recovery"
  <2>1. RetryOf(s) \in Limiters BY LimiterNames
  <2>2. limiter[RetryOf(s)].active /\ limiter[RetryOf(s)].suppressed > 0
    BY <1>1, <2>1 DEF LogMirrors, Mirrors, LogType, LimiterType
  <2>3. Line(RetryOf(s), "Recovery", now) \in log'
    BY <1>1, <2>2 DEF ReadGrain
  <2> QED BY <2>3 DEF Line
<1>2. LogType /\ LogMirrors => Reported
  BY <1>1
<1>3. SuppressedIsReported <=> [][Reported]_sinkVars
  BY DEF SuppressedIsReported
<1> HIDE DEF Reported
<1> QED BY <1>2, <1>3, LogTypeHolds, LogMirrorsHolds, PTL

-----------------------------------------------------------------------------
(* What a call site prints about the state <<kind, i>>.                    *)
TrueLine(line, name, k, state) ==
    /\ line.by = name
    /\ \/ line.what = "FirstOccurrence" /\ k.state # state
       \/ /\ line.what = "PeriodicSummary"
          /\ line.suppressed = k.unsaid
          /\ name # PtsOffset => /\ line.at - k.last >= Interval
                                 /\ line.duration = line.at - k.since

LEMMA PrintedIsTrue ==
    ASSUME LoopType, LogType, LogMirrors, fixes = AllFixes, NEW name \in Limiters,
           NEW t \in 0 .. now, name # PtsOffset => t = now,
           NEW kind \in {kTooEarly, kTooLate}, NEW i \in Nat,
           NEW line \in Printed(name, t, kind, i)
    PROVE  TrueLine(line, name, streak[name], <<kind, i>>)
<1> DEFINE l == limiter[name]
           k == streak[name]
           what == Decision(l, t, kind, i)
<1>1. line = Line(name, what, t) /\ what # "Suppress"
  BY DEF Printed, AllFixes
<1>2. /\ line.by = name /\ line.what = what /\ line.at = t
      /\ line.suppressed = l.suppressed /\ line.duration = Minus(t, l.firstSeen)
  BY <1>1 DEF Line
<1>3. Mirrors(l, k) /\ k.since <= now /\ k.last <= now BY DEF LogMirrors
<1>4. l.firstSeen \in Nat /\ l.lastSummary \in Nat /\ k.since \in Nat /\ k.last \in Nat
      /\ now \in 0 .. MaxTime /\ MaxTime \in Nat
  BY PacingAssumption DEF LogType, LimiterType, StreakType, LoopType
<1>5. CASE what = "FirstOccurrence"
  <2>1. ~l.active \/ kind # l.kind \/ i # l.index BY <1>5 DEF Decision
  <2>2. k.state # <<kind, i>>
    BY <1>3, <2>1 DEF Mirrors, kNone, kTooEarly, kTooLate
  <2> QED BY <1>2, <1>5, <2>2 DEF TrueLine
<1>6. CASE what = "PeriodicSummary"
  <2>1. l.active /\ Minus(t, l.lastSummary) >= Interval BY <1>6 DEF Decision
  <2>2. k.since = l.firstSeen /\ k.last = l.lastSummary /\ k.unsaid = l.suppressed
    BY <1>3, <2>1 DEF Mirrors
  <2>3. l.firstSeen \in 0 .. MaxTime /\ l.lastSummary \in 0 .. MaxTime /\ t \in 0 .. MaxTime
    BY <1>3, <1>4, <2>2
  <2>4. t >= k.last => t - k.last >= Interval
    BY <1>4, <2>1, <2>2, <2>3, MinusSmall
  <2>5. t >= k.since => Minus(t, l.firstSeen) = t - k.since
    BY <1>4, <2>2, <2>3, MinusSmall
  <2>6. name # PtsOffset => t >= k.last /\ t >= k.since BY <1>3, <1>4
  <2> QED BY <1>2, <1>6, <2>2, <2>4, <2>5, <2>6 DEF TrueLine
<1> QED BY <1>1, <1>5, <1>6 DEF Decision

LEMMA ExtendedState ==
    ASSUME NEW k, NEW t, NEW kind, NEW i, NEW lines
    PROVE  Extended(k, t, kind, i, lines).state = <<kind, i>>
BY DEF Extended

(* What the lines count is right, and those of a limiter that one thread   *)
(* has to itself are spaced by the interval and right about the time.      *)
THEOREM LinesTrue == SinkSpec => LinesSpacedAndTrue
<1> DEFINE Right(line) ==
      LET k == streak[line.by] IN
      CASE line.what = "FirstOccurrence" -> k.state # streak'[line.by].state
        [] line.what = "PeriodicSummary" ->
              /\ line.suppressed = k.unsaid
              /\ line.by # PtsOffset => /\ line.at - k.last >= Interval
                                        /\ line.duration = line.at - k.since
        [] line.what = "Recovery" ->
              line.suppressed = k.unsaid /\ line.duration = line.at - k.since
<1>1. ASSUME NEW line, NEW name, NEW state, TrueLine(line, name, streak[name], state),
             streak'[name].state = state
      PROVE  Right(line)
  BY <1>1 DEF TrueLine
<1>2. ASSUME LoopType, LogType, LogMirrors, SinkNext
      PROVE  \A line \in log' : Right(line)
  <2> USE <1>2
  <2>0. now \in 0 .. now /\ now \in 0 .. MaxTime
    BY PacingAssumption DEF LoopType
  <2>k. 0 \in {kTooEarly, kTooLate} /\ kTooEarly \in {kTooEarly, kTooLate}
        /\ kTooLate \in {kTooEarly, kTooLate}
    BY DEF kTooEarly, kTooLate
  <2>1. ASSUME NEW s \in Streams, ReadGrain(s), NEW line \in log' PROVE Right(line)
    <3> DEFINE latency == Larger(now - GrainTime(index[s]), 0)
               rises == latency > highest[s]
               lines == IF rises THEN Printed(LatencyOf(s), now, 0, 0) ELSE {}
    <3>1. /\ fixes = AllFixes
          /\ streak' = [streak EXCEPT
                ![RetryOf(s)] = NoStreak,
                ![LatencyOf(s)] = IF rises THEN Extended(@, now, 0, 0, lines) ELSE @]
          /\ \/ /\ line = Line(RetryOf(s), "Recovery", now)
                /\ limiter[RetryOf(s)].active
             \/ rises /\ line \in Printed(LatencyOf(s), now, 0, 0)
      BY <2>1 DEF ReadGrain, LogMirrors
    <3>2. RetryOf(s) \in Limiters /\ LatencyOf(s) \in Limiters
          /\ LatencyOf(s) # PtsOffset /\ RetryOf(s) # LatencyOf(s)
      BY LimiterNames
    <3>3. CASE line = Line(RetryOf(s), "Recovery", now) /\ limiter[RetryOf(s)].active
      <4> DEFINE l == limiter[RetryOf(s)]
                 k == streak[RetryOf(s)]
      <4>1. Mirrors(l, k) /\ k.since <= now BY <3>2 DEF LogMirrors
      <4>2. k.since = l.firstSeen /\ k.unsaid = l.suppressed /\ k.since \in Nat
        BY <3>2, <3>3, <4>1 DEF Mirrors, LogType, StreakType
      <4>3. k.since \in 0 .. MaxTime BY <2>0, <4>1, <4>2, PacingAssumption
      <4>4. Minus(now, l.firstSeen) = now - k.since BY <2>0, <4>1, <4>2, <4>3, MinusSmall
      <4> QED BY <3>3, <4>2, <4>4 DEF Line
    <3>4. CASE rises /\ line \in Printed(LatencyOf(s), now, 0, 0)
      <4>1. TrueLine(line, LatencyOf(s), streak[LatencyOf(s)], <<0, 0>>)
        BY <2>0, <2>k, <3>1, <3>2, <3>4, PrintedIsTrue
      <4>2. streak'[LatencyOf(s)] = Extended(streak[LatencyOf(s)], now, 0, 0, lines)
        BY <3>1, <3>2, <3>4 DEF LogType
      <4>3. streak'[LatencyOf(s)].state = <<0, 0>>
        BY <4>2, ExtendedState
      <4> QED BY <1>1, <4>1, <4>3
    <3> QED BY <3>1, <3>3, <3>4
  <2>2. ASSUME NEW s \in Streams, pc[s] = "reading", NEW kind \in {kTooEarly, kTooLate},
               NEW i \in Nat, Fails(s, kind, i), NEW line \in log'
        PROVE  Right(line)
    <3>1. /\ fixes = AllFixes /\ line \in Printed(RetryOf(s), now, kind, i)
          /\ streak' = [streak EXCEPT ![RetryOf(s)] =
                          Extended(@, now, kind, i, Printed(RetryOf(s), now, kind, i))]
      BY <2>2 DEF Fails, LogMirrors
    <3>2. RetryOf(s) \in Limiters BY LimiterNames
    <3>3. TrueLine(line, RetryOf(s), streak[RetryOf(s)], <<kind, i>>)
      BY <2>0, <3>1, <3>2, PrintedIsTrue
    <3>4. streak'[RetryOf(s)].state = <<kind, i>>
      BY <3>1, <3>2, ExtendedState DEF LogType
    <3> QED BY <1>1, <3>3, <3>4
  <2>3. ASSUME NEW s \in Streams, LogOffset(s), NEW line \in log' PROVE Right(line)
    <3>1. /\ fixes = AllFixes /\ line \in Printed(PtsOffset, stamp[s], 0, 0)
          /\ streak' = [streak EXCEPT ![PtsOffset] =
                          Extended(@, stamp[s], 0, 0, Printed(PtsOffset, stamp[s], 0, 0))]
      BY <2>3 DEF LogOffset, LogMirrors
    <3>2. PtsOffset \in Limiters /\ stamp[s] \in 0 .. now
      BY <2>0, LimiterNames DEF LoopType, LogMirrors
    <3>3. TrueLine(line, PtsOffset, streak[PtsOffset], <<0, 0>>)
      BY <2>k, <3>1, <3>2, PrintedIsTrue
    <3>4. streak'[PtsOffset].state = <<0, 0>>
      BY <3>1, <3>2, ExtendedState DEF LogType
    <3> QED BY <1>1, <3>3, <3>4
  <2>4. ASSUME NEW s \in Streams, TooEarly(s) \/ TooLate(s), NEW line \in log'
        PROVE  Right(line)
    <3>1. index[s] \in Nat /\ 0 \in Nat BY DEF LoopType
    <3> QED BY <2>2, <2>4, <2>k, <3>1 DEF TooEarly, TooLate
  <2>5. CASE log' = {} BY <2>5
  <2> QED
    BY <2>1, <2>3, <2>4, <2>5
    DEF SinkNext, Thread, Tick, StartSink, Publish, Iterate, PushBuffer, AdjustOffset
<1> HIDE DEF Right
<1>3. LoopType /\ LogType /\ LogMirrors /\ [SinkNext]_sinkVars
        => [\A line \in log' : Right(line)]_sinkVars
  BY <1>2
<1>4. LinesSpacedAndTrue <=> [][\A line \in log' : Right(line)]_sinkVars
  BY DEF LinesSpacedAndTrue, Right
<1> QED BY <1>3, <1>4, LoopTypeHolds, LogTypeHolds, LogMirrorsHolds, PTL DEF SinkSpec

-----------------------------------------------------------------------------
(* Where a thread stands in its streak of early reads: each of them waited *)
(* at least MinRetry, because the first one waited for the deadline of its *)
(* grain and every other one started after it.                             *)
EarlyStreak(s) ==
    LET k == streak[RetryOf(s)] IN
    /\ pc[s] \notin {"top", "reading"} => k = NoStreak
    /\ pc[s] = "reading" => start[s] <= now /\ Deadline(index[s]) <= start[s] + timeout[s]
    /\ k.state[1] = kTooEarly =>
          /\ k.state[2] = index[s]
          /\ Deadline(index[s]) <= k.since
          /\ k.since <= now
          /\ pc[s] = "top" => (k.events - 1) * MinRetry <= now - k.since
          /\ pc[s] = "reading" => /\ k.since <= start[s]
                                 /\ (k.events - 1) * MinRetry <= start[s] - k.since
                                 /\ MinRetry <= timeout[s]

LEMMA NoStreakIsNotEarly == NoStreak.state[1] # kTooEarly
BY DEF NoStreak, kNone, kTooEarly

LEMMA EarlyStreakHolds == SinkSpec => [](\A s \in Streams : EarlyStreak(s))
<1>1. SinkInit => \A s \in Streams : EarlyStreak(s)
  BY LimiterNames, NoStreakIsNotEarly DEF SinkInit, EarlyStreak
<1>2. LoopType /\ LogType /\ LogMirrors /\ (\A s \in Streams : EarlyStreak(s))
      /\ [SinkNext]_sinkVars => (\A s \in Streams : EarlyStreak(s))'
  <2> SUFFICES ASSUME LoopType, LogType, LogMirrors, \A s \in Streams : EarlyStreak(s),
                      [SinkNext]_sinkVars, NEW r \in Streams
               PROVE  EarlyStreak(r)'
    OBVIOUS
  <2> DEFINE k == streak[RetryOf(r)]
  <2>0. /\ now \in Nat /\ MinRetry \in Nat \ {0} /\ start[r] \in Nat /\ timeout[r] \in Nat
        /\ index[r] \in Nat /\ Deadline(index[r]) \in Nat
        /\ k.since \in Nat /\ k.events \in Nat
        /\ RetryOf(r) \in Limiters /\ EarlyStreak(r)
    BY PacingAssumption, TimeType, LimiterNames DEF LoopType, LogType, StreakType
  <2>p. (k.events - 1) * MinRetry \in Int BY <2>0
  <2>1. CASE Tick BY <2>0, <2>p, <2>1 DEF Tick, EarlyStreak, Deadline, GrainTime
  <2>2. CASE StartSink(AllFixes)
    <3>1. k = NoStreak /\ streak' = streak /\ pc'[r] = "top"
      BY <2>0, <2>2 DEF StartSink, EarlyStreak, LoopType
    <3> QED BY <3>1, NoStreakIsNotEarly DEF EarlyStreak
  <2>3. ASSUME NEW s \in Streams, Iterate(s) PROVE EarlyStreak(r)'
    <3>1. CASE s # r
      BY <2>0, <2>3, <3>1 DEF Iterate, EarlyStreak, Deadline, GrainTime, LoopType
    <3>2. CASE s = r
      <4>1. /\ pc[r] = "top" /\ pc'[r] = "reading" /\ start'[r] = now
            /\ fixes.paced
            /\ timeout'[r] = IF now < Deadline(index[r]) THEN Deadline(index[r]) - now
                             ELSE TooEarlyRetry
            /\ UNCHANGED <<now, index, streak>>
        BY <2>3, <3>2 DEF Iterate, LoopType, LogMirrors, AllFixes
      <4>2. Deadline(index[r]) <= now + timeout'[r]
        BY <2>0, <4>1, RetryBound
      <4>3. k.state[1] = kTooEarly => MinRetry <= timeout'[r]
        BY <2>0, <4>1, RetryBound DEF EarlyStreak
      <4> QED BY <2>0, <4>1, <4>2, <4>3 DEF EarlyStreak, Deadline, GrainTime
    <3> QED BY <3>1, <3>2
  <2>4. ASSUME NEW s \in Streams, ReadGrain(s) PROVE EarlyStreak(r)'
    <3>1. /\ UNCHANGED <<now, index>> /\ pc[s] = "reading" /\ pc' = [pc EXCEPT ![s] = "push"]
          /\ start' = [start EXCEPT ![s] = 0] /\ timeout' = [timeout EXCEPT ![s] = 0]
      BY <2>4 DEF ReadGrain, ReadReturns
    <3>2. CASE s = r
      <4>1. streak'[RetryOf(r)] = NoStreak
        BY <2>0, <2>4, <3>2, LimiterNames DEF ReadGrain, LogType
      <4> QED BY <3>1, <3>2, <4>1, NoStreakIsNotEarly DEF EarlyStreak, LoopType
    <3>3. CASE s # r
      <4>1. streak'[RetryOf(r)] = k
        BY <2>0, <2>4, <3>3, LimiterNames DEF ReadGrain, LogType
      <4>2. /\ pc'[r] = pc[r] /\ start'[r] = start[r] /\ timeout'[r] = timeout[r]
            /\ index' = index /\ now' = now
        BY <3>1, <3>3 DEF LoopType
      <4> QED BY <2>0, <4>1, <4>2 DEF EarlyStreak, Deadline, GrainTime
    <3> QED BY <3>2, <3>3
  <2>5. ASSUME NEW s \in Streams, NEW kind \in {kTooEarly, kTooLate}, NEW i, s # r,
               Fails(s, kind, i), index'[r] = index[r]
        PROVE  EarlyStreak(r)'
    <3>1. streak'[RetryOf(r)] = k
      BY <2>0, <2>5, LimiterNames DEF Fails, LogType
    <3>2. /\ pc'[r] = pc[r] /\ start'[r] = start[r] /\ timeout'[r] = timeout[r]
          /\ index'[r] = index[r] /\ now' = now
      BY <2>5 DEF Fails, ReadReturns, LoopType
    <3> QED BY <2>0, <3>1, <3>2 DEF EarlyStreak, Deadline, GrainTime
  <2>6. CASE TooEarly(r)
    <3> DEFINE lines == Printed(RetryOf(r), now, kTooEarly, index[r])
               e == Extended(k, now, kTooEarly, index[r], lines)
    <3>1. /\ pc[r] = "reading" /\ pc'[r] = "top" /\ streak'[RetryOf(r)] = e
          /\ UNCHANGED <<now, index>> /\ start[r] + timeout[r] <= now
      BY <2>0, <2>6 DEF TooEarly, Fails, LoopType, LogType
    <3> HIDE DEF lines
    <3>2. Deadline(index[r]) <= now BY <2>0, <3>1 DEF EarlyStreak
    <3>3. CASE k.state # <<kTooEarly, index[r]>>
      <4>1. e.state = <<kTooEarly, index[r]>> /\ e.since = now /\ e.events = 1
        BY <3>3 DEF Extended
      <4> HIDE DEF e
      <4>2. (e.events - 1) * MinRetry = 0 BY <2>0, <4>1
      <4> QED BY <2>0, <3>1, <3>2, <4>1, <4>2 DEF EarlyStreak, Deadline, GrainTime
    <3>4. CASE k.state = <<kTooEarly, index[r]>>
      <4>1. e.state = k.state /\ e.since = k.since /\ e.events = k.events + 1
        BY <3>4 DEF Extended
      <4> HIDE DEF e
      <4>2. k.state[1] = kTooEarly BY <3>4
      <4>3. /\ k.since <= start[r] /\ MinRetry <= timeout[r]
            /\ (k.events - 1) * MinRetry <= start[r] - k.since
            /\ Deadline(index[r]) <= k.since
        BY <3>1, <4>2, <2>0 DEF EarlyStreak
      <4>4. (e.events - 1) * MinRetry = (k.events - 1) * MinRetry + MinRetry
        BY <2>0, <4>1
      <4>5. (e.events - 1) * MinRetry <= now - k.since
        BY <2>0, <2>p, <3>1, <4>3, <4>4
      <4>6. e.state[1] = kTooEarly /\ e.state[2] = index[r] BY <3>4, <4>1
      <4> QED BY <2>0, <3>1, <4>1, <4>3, <4>5, <4>6 DEF EarlyStreak, Deadline, GrainTime
    <3> QED BY <3>3, <3>4
  <2>7. CASE TooLate(r)
    <3> DEFINE lines == Printed(RetryOf(r), now, kTooLate, 0)
    <3>1. /\ pc'[r] = "top"
          /\ streak'[RetryOf(r)] = Extended(k, now, kTooLate, 0, lines)
      BY <2>0, <2>7 DEF TooLate, Fails, LoopType, LogType
    <3>2. streak'[RetryOf(r)].state = <<kTooLate, 0>> BY <3>1, ExtendedState
    <3>3. streak'[RetryOf(r)].state[1] # kTooEarly BY <3>2 DEF kTooEarly, kTooLate
    <3> QED BY <3>1, <3>3 DEF EarlyStreak
  <2>8. ASSUME NEW s \in Streams, TooEarly(s) \/ TooLate(s) PROVE EarlyStreak(r)'
    <3>1. CASE s = r BY <2>6, <2>7, <2>8, <3>1
    <3>2. CASE s # r
      <4>1. index'[r] = index[r] BY <2>8, <3>2 DEF TooEarly, TooLate, LoopType
      <4>2. \E kind \in {kTooEarly, kTooLate}, i \in Nat : Fails(s, kind, i)
        BY <2>8 DEF TooEarly, TooLate, LoopType
      <4> QED BY <2>5, <3>2, <4>1, <4>2
    <3> QED BY <3>1, <3>2
  <2>9. ASSUME NEW s \in Streams, PushBuffer(s) \/ AdjustOffset(s) \/ LogOffset(s)
        PROVE  EarlyStreak(r)'
    <3>1. streak'[RetryOf(r)] = k
      BY <2>0, <2>9, LimiterNames DEF PushBuffer, AdjustOffset, LogOffset, LogType
    <3>2. CASE s # r
      <4>1. /\ pc'[r] = pc[r] /\ start'[r] = start[r] /\ timeout'[r] = timeout[r]
            /\ index'[r] = index[r] /\ now' = now
        BY <2>9, <3>2 DEF PushBuffer, AdjustOffset, LogOffset, Advance, LoopType
      <4> QED BY <2>0, <3>1, <4>1 DEF EarlyStreak, Deadline, GrainTime
    <3>3. CASE s = r
      <4>1. pc[r] \in {"push", "adjusted"} /\ pc'[r] \in {"top", "adjusted"}
        BY <2>9, <3>3 DEF PushBuffer, AdjustOffset, LogOffset, Advance, LoopType
      <4>2. k = NoStreak BY <2>0, <4>1 DEF EarlyStreak
      <4> QED BY <3>1, <4>1, <4>2, NoStreakIsNotEarly DEF EarlyStreak
    <3> QED BY <3>2, <3>3
  <2>10. CASE UNCHANGED <<now, pc, index, start, timeout, streak>>
    BY <2>0, <2>10 DEF EarlyStreak, Deadline, GrainTime
  <2> QED
    BY <2>1, <2>2, <2>3, <2>4, <2>8, <2>9, <2>10
    DEF SinkNext, Thread, Publish, sinkVars
<1> QED BY <1>1, <1>2, LoopTypeHolds, LogTypeHolds, LogMirrorsHolds, PTL DEF SinkSpec

(* The sink does not spin, for every setting of the retry interval.        *)
THEOREM SinkNeverSpins == SinkSpec => []NeverSpins
<1>1. LoopType /\ LogType /\ (\A s \in Streams : EarlyStreak(s)) => NeverSpins
  <2> SUFFICES ASSUME LoopType, LogType, NEW s \in Streams, EarlyStreak(s),
                      streak[RetryOf(s)].state[1] = kTooEarly
               PROVE  (streak[RetryOf(s)].events - 1) * MinRetry
                         <= now - streak[RetryOf(s)].since
    BY DEF NeverSpins
  <2>1. /\ now \in Nat /\ start[s] \in Nat /\ streak[RetryOf(s)].since \in Nat
        /\ MinRetry \in Nat /\ streak[RetryOf(s)].events \in Nat
    BY LimiterNames, PacingAssumption DEF LoopType, LogType, StreakType
  <2>2. (streak[RetryOf(s)].events - 1) * MinRetry \in Int BY <2>1
  <2>3. pc[s] \in {"top", "reading"} BY NoStreakIsNotEarly DEF EarlyStreak
  <2> QED BY <2>1, <2>2, <2>3 DEF EarlyStreak
<1> QED BY <1>1, LoopTypeHolds, LogTypeHolds, EarlyStreakHolds, PTL

-----------------------------------------------------------------------------
(* The image *)

(* Where the fixes that decide about the sink stand among the steps.       *)
LEMMA StepsOfFixes ==
    /\ 10 \in DOMAIN Steps /\ Steps[10] = Text(SINK_PATH, "iterationTimeoutNs", 2, 0)
    /\ 5 \in DOMAIN Steps /\ Steps[5] = Text(SINK_PATH, "pts_offset_line", 1, 0)
    /\ 8 \in DOMAIN Steps /\ Steps[8] = Text(SINK_PATH, "updateHighestLatency", 1, 0)
    /\ 12 \in DOMAIN Steps /\ Steps[12] = Text(SINK_PATH, "video_retry", 1, 0)
    /\ 15 \in DOMAIN Steps /\ Steps[15] = Text(SINK_PATH, "audio_retry", 1, 0)
<1> HIDE DEF Text, Includes
<1>1. Len(UtilsSteps) = 2 /\ Len(SinkSteps) = 13 BY DEF UtilsSteps, SinkSteps
<1>2. Steps = UtilsSteps \o SinkSteps BY ImageAssumption DEF AllSteps
<1> QED BY <1>1, <1>2 DEF UtilsSteps, SinkSteps

(* A text that a step is applied to has its fix.                           *)
LEMMA AppliedText ==
    ASSUME NEW label, NEW count, NEW text,
           IsApplied(Text(SINK_PATH, label, count, 0), text)
    PROVE  text[New(label)] = count
BY DEF IsApplied, Text

LEMMA PatchedHasFixes ==
    ASSUME AllApplied(disk) PROVE FixesIn(disk[SINK_PATH]) = AllFixes
<1> DEFINE text == disk[SINK_PATH]
<1> HIDE DEF Text
<1>1. \A label, count : Text(SINK_PATH, label, count, 0).path = SINK_PATH
  BY DEF Text
<1>2. /\ IsApplied(Text(SINK_PATH, "iterationTimeoutNs", 2, 0), text)
      /\ IsApplied(Text(SINK_PATH, "pts_offset_line", 1, 0), text)
      /\ IsApplied(Text(SINK_PATH, "updateHighestLatency", 1, 0), text)
      /\ IsApplied(Text(SINK_PATH, "video_retry", 1, 0), text)
      /\ IsApplied(Text(SINK_PATH, "audio_retry", 1, 0), text)
  BY <1>1, StepsOfFixes DEF AllApplied
<1>3. text[New("iterationTimeoutNs")] = 2 BY <1>2, AppliedText
<1>4. \A site \in LogSites : text[New(site)] = 1
  BY <1>2, AppliedText DEF LogSites
<1> QED BY <1>3, <1>4 DEF FixesIn, AllFixes

LEMMA ImageProgress == ImageSpec => [](BuildTypeOK /\ Progress)
<1>1. ImageInit => BuildTypeOK /\ Progress
  BY BuildTypeInit, ProgressInit DEF ImageInit
<1>2. BuildTypeOK /\ Progress /\ [ImageNext]_imageVars => (BuildTypeOK /\ Progress)'
  <2> SUFFICES ASSUME BuildTypeOK, Progress, [ImageNext]_imageVars
               PROVE  BuildTypeOK' /\ Progress'
    OBVIOUS
  <2>1. CASE [BuildNext]_buildVars BY <2>1, BuildTypeStep, ProgressStep
  <2>2. CASE RunImage
    <3>1. context' \in Contexts BY <2>2 DEF RunImage, BuildTypeOK
    <3>2. disk' \in [Paths -> Contents] /\ buffer' = disk' /\ began' = disk'
      BY <2>2, <3>1, CheckoutType DEF RunImage
    <3>3. 1 \in 1 .. Len(Steps) + 1 BY StepFacts
    <3>4. BuildTypeOK' BY <2>2, <3>1, <3>2, <3>3 DEF RunImage, BuildTypeOK
    <3> QED BY <2>2, <3>4 DEF RunImage, Progress
  <2> QED BY <2>1, <2>2 DEF ImageNext, Building, Time, Write, Read, imageVars
<1> QED BY <1>1, <1>2, PTL DEF ImageSpec

(* The sink of an image is the sink of SinkPacing.                         *)
THEOREM ImageImplementsSink == ImageSpec => RunsTheFixedSink
<1>1. ImageInit => SinkInit
  BY DEF ImageInit
<1>2. BuildTypeOK /\ Progress /\ [ImageNext]_imageVars => [SinkNext]_sinkVars
  <2> SUFFICES ASSUME Progress, [ImageNext]_imageVars PROVE [SinkNext]_sinkVars
    OBVIOUS
  <2>1. CASE RunImage
    <3>1. FixesIn(disk[SINK_PATH]) = AllFixes
      BY <2>1, PatchedHasFixes DEF RunImage, Progress
    <3> QED BY <2>1, <3>1 DEF RunImage, SinkNext
  <2>2. CASE Time \/ \E s \in Streams : Write(s) \/ Read(s)
    BY <2>2 DEF Time, Write, Read, SinkNext
  <2>3. CASE UNCHANGED sinkVars BY <2>3
  <2> QED BY <2>1, <2>2, <2>3 DEF ImageNext, Building, imageVars
<1> QED BY <1>1, <1>2, ImageProgress, PTL DEF ImageSpec, SinkSpec, RunsTheFixedSink

(* No sink that was ever built from these scripts spins.                   *)
COROLLARY ImageNeverSpins == ImageSpec => []NeverSpins
BY ImageImplementsSink, SinkNeverSpins, PTL DEF RunsTheFixedSink
=============================================================================
