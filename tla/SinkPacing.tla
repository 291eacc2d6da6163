----------------------------- MODULE SinkPacing -----------------------------
(***************************************************************************)
(* The reading loops of mxl-gst-sink as patch-sink-too-early-pacing.py     *)
(* leaves them: a video and an audio thread that each read one flow grain  *)
(* by grain, retry what is not there yet, realign to what is not there any *)
(* more, and report both through rate limiters; the one limiter they share *)
(* reports the adjustments of the PTS offset.                              *)
(*                                                                         *)
(* Time is counted in ticks from the start of the model.  The code's time  *)
(* stamps are unsigned: only their differences may wrap around.            *)
(***************************************************************************)
EXTENDS Integers, FiniteSets

CONSTANTS
    Streams,      \* the threads, one per flow
    GrainPeriod,  \* ticks from one grain (audio: window) to the next
    ReadDelay,    \* how far in the past the sink reads
    History,      \* grains a flow keeps
    MinRetry,     \* kMinRetryNs, 1 ms
    Second,       \* ticks of a second
    Modulus,      \* 2^64 in the code
    RetryEnv,     \* MXL_GST_TOO_EARLY_RETRY_NS, a number or Unset
    RateEnv,      \* MXL_GST_LOG_RATE_LIMIT_SECONDS, a number or Unset
    Unset,        \* unset, empty or malformed
    MaxTime,      \* bound: the clock stops here
    LastHead,     \* bound: the last grain each flow publishes
    LastGrain     \* bound: the last grain each thread reads

ASSUME PacingAssumption ==
    /\ {GrainPeriod, History, MinRetry, Second, Modulus} \subseteq Nat \ {0}
    /\ {ReadDelay, MaxTime} \subseteq Nat
    /\ {LastHead, LastGrain} \subseteq [Streams -> Nat]
    /\ {RetryEnv, RateEnv} \subseteq (0 .. Modulus - 1) \cup {Unset}
    /\ Unset \notin Nat
    /\ MaxTime < Modulus

VARIABLES
    now,       \* the clock of mxlGetTime
    head,      \* the last grain each flow published
    pc,        \* what each thread does next
    index,     \* cursor.requestedIndex()
    start,     \* iterationStartTime, 0 out of its scope
    timeout,   \* iterationTimeoutNs, 0 out of its scope
    stamp,     \* the time taken before _ptsOffsetLogMutex, 0 out of its scope
    highest,   \* _highestLatencyNs
    limiter,   \* the StateRateLimiter instances
    fixes,     \* which of its patches the running sink was built with
    log,       \* the lines printed by the last step
    streak     \* history: for each limiter, the events since its state changed

sinkVars == <<now, head, pc, index, start, timeout, stamp, highest, limiter,
              fixes, log, streak>>

-----------------------------------------------------------------------------
(* Settings *)

Smaller(a, b) == IF a <= b THEN a ELSE b
Larger(a, b) == IF a >= b THEN a ELSE b

(* Mutant: the setting is taken as it is.                                  *)
TooEarlyRetryAsSet == IF RetryEnv = Unset THEN GrainPeriod ELSE RetryEnv

(* resolveTooEarlyRetryNs: the setting, clamped to [1 ms, one period].     *)
TooEarlyRetry ==
    Smaller(Larger(IF RetryEnv = Unset THEN GrainPeriod ELSE RetryEnv, MinRetry),
            Larger(GrainPeriod, MinRetry))

(* resolveLogRateLimitNs: the product is unsigned too.                     *)
Interval == ((IF RateEnv = Unset THEN 10 ELSE RateEnv) * Second) % Modulus

-----------------------------------------------------------------------------
(* StateRateLimiter *)

kTooEarly == 0
kTooLate == 1
kNone == 2  \* no kind of the code's: nothing to report

Minus(a, b) == (a - b) % Modulus

RetryOf(s) == <<"retry", s>>
LatencyOf(s) == <<"latency", s>>
PtsOffset == <<"pts", "all">>
Limiters == {RetryOf(s) : s \in Streams} \cup {LatencyOf(s) : s \in Streams}
            \cup {PtsOffset}

NewLimiter == [active |-> FALSE, kind |-> 0, index |-> 0, firstSeen |-> 0,
               lastSummary |-> 0, suppressed |-> 0]

(* check(), its answer ...                                                 *)
Decision(l, t, kind, i) ==
    IF ~l.active \/ kind # l.kind \/ i # l.index THEN "FirstOccurrence"
    ELSE IF Minus(t, l.lastSummary) >= Interval THEN "PeriodicSummary"
    ELSE "Suppress"

(* Mutant: a summary is not remembered as the last one.                    *)
CheckedKeepingSummary(l, t, kind, i) ==
    CASE Decision(l, t, kind, i) = "FirstOccurrence" ->
            [active |-> TRUE, kind |-> kind, index |-> i, firstSeen |-> t,
             lastSummary |-> t, suppressed |-> 0]
      [] Decision(l, t, kind, i) = "PeriodicSummary" -> l
      [] OTHER -> [l EXCEPT !.suppressed = @ + 1]

(* Mutant: a summary settles what was suppressed.                          *)
CheckedSettling(l, t, kind, i) ==
    CASE Decision(l, t, kind, i) = "FirstOccurrence" ->
            [active |-> TRUE, kind |-> kind, index |-> i, firstSeen |-> t,
             lastSummary |-> t, suppressed |-> 0]
      [] Decision(l, t, kind, i) = "PeriodicSummary" ->
            [l EXCEPT !.lastSummary = t, !.suppressed = 0]
      [] OTHER -> [l EXCEPT !.suppressed = @ + 1]

(* ... and its effect.                                                     *)
Checked(l, t, kind, i) ==
    CASE Decision(l, t, kind, i) = "FirstOccurrence" ->
            [active |-> TRUE, kind |-> kind, index |-> i, firstSeen |-> t,
             lastSummary |-> t, suppressed |-> 0]
      [] Decision(l, t, kind, i) = "PeriodicSummary" -> [l EXCEPT !.lastSummary = t]
      [] OTHER -> [l EXCEPT !.suppressed = @ + 1]

Recovered(l) == [l EXCEPT !.active = FALSE, !.suppressed = 0]

(* A line of the log, with what it says of the past.                       *)
Line(name, what, t) ==
    [by |-> name, what |-> what, at |-> t, suppressed |-> limiter[name].suppressed,
     duration |-> Minus(t, limiter[name].firstSeen)]

(* What a call site prints; without its patch, a line each time.           *)
Printed(name, t, kind, i) ==
    IF ~fixes.limited THEN {Line(name, "FirstOccurrence", t)}
    ELSE IF Decision(limiter[name], t, kind, i) = "Suppress" THEN {}
    ELSE {Line(name, Decision(limiter[name], t, kind, i), t)}

(* The history kept beside a limiter: the state its present run of events  *)
(* is about, when it began, when it last gave rise to a line, how many     *)
(* events it has and how many of them gave no line.                        *)
NoStreak == [state |-> <<kNone, 0>>, since |-> 0, last |-> 0, events |-> 0, unsaid |-> 0]

Extended(k, t, kind, i, lines) ==
    IF k.state # <<kind, i>>
    THEN [state |-> <<kind, i>>, since |-> t, last |-> t, events |-> 1,
          unsaid |-> IF lines = {} THEN 1 ELSE 0]
    ELSE [state |-> k.state, since |-> k.since, last |-> IF lines = {} THEN k.last ELSE t,
          events |-> k.events + 1, unsaid |-> IF lines = {} THEN k.unsaid + 1 ELSE k.unsaid]

-----------------------------------------------------------------------------
(* The flows and the clock *)

GrainTime(i) == i * GrainPeriod
IndexAt(t) == t \div GrainPeriod

(* The upstream cursor: the grain to read at a time, and until when it may *)
(* be delivered.                                                           *)
CursorAt(t) == IndexAt(Larger(t - ReadDelay, 0))
Deadline(i) == GrainTime(i + 1) + ReadDelay

Tick ==
    /\ now < MaxTime
    /\ now' = now + 1
    /\ log' = {}
    /\ UNCHANGED <<head, pc, index, start, timeout, stamp, highest, limiter,
                   fixes, streak>>

(* A writer publishes the next grain, or resumes at the present one.       *)
Publish(s) ==
    /\ \E h \in head[s] + 1 .. Smaller(IndexAt(now), LastHead[s]) :
          head' = [head EXCEPT ![s] = h]
    /\ log' = {}
    /\ UNCHANGED <<now, pc, index, start, timeout, stamp, highest, limiter,
                   fixes, streak>>

-----------------------------------------------------------------------------
(* The threads *)

SinkInit ==
    /\ now = 0
    /\ head = [s \in Streams |-> 0]
    /\ pc = [s \in Streams |-> "off"]
    /\ index = [s \in Streams |-> 0]
    /\ start = [s \in Streams |-> 0]
    /\ timeout = [s \in Streams |-> 0]
    /\ stamp = [s \in Streams |-> 0]
    /\ highest = [s \in Streams |-> 0]
    /\ limiter = [l \in Limiters |-> NewLimiter]
    /\ fixes = [paced |-> FALSE, limited |-> FALSE]
    /\ log = {}
    /\ streak = [l \in Limiters |-> NoStreak]

(* The preamble of run(): the cursor is set to the present grain.          *)
StartSink(built) ==
    /\ \A s \in Streams : pc[s] = "off"
    /\ pc' = [s \in Streams |-> "top"]
    /\ index' = [s \in Streams |-> CursorAt(now)]
    /\ highest' = [s \in Streams |-> GrainTime(IndexAt(now) - CursorAt(now))]
    /\ fixes' = built
    /\ log' = {}
    /\ UNCHANGED <<now, head, start, timeout, stamp, limiter, streak>>

(* Mutant: the deadline is not compared with the present.                  *)
IterateUnguarded(s) ==
    /\ pc[s] = "top"
    /\ index[s] <= LastGrain[s]
    /\ start' = [start EXCEPT ![s] = now]
    /\ timeout' = [timeout EXCEPT ![s] = Deadline(index[s]) - now]
    /\ pc' = [pc EXCEPT ![s] = "reading"]
    /\ log' = {}
    /\ UNCHANGED <<now, head, index, stamp, highest, limiter, fixes, streak>>

(* The top of the loop: how long the read may wait.                        *)
Iterate(s) ==
    /\ pc[s] = "top"
    /\ index[s] <= LastGrain[s]
    /\ start' = [start EXCEPT ![s] = now]
    /\ timeout' = [timeout EXCEPT ![s] =
          IF now < Deadline(index[s]) THEN Deadline(index[s]) - now
          ELSE IF fixes.paced THEN TooEarlyRetry ELSE 0]
    /\ pc' = [pc EXCEPT ![s] = "reading"]
    /\ log' = {}
    /\ UNCHANGED <<now, head, index, stamp, highest, limiter, fixes, streak>>

Expired(s) == index[s] <= head[s] - History
Available(s) == index[s] <= head[s] /\ ~Expired(s)

ReadReturns(s) ==
    /\ start' = [start EXCEPT ![s] = 0]
    /\ timeout' = [timeout EXCEPT ![s] = 0]

(* MXL_STATUS_OK, as soon as the grain is there: the recovery line, then   *)
(* updateHighestLatency with its own limiter.                              *)
ReadGrain(s) ==
    LET retry == RetryOf(s)
        lat == LatencyOf(s)
        latency == Larger(now - GrainTime(index[s]), 0)
        rises == latency > highest[s]
        recovery == IF limiter[retry].active /\ limiter[retry].suppressed > 0
                    THEN {Line(retry, "Recovery", now)} ELSE {}
        increase == IF rises THEN Printed(lat, now, 0, 0) ELSE {}
    IN
    /\ pc[s] = "reading"
    /\ Available(s)
    /\ limiter' = [limiter EXCEPT
          ![retry] = Recovered(@),
          ![lat] = IF rises THEN Checked(@, now, 0, 0) ELSE @]
    /\ streak' = [streak EXCEPT
          ![retry] = NoStreak,
          ![lat] = IF rises THEN Extended(@, now, 0, 0, increase) ELSE @]
    /\ highest' = [highest EXCEPT ![s] = Larger(@, latency)]
    /\ log' = recovery \cup increase
    /\ pc' = [pc EXCEPT ![s] = "push"]
    /\ ReadReturns(s)
    /\ UNCHANGED <<now, head, index, stamp, fixes>>

Fails(s, kind, i) ==
    LET lines == Printed(RetryOf(s), now, kind, i) IN
    /\ limiter' = [limiter EXCEPT ![RetryOf(s)] = Checked(@, now, kind, i)]
    /\ streak' = [streak EXCEPT ![RetryOf(s)] = Extended(@, now, kind, i, lines)]
    /\ log' = lines
    /\ pc' = [pc EXCEPT ![s] = "top"]
    /\ ReadReturns(s)
    /\ UNCHANGED <<now, head, stamp, highest, fixes>>

(* MXL_ERR_OUT_OF_RANGE_TOO_EARLY: the same grain is tried again.          *)
TooEarly(s) ==
    /\ pc[s] = "reading"
    /\ index[s] > head[s]
    /\ now >= start[s] + timeout[s]
    /\ Fails(s, kTooEarly, index[s])
    /\ UNCHANGED index

(* Mutant: the thread ends, like on any other error.                       *)
TooLateIsFatal(s) ==
    /\ pc[s] = "reading"
    /\ Expired(s)
    /\ pc' = [pc EXCEPT ![s] = "off"]
    /\ ReadReturns(s)
    /\ log' = {}
    /\ UNCHANGED <<now, head, index, stamp, highest, limiter, fixes, streak>>

(* MXL_ERR_OUT_OF_RANGE_TOO_LATE: realign to the start of this iteration.  *)
TooLate(s) ==
    /\ pc[s] = "reading"
    /\ Expired(s)
    /\ Fails(s, kTooLate, 0)
    /\ index' = [index EXCEPT ![s] = CursorAt(start[s])]

(* The buffer is pushed, and the cursor moves on.                          *)
Advance(s) ==
    /\ index' = [index EXCEPT ![s] = @ + 1]
    /\ pc' = [pc EXCEPT ![s] = "top"]

PushBuffer(s) ==
    /\ pc[s] = "push"
    /\ Advance(s)
    /\ log' = {}
    /\ UNCHANGED <<now, head, start, timeout, stamp, highest, limiter, fixes, streak>>

(* The buffer was late: this thread wins the compare-exchange on the PTS   *)
(* offset and takes its time stamp ...                                     *)
AdjustOffset(s) ==
    /\ pc[s] = "push"
    /\ stamp' = [stamp EXCEPT ![s] = now]
    /\ pc' = [pc EXCEPT ![s] = "adjusted"]
    /\ log' = {}
    /\ UNCHANGED <<now, head, index, start, timeout, highest, limiter, fixes, streak>>

(* ... but the lock later, so another thread may have come in between.     *)
LogOffset(s) ==
    LET lines == Printed(PtsOffset, stamp[s], 0, 0) IN
    /\ pc[s] = "adjusted"
    /\ limiter' = [limiter EXCEPT ![PtsOffset] = Checked(@, stamp[s], 0, 0)]
    /\ streak' = [streak EXCEPT ![PtsOffset] = Extended(@, stamp[s], 0, 0, lines)]
    /\ log' = lines
    /\ stamp' = [stamp EXCEPT ![s] = 0]
    /\ Advance(s)
    /\ UNCHANGED <<now, head, start, timeout, highest, fixes>>

(* The sink this module is about has every patch; what else might be built *)
(* and started is up to the modules that extend it.                        *)
AllFixes == [paced |-> TRUE, limited |-> TRUE]

Thread(s) == \/ Iterate(s) \/ ReadGrain(s) \/ TooEarly(s) \/ TooLate(s)
             \/ PushBuffer(s) \/ AdjustOffset(s) \/ LogOffset(s)

SinkNext ==
    \/ Tick
    \/ StartSink(AllFixes)
    \/ \E s \in Streams : Publish(s) \/ Thread(s)

SinkSpec == SinkInit /\ [][SinkNext]_sinkVars

(* The clock runs, and so do the threads; nobody has to publish.           *)
SinkFairness == WF_sinkVars(Tick) /\ \A s \in Streams : WF_sinkVars(Thread(s))

SinkFairSpec == SinkSpec /\ SinkFairness

-----------------------------------------------------------------------------
(* Properties *)

LimiterType == [active : BOOLEAN, kind : {kTooEarly, kTooLate}, index : Nat,
                firstSeen : Nat, lastSummary : Nat, suppressed : Nat]
StreakType == [state : {kTooEarly, kTooLate, kNone} \X Nat, since : Nat,
               last : Nat, events : Nat, unsaid : Nat]

SinkTypeOK ==
    /\ now \in 0 .. MaxTime
    /\ head \in [Streams -> Nat]
    /\ pc \in [Streams -> {"off", "top", "reading", "push", "adjusted"}]
    /\ index \in [Streams -> Nat]
    /\ start \in [Streams -> Nat] /\ timeout \in [Streams -> Nat]
    /\ stamp \in [Streams -> Nat] /\ highest \in [Streams -> Int]
    /\ DOMAIN limiter = Limiters /\ DOMAIN streak = Limiters
    /\ \A l \in Limiters : limiter[l] \in LimiterType /\ streak[l] \in StreakType
    /\ fixes \in [paced : BOOLEAN, limited : BOOLEAN]

(* A flow that stays behind costs one failed read for each retry interval, *)
(* however long it stays behind and whatever was read before: the timeout  *)
(* of a read past its deadline is never zero.                              *)
NeverSpins ==
    \A s \in Streams :
        LET k == streak[RetryOf(s)] IN
        k.state[1] = kTooEarly
           => (k.events - 1) * MinRetry <= now - k.since

(* The lines of the log.  Of the events of a streak, the first is printed; *)
(* a summary or a recovery tells how many events went without a line; and  *)
(* where a thread has the limiter to itself, a summary comes an interval   *)
(* after the line before and both tell for how long this has been going on *)
(* (lines 475-517).                                                        *)
LinesSpacedAndTrue ==
    [][\A line \in log' :
          LET k == streak[line.by] IN
          CASE line.what = "FirstOccurrence" -> k.state # streak'[line.by].state
            [] line.what = "PeriodicSummary" ->
                  /\ line.suppressed = k.unsaid
                  /\ line.by # PtsOffset => /\ line.at - k.last >= Interval
                                            /\ line.duration = line.at - k.since
            [] line.what = "Recovery" ->
                  line.suppressed = k.unsaid /\ line.duration = line.at - k.since]_sinkVars

(* What lines 18-22 and 441-442 promise of the limiter two threads share:  *)
(* at most one summary an interval, so that a summary after a summary (the *)
(* first line is the one at since) is an interval away.  It does not hold: *)
(* the time stamp is taken before the lock, and one taken before the last  *)
(* line's counts as an interval of nearly 2^64 ns after it.                *)
SharedSummariesSpaced ==
    [][\A line \in log' :
          LET k == streak[PtsOffset] IN
          line.by = PtsOffset /\ line.what = "PeriodicSummary" /\ k.last > k.since
             => line.at - k.last >= Interval \/ k.last - line.at >= Interval]_sinkVars

(* What a thread leaves unsaid about the state it is in, it reports when   *)
(* it is over: no successful read forgets suppressed lines.                *)
SuppressedIsReported ==
    [][\A s \in Streams :
          ReadGrain(s) /\ streak[RetryOf(s)].unsaid > 0
             => \E line \in log' : line.by = RetryOf(s) /\ line.what = "Recovery"]_sinkVars

(* A sink that came too early goes on trying, and one that came too late   *)
(* finds its way back: whatever a flow has published is read or, where the *)
(* flow does not hold it any more, skipped.                                *)
PublishedIsPassed ==
    \A s \in Streams :
        (pc[s] # "off") ~> (index[s] > Smaller(head[s], LastGrain[s]))
=============================================================================
