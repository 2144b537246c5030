-------------------------- MODULE TensionTimeline --------------------------
(***************************************************************************)
(* The timeline of application/timeline.py: cut, audio and motion activity *)
(* aligned onto one hop (tension.py, normalize.py, cut_activity.py), and   *)
(* the part of it that a client is served (timeline_window.py).  Ratios    *)
(* are thousandths rounded down, weights hundredths.                       *)
(***************************************************************************)
EXTENDS Shots, Ordering

CONSTANTS
  HopMs,           \* config.tension.hop_ms
  CutSigmaMs,      \* config.tension.cut_sigma_ms
  PercentileLow,   \* config.tension.percentile_low
  PercentileHigh,  \* config.tension.percentile_high
  TensionWeights,  \* config.tension.weights, in hundredths
  CloseInverse     \* one over the relative tolerance of math.isclose: 10^9 in the code,
                   \* less where the values are thousandths

ASSUME TensionAssumption ==
  /\ HopMs \in Nat \ {0} /\ CutSigmaMs \in Nat \ {0}
  /\ PercentileLow \in 0..49 /\ PercentileHigh \in 51..100
  /\ TensionWeights \in [cut : 0..100, audio : 0..100, motion : 0..100]
  /\ TensionWeights.cut + TensionWeights.audio + TensionWeights.motion = 100
  /\ CloseInverse \in Nat \ {0}

Unit == 1000
CutReference == 3

clip01(x) == IF x < 0 THEN 0 ELSE IF x > Unit THEN Unit ELSE x

\* window_starts: the last window may be a partial one.
window_starts(duration) ==
  [k \in 1..((duration + HopMs - 1) \div HopMs) |-> (k - 1) * HopMs]

-----------------------------------------------------------------------------
(* Activities.                                                             *)

\* exp(-d^2 / 2) at the half steps of sigma; a distance is rounded down to one.
Kernel == << 1000, 882, 607, 325, 135, 44, 11, 2, 0 >>

Distance(a, b) == IF a >= b THEN a - b ELSE b - a

\* cut_activity: the density of the cuts around an instant.
cut_activity(at, boundaries) ==
  LET near(b) == Kernel[Min({8, (2 * Distance(at, b)) \div CutSigmaMs}) + 1] IN
  clip01(SumFunction([b \in boundaries |-> near(b)]) \div CutReference)

\* The kth smallest of a sequence of numbers.
Ordered(values, k) ==
  values[CHOOSE i \in 1..Len(values) :
           /\ Cardinality({j \in 1..Len(values) : values[j] < values[i]}) < k
           /\ Cardinality({j \in 1..Len(values) : values[j] <= values[i]}) >= k]

\* percentile, times 100: the linear interpolation between two ranks.
percentile(values, q) ==
  LET rank == q * (Len(values) - 1)
      low == rank \div 100
      high == Min({low + 1, Len(values) - 1})
  IN  Ordered(values, low + 1) * (100 - (rank % 100)) + Ordered(values, high + 1) * (rank % 100)

\* robust_normalize: where the percentiles are equal, epsilon is all that is left
\* of the scale and whatever lies above them is at the top.
robust_normalize(values) ==
  LET low == percentile(values, PercentileLow)
      high == percentile(values, PercentileHigh)
      normal(x) == IF high > low THEN clip01((Unit * (100 * x - low)) \div (high - low))
                   ELSE IF 100 * x > low THEN Unit ELSE 0
  IN  [i \in 1..Len(values) |-> normal(values[i])]

\* _audio_activity: the onset strength of a window is its spectral flux, so the
\* flux counts twice.
AudioActivity(windows) ==
  LET flux == robust_normalize([i \in 1..Len(windows) |-> windows[i].flux])
      level == robust_normalize([i \in 1..Len(windows) |-> windows[i].level])
  IN  [i \in 1..Len(windows) |-> (2 * flux[i] + level[i]) \div 3]

MotionSeriesPoint == [at_ms : Nat, shot : Nat \ {0}, global : Nat, residual : Nat]

Mean(S, value(_)) == SumFunction([p \in S |-> value(p)]) \div Cardinality(S)

\* Deviation: the pairs of the window count, whichever their shot.
MotionAtAnyShot(at, shot, series) ==
  LET window == {p \in series : at <= p.at_ms /\ p.at_ms < at + HopMs}
      nearest == CHOOSE p \in series :
                   \A q \in series \ {p} :
                     \/ Distance(p.at_ms, at) < Distance(q.at_ms, at)
                     \/ Distance(p.at_ms, at) = Distance(q.at_ms, at) /\ p.at_ms < q.at_ms
      of == IF window # {} THEN window ELSE IF series # {} THEN {nearest} ELSE {}
  IN  IF of = {} THEN [global |-> 0, residual |-> 0]
      ELSE [global |-> Mean(of, LAMBDA p : p.global), residual |-> Mean(of, LAMBDA p : p.residual)]

\* _motion_at: the mean of the shot's own pairs in the window, or its nearest
\* pair, or nothing.
MotionAt(at, shot, series) ==
  LET own == {p \in series : p.shot = shot}
      window == {p \in own : at <= p.at_ms /\ p.at_ms < at + HopMs}
      nearest == CHOOSE p \in own :
                   \A q \in own \ {p} :
                     \/ Distance(p.at_ms, at) < Distance(q.at_ms, at)
                     \/ Distance(p.at_ms, at) = Distance(q.at_ms, at) /\ p.at_ms < q.at_ms
      of == IF window # {} THEN window ELSE IF own # {} THEN {nearest} ELSE {}
  IN  IF of = {} THEN [global |-> 0, residual |-> 0]
      ELSE [global |-> Mean(of, LAMBDA p : p.global), residual |-> Mean(of, LAMBDA p : p.residual)]

\* _motion_activity.
MotionActivity(raw) ==
  LET global == robust_normalize([i \in 1..Len(raw) |-> raw[i].global])
      residual == robust_normalize([i \in 1..Len(raw) |-> raw[i].residual])
  IN  [i \in 1..Len(raw) |-> (global[i] + residual[i]) \div 2]

-----------------------------------------------------------------------------
(* The tension proxy.                                                      *)

\* Deviation: an unavailable component keeps its share of the total.
WeightsKept(audio_ok, motion_ok) ==
  [cut |-> TensionWeights.cut, audio |-> IF audio_ok THEN TensionWeights.audio ELSE 0,
   motion |-> IF motion_ok THEN TensionWeights.motion ELSE 0, total |-> 100]

\* effective_weights: an unavailable component weighs nothing and the others share
\* the total; without any, the cuts have it all.
effective_weights(audio_ok, motion_ok) ==
  LET audio == IF audio_ok THEN TensionWeights.audio ELSE 0
      motion == IF motion_ok THEN TensionWeights.motion ELSE 0
      total == TensionWeights.cut + audio + motion
  IN  IF total = 0 THEN [cut |-> 1, audio |-> 0, motion |-> 0, total |-> 1]
      ELSE [cut |-> TensionWeights.cut, audio |-> audio, motion |-> motion, total |-> total]

\* combine_tension.
combine_tension(cut, audio, motion, w) ==
  clip01((w.cut * cut + w.audio * audio + w.motion * motion) \div w.total)

\* build_timeline.  windows is one record for each start, or unused.
build_timeline(ranges, series, windows, audio_ok, motion_ok) ==
  LET starts == window_starts(total_ms(ranges))
      silent == [i \in 1..Len(starts) |-> 0]
      weights == effective_weights(audio_ok, motion_ok)
      shot == [i \in 1..Len(starts) |-> shot_index_at(starts[i], ranges)]
      raw == [i \in 1..Len(starts) |-> MotionAt(starts[i], shot[i], series)]
      audio == IF audio_ok THEN AudioActivity(windows) ELSE silent
      motion == IF motion_ok THEN MotionActivity(raw) ELSE silent
      point(i) ==
        LET cut == cut_activity(starts[i], internal_boundary_ms(ranges)) IN
        [at_ms |-> starts[i], shot |-> shot[i], raw |-> raw[i],
         cut |-> cut, audio |-> audio[i], motion |-> motion[i],
         combined |-> combine_tension(cut, audio[i], motion[i], weights)]
  IN  [weights |-> weights, points |-> [i \in 1..Len(starts) |-> point(i)]]

\* The validator of Timeline.
points_are_strictly_increasing(points) ==
  \A i \in 1..(Len(points) - 1) : points[i].at_ms < points[i + 1].at_ms

-----------------------------------------------------------------------------
(* What is read from a timeline.                                           *)

\* Deviation: a peak rises above both its neighbours.
PeaksStrict(points) ==
  LET value(i) == IF i \in 1..Len(points) THEN points[i].combined ELSE -1
      found == {i \in 1..Len(points) : value(i) > value(i - 1) /\ value(i) > value(i + 1) /\ value(i) > 0}
  IN  IF found # {} \/ points = << >> THEN found
      ELSE {CHOOSE i \in 1..Len(points) :
              \A j \in 1..Len(points) \ {i} : value(i) > value(j) \/ (value(i) = value(j) /\ i < j)}

\* math.isclose.
isclose(a, b) == Distance(a, b) * CloseInverse <= (IF a >= b THEN a ELSE b)

\* _peaks: the local maxima, but none that is close to its left neighbour: of a plateau
\* the first point is left, and of a rise within the tolerance perhaps none.  Without
\* any, the first of the highest.
Peaks(points) ==
  LET value(i) == IF i \in 1..Len(points) THEN points[i].combined ELSE -1
      found == {i \in 1..Len(points) :
                  /\ value(i) >= value(i - 1) /\ value(i) >= value(i + 1) /\ value(i) > 0
                  /\ ~(i > 1 /\ isclose(value(i - 1), value(i)))}
  IN  IF found # {} \/ points = << >> THEN found
      ELSE {CHOOSE i \in 1..Len(points) :
              \A j \in 1..Len(points) \ {i} : value(i) > value(j) \/ (value(i) = value(j) /\ i < j)}

MAX_TIMELINE_POINTS == 2000

\* round: a half goes to the even neighbour.
RoundDiv(a, b) ==
  LET floor == a \div b  twice == 2 * (a % b) IN
  IF twice > b \/ (twice = b /\ floor % 2 = 1) THEN floor + 1 ELSE floor

\* The points of a part of the timeline.
Inside(points, start, end) ==
  At(points, {i \in 1..Len(points) : start <= points[i].at_ms /\ points[i].at_ms < end})

\* Deviation: the stride is a whole number of points.
WindowByStep(points, start, end, max) ==
  LET cap == Min({Max({1, max}), MAX_TIMELINE_POINTS})
      selected == Inside(points, start, end)
  IN  IF Len(selected) <= cap THEN selected
      ELSE [i \in 1..cap |-> selected[(i - 1) * (Len(selected) \div cap) + 1]]

\* window_timeline: at most cap points, evenly strided, the ends included.
window_timeline(points, start, end, max) ==
  LET cap == Min({Max({1, max}), MAX_TIMELINE_POINTS})
      selected == Inside(points, start, end)
  IN  IF Len(selected) <= cap THEN selected
      ELSE IF cap = 1 THEN << selected[1] >>
      ELSE [i \in 1..cap |-> selected[RoundDiv((i - 1) * (Len(selected) - 1), cap - 1) + 1]]

=============================================================================
