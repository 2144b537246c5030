----------------------------- MODULE SamplePlan -----------------------------
(***************************************************************************)
(* application/sampling.py: which instants of each shot are to be decoded, *)
(* and for which purposes.  Rates are whole frames per second and the      *)
(* fractions of the code exact quotients.                                  *)
(***************************************************************************)
EXTENDS Shots

CONSTANTS
  SamplesPerShot,   \* config.chromatic.samples_per_shot
  CompositionFps,   \* config.spatial.sample_fps
  MotionFps         \* config.motion.sample_fps

ASSUME RatesAssumption ==
  SamplesPerShot \in Nat \ {0} /\ CompositionFps \in Nat \ {0} /\ MotionFps \in Nat \ {0}

SamplePurpose == {"CHROMATIC", "COMPOSITION", "MOTION", "EVIDENCE"}

COMPOSITION_MIN_SAMPLES == 3
COMPOSITION_MAX_SAMPLES == 60
MOTION_MAX_SAMPLES == 10000

Smaller(a, b) == IF a <= b THEN a ELSE b
Larger(a, b) == IF a >= b THEN a ELSE b

\* frame_duration_ms: 1000 * denominator / numerator, rounded half up, at least 1.
frame_duration_ms(numerator, denominator) ==
  Larger(1, (2000 * denominator + numerator) \div (2 * numerator))

\* Deviation: an instant is only kept inside its shot.
ClampToShot(raw, r, frame) == Smaller(Larger(raw, r.start_ms), r.end_ms - 1)

\* Deviation: two frames away from both cuts, whatever room there is.
ClampToFrames(raw, r, frame) ==
  Smaller(Larger(raw, r.start_ms + 2 * frame), r.end_ms - 2 * frame - 1)

\* _clamp_timestamp: two frames away from both cuts where the shot leaves room.
Clamp(raw, r, frame) ==
  LET from == r.start_ms + 2 * frame  to == r.end_ms - 2 * frame IN
  IF to > from THEN Smaller(Larger(raw, from), to - 1)
  ELSE Smaller(Larger(raw, r.start_ms), r.end_ms - 1)

\* _clamped_count: the rate over the duration, within the limits and never more
\* than the frames there are.
ClampedCount(r, fps, minimum, maximum, frame) ==
  LET estimated == (2 * duration_ms(r) * fps + 1000) \div 2000
      available == Larger(1, duration_ms(r) \div frame)
  IN  Smaller(Smaller(Larger(estimated, minimum), maximum), available)

\* _chromatic_fractions of the duration: 0.2, 0.5, 0.8, or n even parts.
ChromaticTimes(r) ==
  IF SamplesPerShot = 3
  THEN {r.start_ms + (f * duration_ms(r)) \div 10 : f \in {2, 5, 8}}
  ELSE {r.start_ms + (k * duration_ms(r)) \div (SamplesPerShot + 1) : k \in 1..SamplesPerShot}

\* _evenly_spaced: the middles of count equal parts.
EvenTimes(r, count) ==
  {r.start_ms + ((2 * k + 1) * duration_ms(r)) \div (2 * count) : k \in 0..(count - 1)}

\* The raw instants of one purpose, before they are clamped.
RawTimes(r, purpose, frame) ==
  CASE purpose = "CHROMATIC" -> ChromaticTimes(r)
    [] purpose = "COMPOSITION" ->
         EvenTimes(r, ClampedCount(r, CompositionFps, COMPOSITION_MIN_SAMPLES,
                                   COMPOSITION_MAX_SAMPLES, frame))
    [] purpose = "MOTION" ->
         EvenTimes(r, ClampedCount(r, MotionFps, 1, MOTION_MAX_SAMPLES, frame))
    [] purpose = "EVIDENCE" -> {r.start_ms + duration_ms(r) \div 2}

\* _targets_for_shot.
Times(r, purpose, frame) == {Clamp(raw, r, frame) : raw \in RawTimes(r, purpose, frame)}

AllTimes(r, frame) == UNION {Times(r, purpose, frame) : purpose \in SamplePurpose}

Purposes(r, t, frame) == {purpose \in SamplePurpose : t \in Times(r, purpose, frame)}

Request == [shot : Nat \ {0}, requested_ms : Int, purposes : SUBSET SamplePurpose]

\* plan_samples: one request for each instant of each shot, with every purpose it
\* serves.  The list is in the order of the instants, which differ from one
\* another: a set stands for it.
plan_samples(ranges, frame) ==
  UNION {{[shot |-> i, requested_ms |-> t, purposes |-> Purposes(ranges[i], t, frame)]
            : t \in AllTimes(ranges[i], frame)} : i \in 1..Len(ranges)}

=============================================================================
