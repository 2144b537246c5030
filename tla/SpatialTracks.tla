---------------------------- MODULE SpatialTracks ----------------------------
(***************************************************************************)
(* The spatial pillar on one shot: application/spatial_geometry.py,        *)
(* spatial_track.py, spatial_select.py, framing.py and spatial.py.  Image  *)
(* coordinates, confidences and ratios are in hundredths.                  *)
(***************************************************************************)
EXTENDS Ordering

CONSTANTS
  Backend,            \* config.spatial.backend
  PersonConfidence,   \* config.spatial.person_confidence
  TrackIouMin,        \* config.spatial.track_iou_min
  MinTrackCoverage    \* framing_rules.min_track_coverage

ASSUME SpatialAssumption ==
  /\ PersonConfidence \in 0..100 /\ TrackIouMin \in 0..100 /\ MinTrackCoverage \in 0..100

\* The weights of the primary track: coverage, median area, median confidence.
PrimaryTrackWeights == [coverage |-> 45, median_area |-> 35, median_confidence |-> 20]

\* A valid box has an area.
BoxNorm ==
  {b \in [x_min : 0..100, y_min : 0..100, x_max : 0..100, y_max : 0..100] :
     b.x_min < b.x_max /\ b.y_min < b.y_max}

DetectionHit == [class_name : STRING, detector_confidence : 0..100, box : BoxNorm]

Least(a, b) == IF a <= b THEN a ELSE b
Greatest(a, b) == IF a >= b THEN a ELSE b

box_height(b) == b.y_max - b.y_min
box_area(b) == (b.x_max - b.x_min) * (b.y_max - b.y_min)

Intersection(a, b) ==
  Greatest(0, Least(a.x_max, b.x_max) - Greatest(a.x_min, b.x_min))
  * Greatest(0, Least(a.y_max, b.y_max) - Greatest(a.y_min, b.y_min))

\* box_iou as a quotient; a valid box has an area, so the union is not zero.
box_iou(a, b) ==
  [part |-> Intersection(a, b), whole |-> box_area(a) + box_area(b) - Intersection(a, b)]

AtLeast(iou, percent) == 100 * iou.part >= percent * iou.whole
Exceeds(p, q) == p.part * q.whole > q.part * p.whole

-----------------------------------------------------------------------------
(* IoUSubjectTracker.track.                                                *)

\* The hits of one sample that count: persons, confident enough.
Persons(hits) ==
  At(hits, {k \in 1..Len(hits) : /\ hits[k].class_name = "person"
                                 /\ hits[k].detector_confidence >= PersonConfidence})

\* A pair of a live track and a hit comes before another one.
Before(last, hits, p, q) ==
  LET a == box_iou(last[p.track], hits[p.hit].box)
      b == box_iou(last[q.track], hits[q.hit].box)
  IN  \/ Exceeds(a, b)
      \/ /\ ~Exceeds(b, a)
         /\ p.track < q.track \/ (p.track = q.track /\ p.hit < q.hit)

\* Deviation: a track that has its hit may take a second one.
GreedyPerHit(last, hits) ==
  LET Pair == [track : 1..Len(last), hit : 1..Len(hits)]
      chosen[P \in SUBSET Pair] ==
        LET good == {p \in P : AtLeast(box_iou(last[p.track], hits[p.hit].box), TrackIouMin)}
        IN  IF good = {} THEN {}
            ELSE LET p == CHOOSE x \in good :
                            \A y \in good \ {x} : Before(last, hits, x, y)
                 IN  {p} \cup chosen[{q \in good : q.hit # p.hit}]
  IN  chosen[Pair]

\* Deviation: the best pair of a sample is the only one that is taken.
GreedyOnce(last, hits) ==
  LET Pair == [track : 1..Len(last), hit : 1..Len(hits)]
      good == {p \in Pair : AtLeast(box_iou(last[p.track], hits[p.hit].box), TrackIouMin)}
  IN  {p \in good : \A q \in good \ {p} : Before(last, hits, p, q)}

\* The greedy assignment: the best pair first, then the best of the pairs that
\* share neither its track nor its hit, down to the least IoU.
Greedy(last, hits) ==
  LET Pair == [track : 1..Len(last), hit : 1..Len(hits)]
      chosen[P \in SUBSET Pair] ==
        LET good == {p \in P : AtLeast(box_iou(last[p.track], hits[p.hit].box), TrackIouMin)}
        IN  IF good = {} THEN {}
            ELSE LET p == CHOOSE x \in good :
                            \A y \in good \ {x} : Before(last, hits, x, y)
                 IN  {p} \cup chosen[{q \in good : q.track # p.track /\ q.hit # p.hit}]
  IN  chosen[Pair]

\* The hits that no track takes.
Opens(taken, hits) == {h \in 1..Len(hits) : \A p \in taken : p.hit # h}

\* The track of each hit: its own, or the next that is opened.  Track n is the nth
\* to be opened and none is closed.
TrackOf(taken, opens, hits, live) ==
  [h \in 1..Len(hits) |->
     IF h \in opens THEN live + Cardinality({g \in opens : g <= h})
     ELSE (CHOOSE p \in taken : p.hit = h).track]

\* What the tracks know once a sample's hits have their tracks.
Observe(tracks, sample, hits, id, live) ==
  [last |->
     [t \in 1..live |->
        IF \E h \in 1..Len(hits) : id[h] = t
        THEN hits[CHOOSE h \in 1..Len(hits) : id[h] = t].box
        ELSE tracks.last[t]],
   observed |-> tracks.observed \cup
     {[track_id |-> id[h], sample |-> sample, box |-> hits[h].box,
       detector_confidence |-> hits[h].detector_confidence] : h \in 1..Len(hits)}]

WithTaken(tracks, sample, hits, taken, opens) ==
  Observe(tracks, sample, hits, TrackOf(taken, opens, hits, Len(tracks.last)),
          Len(tracks.last) + Cardinality(opens))

TrackHits(tracks, sample, hits, taken) ==
  WithTaken(tracks, sample, hits, taken, Opens(taken, hits))

TrackSample(tracks, sample, hits) ==
  TrackHits(tracks, sample, hits, Greedy(tracks.last, hits))

\* The samples of one shot, in order: identities start again with every shot.
track(hits) ==
  LET after[k \in 0..Len(hits)] ==
        IF k = 0 THEN [last |-> << >>, observed |-> {}]
        ELSE TrackSample(after[k - 1], k, Persons(hits[k]))
  IN  after[Len(hits)].observed

-----------------------------------------------------------------------------
(* CoverageAreaConfidenceSelector.select and the framing estimate.         *)

Members(observed, t) == {o \in observed : o.track_id = t}
Tracks(observed) == {o.track_id : o \in observed}
FramesOf(observed, t) == {o.sample : o \in Members(observed, t)}

\* Twice the median of a quantity over a set of observations.
TwiceMedian(S, value(_)) ==
  LET below(o) == {p \in S : value(p) < value(o)}
      upto(o) == {p \in S : value(p) <= value(o)}
      at(k) == value(CHOOSE o \in S : Cardinality(below(o)) < k /\ k <= Cardinality(upto(o)))
      n == Cardinality(S)
  IN  IF n % 2 = 1 THEN 2 * at((n + 1) \div 2) ELSE at(n \div 2) + at(n \div 2 + 1)

\* Deviation: every track is in the ranking.
StableWithoutFloor(observed, samples) == Tracks(observed)

\* The tracks seen in enough of the sampled frames.
Stable(observed, samples) ==
  {t \in Tracks(observed) :
     100 * Cardinality(FramesOf(observed, t)) >= MinTrackCoverage * samples}

\* The weighted score, times 20000 * samples: an area of 10000 is the whole image.
Score(observed, samples, t) ==
  20000 * PrimaryTrackWeights.coverage * Cardinality(FramesOf(observed, t))
  + samples * PrimaryTrackWeights.median_area
     * TwiceMedian(Members(observed, t), LAMBDA o : box_area(o.box))
  + 100 * samples * PrimaryTrackWeights.median_confidence
     * TwiceMedian(Members(observed, t), LAMBDA o : o.detector_confidence)

\* The stable track of the highest score, the first opened of equals; 0 for none.
select(observed, samples) ==
  LET stable == Stable(observed, samples)  score(t) == Score(observed, samples, t) IN
  IF stable = {} THEN 0
  ELSE CHOOSE t \in stable :
         \A u \in stable \ {t} : score(t) > score(u) \/ (score(t) = score(u) /\ t < u)

FramingLabel ==
  << "EXTREME_WIDE_ESTIMATE", "WIDE_ESTIMATE", "MEDIUM_ESTIMATE", "CLOSE_UP_ESTIMATE",
     "EXTREME_CLOSE_UP_ESTIMATE" >>

\* The heights below which the first four labels end.
HeightMax == << 18, 38, 62, 85 >>
EdgeTruncation == 2
DisagreementFraction == 40

label_observation(o) ==
  LET above == {k \in 1..4 : box_height(o.box) >= HeightMax[k]} IN
  IF o.box.y_min <= EdgeTruncation /\ o.box.y_max >= 100 - EdgeTruncation THEN 5
  ELSE Cardinality(above) + 1

\* The majority label, the wider of equals, unless too many samples disagree.
estimate_framing(members) ==
  LET votes(k) == Cardinality({o \in members : label_observation(o) = k})
      winner == CHOOSE k \in 1..5 : \A j \in 1..5 :
                  votes(k) > votes(j) \/ (votes(k) = votes(j) /\ k <= j)
  IN  IF 100 * (Cardinality(members) - votes(winner)) > DisagreementFraction * Cardinality(members)
      THEN "UNDETERMINED"
      ELSE FramingLabel[winner]

-----------------------------------------------------------------------------
NoSpatial(status) == [status |-> status, primary |-> 0, framing |-> "UNDETERMINED", observed |-> {}]

Subject(observed, primary) ==
  IF primary = 0 THEN [NoSpatial("NO_SUBJECT") EXCEPT !.observed = observed]
  ELSE [status |-> "OK", primary |-> primary, observed |-> observed,
        framing |-> estimate_framing(Members(observed, primary))]

Measured(observed, samples) == Subject(observed, select(observed, samples))

\* SpatialShotAnalyzer.analyze_shot on the hits of each decoded sample.
AnalyzeSpatial(hits) ==
  IF Backend # "fake" THEN NoSpatial("NOT_COMPUTED")
  ELSE IF hits = << >> THEN NoSpatial("INSUFFICIENT_DATA")
  ELSE Measured(track(hits), Len(hits))

=============================================================================
