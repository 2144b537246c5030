---------------------------- MODULE ReportStages ----------------------------
(***************************************************************************)
(* RunReportStages (application/report.py) on one clip: the sampling of    *)
(* SamplingStages, the chromatic, spatial and motion measurements shot by  *)
(* shot, the audio (adapters/media/ffmpeg_audio.py), the timeline and the  *)
(* report; then the verdict of application/aggregation.py and a client's   *)
(* read of the timeline.  What the pixels and the sound show is chosen     *)
(* freely from the constants.                                              *)
(***************************************************************************)
EXTENDS SamplingStages, Chromatics, SpatialTracks, TensionTimeline

CONSTANTS
  Pictures,       \* what a decoded frame may look like to the chromatic pillar
  Detections,     \* what the person detector may report of one frame
  Flows,          \* the flow between the adjacent pairs of a shot, repeated
  Discontinuity,  \* config.motion.discontinuity_diag_per_s
  Sounds,         \* the sound tracks: their length, and the windows, repeated
  Queries         \* the windows a client asks for

\* Of a pair without usable texture.
NoFlow == [global |-> -1, residual |-> -1]

\* A frame that can be read is a matrix of pixels.
ASSUME PicturesAssumption ==
  \A picture \in Pictures : Readable(picture) =>
    /\ picture \in Seq(Seq(0..100)) /\ Width(picture) > 0
    /\ \A r \in 1..Height(picture) : Len(picture[r]) = Width(picture)

ASSUME DetectionsAssumption == Detections \subseteq Seq(DetectionHit)

\* Magnitudes are lengths, and a level may lie below zero.
ASSUME FlowsAssumption ==
  Flows \subseteq Seq([global : Nat, residual : Nat] \cup {NoFlow}) \ {<< >>}
ASSUME SoundsAssumption ==
  Sounds \subseteq [length_ms : Nat, windows : Seq([flux : Nat, level : Int]) \ {<< >>}]

\* get_timeline refuses any other number of points.
ASSUME QueriesAssumption == Queries \subseteq [start : Nat, end : Nat, max : 1..MAX_TIMELINE_POINTS]

VARIABLES
  shot,      \* the shot that is measured
  chroma,    \* the status of the chromatic measurements so far
  space,     \* the status of the spatial ones
  temporal,  \* whether a shot has motion magnitudes
  series,    \* the motion series
  detail,    \* the last measurement in full
  audio,     \* the audio result
  timeline,  \* the timeline
  report,    \* the availability of the pillars
  verdict,   \* the terminal state of the analysis
  answer     \* the last window served

measureVars == << shot, chroma, space, temporal, series, detail, audio, timeline, report, verdict, answer >>
vars == << samplingVars, measureVars >>

\* Everything but the program counter and what the pillars measure.
sampled == << clip, cuts, ranges, plan, pending, captured, frameNo, results >>

ReportPc == SamplingPc \cup {"chromatic", "spatial", "motion", "audio", "timeline", "report",
                             "aggregate", "done", "served"}

NoDetail == [of |-> "none"]
NoAudioResult == [status |-> "none", windows |-> << >>]
NoTimeline == [weights |-> [cut |-> 0, audio |-> 0, motion |-> 0, total |-> 0], points |-> << >>]
NoAnswer == [query |-> [start |-> 0, end |-> 0, max |-> 0], points |-> << >>]
NoReport == [chromatic |-> "none", spatial |-> "none", motion |-> "none", audio |-> "none", tension |-> "none"]

Init ==
  /\ SamplingInit
  /\ shot = 1
  /\ chroma = << >> /\ space = << >> /\ temporal = << >>
  /\ series = {}
  /\ detail = NoDetail
  /\ audio = NoAudioResult
  /\ timeline = NoTimeline
  /\ report = NoReport
  /\ verdict = "none"
  /\ answer = NoAnswer

Sample == SamplingNext /\ UNCHANGED measureVars

-----------------------------------------------------------------------------
Earlier(a, b) == a.request.requested_ms < b.request.requested_ms

\* load_decoded_jpegs: the decoded samples of one shot and purpose, in the order
\* of the manifest.
load_decoded_jpegs(i, purpose) ==
  InOrder({a \in results : a.request.shot = i /\ purpose \in a.request.purposes /\ Decoded(a)},
          Earlier)

FramesIn(samples) == {samples[k].frame : k \in 1..Len(samples)}

\* Deviation: the place is not reset between the pillars.
AdvanceOn(here, next) ==
  /\ pc' = IF shot < Len(ranges) THEN here ELSE next
  /\ shot' = shot + 1

\* After the last shot the next pillar starts at the first one.
Advance(here, next) ==
  IF shot < Len(ranges) THEN pc' = here /\ shot' = shot + 1
  ELSE pc' = next /\ shot' = 1

\* The sampling slice returns and the cache of decoded samples is opened.
StartMeasuring ==
  /\ pc = "sampled"
  /\ pc' = "chromatic"
  /\ UNCHANGED << sampled, measureVars >>

\* _measure_chromatic, one shot.  A palette that its validator refuses ends the stage.
MeasureChromatic ==
  /\ pc = "chromatic"
  /\ LET samples == load_decoded_jpegs(shot, "CHROMATIC") IN
     \E look \in [FramesIn(samples) -> Pictures] :
       LET measured == AnalyzeChroma([k \in 1..Len(samples) |-> look[samples[k].frame]]) IN
       /\ chroma' = Append(chroma, measured.status)
       /\ detail' = [of |-> "chromatic", measured |-> measured]
       /\ \E dust \in Dust(measured.palette) :
            IF measured.status = "OK" /\ ~palette_is_ranked(measured.palette, dust)
            THEN pc' = "refused" /\ shot' = shot
            ELSE Advance("chromatic", "spatial")
  /\ UNCHANGED << sampled, space, temporal, series, audio, timeline, report, verdict, answer >>

\* _measure_spatial, one shot.
MeasureSpatial ==
  /\ pc = "spatial"
  /\ LET samples == load_decoded_jpegs(shot, "COMPOSITION") IN
     \E seen \in [FramesIn(samples) -> Detections] :
       LET hits == [k \in 1..Len(samples) |-> seen[samples[k].frame]] IN
       \E measured \in {AnalyzeSpatial(hits)} :
         /\ space' = Append(space, measured.status)
         /\ detail' = [of |-> "spatial", measured |-> measured, samples |-> Len(hits)]
  /\ Advance("spatial", "motion")
  /\ UNCHANGED << sampled, chroma, temporal, series, audio, timeline, report, verdict, answer >>

Middle(a, b) == a.decoded_ms + (b.decoded_ms - a.decoded_ms) \div 2

\* Deviation: the pairs of neighbouring samples are taken over the whole clip.
PairsOfClip(i) ==
  LET all == InOrder({a \in results : "MOTION" \in a.request.purposes /\ Decoded(a)}, Earlier)
  IN  At([k \in 1..(Len(all) - 1) |-> Middle(all[k], all[k + 1])],
         {k \in 1..(Len(all) - 1) : /\ all[k].request.shot = i
                                     /\ all[k].decoded_ms < all[k + 1].decoded_ms})

\* adjacent_motion_pairs: the middles of the neighbouring samples of one shot that
\* show different instants.
adjacent_motion_pairs(i) ==
  LET samples == load_decoded_jpegs(i, "MOTION")
  IN  At([k \in 1..(Len(samples) - 1) |-> Middle(samples[k], samples[k + 1])],
         {k \in 1..(Len(samples) - 1) : samples[k].decoded_ms < samples[k + 1].decoded_ms})

\* _measure_motion, one shot.  Pairs without usable texture have no flow, and the
\* flagged ones stay out of the series and of the magnitudes.
MeasureMotion ==
  /\ pc = "motion"
  /\ \E flows \in Flows :
       LET middles == adjacent_motion_pairs(shot)
           flow(k) == flows[((k - 1) % Len(flows)) + 1]
           unflagged == {k \in 1..Len(middles) :
                           flow(k) # NoFlow /\ flow(k).global <= Discontinuity}
       IN  /\ series' = series \cup
                {[at_ms |-> middles[k], shot |-> shot,
                  global |-> flow(k).global, residual |-> flow(k).residual] : k \in unflagged}
           /\ temporal' = Append(temporal, unflagged # {})
  /\ detail' = NoDetail
  /\ Advance("motion", "audio")
  /\ UNCHANGED << sampled, chroma, space, audio, timeline, report, verdict, answer >>

\* tick_cancel before each shot of a pillar, between the pillars and before the
\* audio; from there on the report is finished whatever the client asks.
MeasureCancel ==
  /\ pc \in {"sampled", "chromatic", "spatial", "motion", "audio"}
  /\ Cancel
  /\ UNCHANGED measureVars

-----------------------------------------------------------------------------
\* window_features: silence past the end of what ffmpeg has written.
window_features(sound, start) ==
  IF start >= sound.length_ms THEN [flux |-> 0, level |-> 0]
  ELSE sound.windows[((start \div HopMs) % Len(sound.windows)) + 1]

\* FfmpegAudioExtractor.analyze: no stream, a process that is missing, exits with
\* an error, runs out of its time or writes too much, or the windows of a sound.
AnalyzeAudio ==
  /\ pc = "audio"
  /\ IF ~clip.has_audio THEN audio' = [NoAudioResult EXCEPT !.status = "NO_AUDIO"]
     ELSE \/ audio' = [NoAudioResult EXCEPT !.status = "FAILED"]
          \/ \E sound \in Sounds :
               LET starts == window_starts(total_ms(ranges)) IN
               audio' = [status |-> "OK",
                         windows |-> [i \in 1..Len(starts) |-> window_features(sound, starts[i])]]
  /\ pc' = "timeline"
  /\ UNCHANGED << sampled, shot, chroma, space, temporal, series, detail, timeline, report, verdict, answer >>

\* The ffmpeg that was killed for its time does not end in the five seconds that
\* follow: TimeoutExpired leaves the stage.
AudioStuck ==
  /\ pc = "audio"
  /\ clip.has_audio
  /\ pc' = "failed"
  /\ UNCHANGED << sampled, measureVars >>

AudioOk == audio.status = "OK"
MotionOk == \E i \in 1..Len(temporal) : temporal[i]

\* build_timeline and its storage.
BuildTimeline ==
  /\ pc = "timeline"
  /\ timeline' = build_timeline(ranges, series, audio.windows, AudioOk, MotionOk)
  /\ pc' = IF points_are_strictly_increasing(timeline'.points) THEN "report" ELSE "refused"
  /\ UNCHANGED << sampled, shot, chroma, space, temporal, series, detail, audio, report, verdict, answer >>

-----------------------------------------------------------------------------
\* Deviation: one good shot is enough.
availability_any(flags) ==
  IF \E i \in 1..Len(flags) : flags[i] THEN "COMPLETE" ELSE "UNAVAILABLE"

\* chromatic_availability, spatial_availability and motion_availability over what
\* each counts as a result.
availability(flags) ==
  IF flags = << >> \/ \A i \in 1..Len(flags) : ~flags[i] THEN "UNAVAILABLE"
  ELSE IF \A i \in 1..Len(flags) : flags[i] THEN "COMPLETE"
  ELSE "PARTIAL"

\* assemble_report, with its availability; the validator of AnalysisReport refuses
\* a COMPLETE audio of a clip without a stream.
AssembleReport ==
  /\ pc = "report"
  /\ report' =
       [chromatic |-> availability([i \in 1..Len(chroma) |-> chroma[i] = "OK"]),
        spatial |-> availability([i \in 1..Len(space) |-> space[i] \in {"OK", "NO_SUBJECT"}]),
        motion |-> availability(temporal),
        audio |-> IF AudioOk THEN "COMPLETE" ELSE "UNAVAILABLE",
        tension |-> IF timeline.points # << >> THEN "COMPLETE" ELSE "UNAVAILABLE"]
  /\ pc' = IF /\ {Len(chroma), Len(space), Len(temporal)} = {Len(ranges)}
              /\ clip.has_audio \/ report'.audio # "COMPLETE"
           THEN "aggregate" ELSE "refused"
  /\ UNCHANGED << sampled, shot, chroma, space, temporal, series, detail, audio, timeline, verdict, answer >>

\* _optional_pillar_failed.
optional_pillar_failed ==
  \/ report.chromatic # "COMPLETE"
  \/ Backend # "none" /\ report.spatial # "COMPLETE"
  \/ report.motion # "COMPLETE"
  \/ clip.has_audio /\ report.audio # "COMPLETE"
  \/ report.tension = "UNAVAILABLE"

\* decide_analysis_outcome, sampling and report having succeeded.
Aggregate ==
  /\ pc = "aggregate"
  /\ verdict' = IF optional_pillar_failed THEN "PARTIAL" ELSE "SUCCEEDED"
  /\ pc' = "done"
  /\ UNCHANGED << sampled, shot, chroma, space, temporal, series, detail, audio, timeline, report, answer >>

\* get_timeline: a client reads a part of it.
GetTimeline ==
  /\ pc = "done"
  /\ \E q \in Queries :
       answer' = [query |-> q, points |-> window_timeline(timeline.points, q.start, q.end, q.max)]
  /\ pc' = "served"
  /\ UNCHANGED << sampled, shot, chroma, space, temporal, series, detail, audio, timeline, report, verdict >>

\* Nothing is left to do: anywhere else a run that cannot go on is a deadlock.
Ended == pc \in {"served", "failed", "canceled", "refused"} /\ UNCHANGED vars

-----------------------------------------------------------------------------
Next ==
  \/ Sample \/ StartMeasuring \/ MeasureChromatic \/ MeasureSpatial \/ MeasureMotion
  \/ MeasureCancel \/ AnalyzeAudio \/ AudioStuck \/ BuildTimeline \/ AssembleReport
  \/ Aggregate \/ GetTimeline \/ Ended

Spec == Init /\ [][Next]_vars

-----------------------------------------------------------------------------
TypeOK ==
  /\ pc \in ReportPc
  /\ clip \in Clips
  /\ ranges \in Seq(TimeRangeMs)
  /\ plan \subseteq Request /\ pending \subseteq plan
  /\ captured \subseteq Answer /\ results \subseteq captured
  /\ shot \in 1..Larger(1, Len(ranges))
  /\ series \subseteq MotionSeriesPoint
  /\ verdict \in {"none", "SUCCEEDED", "PARTIAL"}

\* Of all that the stage builds, the validators of the domain refuse one thing only, with
\* a ValueError that nothing catches up to the worker's loop: a palette of three swatches
\* or more whose last two have the same count, so that rounding decides their order.
\* (ShotSet, SamplingManifest, ChromaticValue, Timeline, AnalysisReport)
RefusedOnlyByTie ==
  pc = "refused" =>
    /\ detail.of = "chromatic" /\ detail.measured.status = "OK"
    /\ LET swatches == detail.measured.palette
           n == Len(swatches)
       IN  n >= 3 /\ swatches[n - 1].count = swatches[n].count

\* A failed pillar does not fail the report, which is served with that pillar marked
\* unavailable (product-contract.md:98): no chromatic measurement ends the stage.
\* (_measure_chromatic)
ChromaticNeverFails == detail.of = "chromatic" => pc # "refused"

\* A track goes on from box to box with enough overlap, skipping only the samples
\* that do not show it, has one box in a sample, and the primary one is there in
\* enough of them.  (IoUSubjectTracker.track, CoverageAreaConfidenceSelector)
TracksContinuous ==
  detail.of = "spatial" =>
    LET seen == detail.measured.observed
        samples == detail.samples
    IN  /\ \A o, p \in seen :
             o.track_id = p.track_id /\ o.sample = p.sample => o = p
        /\ \A o, p \in seen :
             /\ o.track_id = p.track_id /\ o.sample < p.sample
             /\ ~\E q \in seen : q.track_id = o.track_id /\ o.sample < q.sample /\ q.sample < p.sample
             => AtLeast(box_iou(o.box, p.box), TrackIouMin)
        /\ detail.measured.primary # 0 =>
             100 * Cardinality(FramesOf(seen, detail.measured.primary)) >= MinTrackCoverage * samples

\* A hit opens a track only if it overlaps too little with the last box of each of
\* the tracks that have no hit in its sample: no person is followed under a second
\* identity while the first goes without.  (IoUSubjectTracker.track)
TracksNotSplit ==
  detail.of = "spatial" =>
    LET seen == detail.measured.observed IN
    \A o, p \in seen :
      /\ ~\E q \in seen : q.track_id = o.track_id /\ q.sample < o.sample
      /\ p.sample < o.sample
      /\ ~\E q \in seen : q.track_id = p.track_id /\ p.sample < q.sample /\ q.sample <= o.sample
      => ~AtLeast(box_iou(p.box, o.box), TrackIouMin)

\* A track follows one person, as far as overlap can tell: it never joins two in a
\* sample, and who is still near the last box of an idle track gets no second one.
\* (IoUSubjectTracker.track)
TracksFollow == TracksContinuous /\ TracksNotSplit

\* Motion never crosses a cut: a pair lies inside one shot, and a point of the
\* timeline takes its motion from pairs of its own shot, none when there are none.
\* (adjacent_motion_pairs, _motion_at)
MotionInShot ==
  /\ \A p \in series : Within(p.at_ms, ranges[p.shot])
  /\ \A i \in 1..Len(timeline.points) :
       LET point == timeline.points[i]
           own == {p \in series : p.shot = point.shot}
       IN  /\ Within(point.at_ms, ranges[point.shot])
           /\ point.raw.global > 0 => \E p \in own : p.global >= point.raw.global
           /\ own # {} => \E p \in own : p.global <= point.raw.global

\* A component weighs in the tension exactly when the report calls its pillar
\* available, and the proxy lies between the least and the greatest of those that
\* do.  (effective_weights, combine_tension)
TensionFromAvailable ==
  report # NoReport =>
    LET w == timeline.weights IN
    /\ (w.audio > 0) = (report.audio = "COMPLETE" /\ TensionWeights.audio > 0)
    /\ (w.motion > 0) = (report.motion # "UNAVAILABLE" /\ TensionWeights.motion > 0)
    /\ \A i \in 1..Len(timeline.points) :
         LET point == timeline.points[i]
             parts == {x \in {<< w.cut, point.cut >>, << w.audio, point.audio >>,
                              << w.motion, point.motion >>} : x[1] > 0}
         IN  /\ \E x \in parts : x[2] <= point.combined
             /\ \E x \in parts : x[2] >= point.combined

\* There is a peak, every peak is at least as high as its neighbours, and a highest point
\* is among them, but for one that rises above its left neighbour by no more than the
\* tolerance: that one is skipped and its neighbour is none either.  (_peaks)
PeaksHaveHighest ==
  timeline.points # << >> =>
    LET points == timeline.points
        peaks == Peaks(points)
        highest == {i \in 1..Len(points) :
                      \A j \in 1..Len(points) : points[i].combined >= points[j].combined}
    IN  /\ peaks # {}
        /\ \/ peaks \cap highest # {}
           \/ \E i \in highest \ {1} : /\ points[i - 1].combined < points[i].combined
                                      /\ isclose(points[i - 1].combined, points[i].combined)
        /\ \A i \in peaks, j \in 1..Len(points) :
             Distance(i, j) = 1 => points[i].combined >= points[j].combined

\* SUCCEEDED is said only of a clip of which every shot was measured by every pillar
\* that was asked for, and whose sound, if it has any, was heard throughout.
\* (availability, _optional_pillar_failed)
VerdictHonest ==
  verdict = "SUCCEEDED" =>
    /\ \A i \in 1..Len(ranges) :
         /\ chroma[i] = "OK"
         /\ Backend # "none" => space[i] \in {"OK", "NO_SUBJECT"}
         /\ \E p \in series : p.shot = i
    /\ clip.has_audio => Len(audio.windows) = Len(timeline.points)

\* A window shows every point in it, or as many as were asked for with the first
\* and the last among them, in order and none twice.  (window_timeline)
WindowKeepsEnds ==
  pc = "served" =>
    LET q == answer.query
        inside == Inside(timeline.points, q.start, q.end)
        shown == answer.points
    IN  /\ Len(shown) = Smaller(Len(inside), Larger(1, q.max))
        /\ points_are_strictly_increasing(shown)
        /\ \A i \in 1..Len(shown) : shown[i] \in {inside[j] : j \in 1..Len(inside)}
        /\ shown # << >> => shown[1] = inside[1]
        /\ Len(shown) > 1 => shown[Len(shown)] = inside[Len(inside)]

=============================================================================
