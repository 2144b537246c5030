--------------------------- MODULE SamplingStages ---------------------------
(***************************************************************************)
(* RunSamplingStages (application/pipeline.py) on one clip: the detector's *)
(* boundaries become shots, the shots a plan of samples, and the extractor *)
(* (adapters/media/pyav_extract.py) decodes the clip once, frame by frame, *)
(* against the plan.  One action is one round of a loop of the code or one *)
(* call between two places where a cancel is looked for.                   *)
(***************************************************************************)
EXTENDS SamplePlan

CONSTANTS
  Clips,      \* the clips that may be analyzed
  MinShotMs   \* config.shots.min_shot_ms

\* Of a clip: its length, its average frame rate, the presentation times of its
\* frames in the order they are decoded (NoTime for a frame without one), the
\* starts of the detector's scenes, and whether there is an audio stream.
NoTime == -1

Clip ==
  [duration_ms : Nat \ {0}, numerator : Nat \ {0}, denominator : Nat \ {0},
   frames : Seq(Nat \cup {NoTime}), scenes : SUBSET Nat, has_audio : BOOLEAN]

ASSUME ClipsAssumption == Clips \subseteq Clip
ASSUME MinShotAssumption == MinShotMs \in Nat \ {0}

VARIABLES
  pc,        \* where the run is
  clip,      \* the clip that is analyzed
  cuts,      \* the boundaries not yet made edges
  ranges,    \* the shots
  plan,      \* SamplingPlan.requests
  pending,   \* the requests that no frame has answered
  captured,  \* what the extractor has answered
  frameNo,   \* the number of frames decoded
  results    \* SamplingManifest.results

samplingVars == << pc, clip, cuts, ranges, plan, pending, captured, frameNo, results >>

frame == frame_duration_ms(clip.numerator, clip.denominator)

\* The answer to a request: the instant and the number of the frame that was
\* decoded, or why there is none.
Answer == [request : Request, decoded_ms : Int, frame : Nat, reason : {"none", "OUTSIDE", "MISSING"}]

Absent(q, why) == [request |-> q, decoded_ms |-> NoTime, frame |-> 0, reason |-> why]

Decoded(a) == a.reason = "none"

SamplingPc ==
  {"detect", "cut", "merge", "extract", "store", "sampled", "refused", "failed", "canceled"}

SamplingInit ==
  /\ pc = "detect"
  /\ clip \in Clips
  /\ cuts = {} /\ ranges = << >> /\ plan = {} /\ pending = {} /\ captured = {}
  /\ frameNo = 0
  /\ results = {}

-----------------------------------------------------------------------------
\* tick_cancel raises: the stage ends here, whatever it has stored.
Cancel ==
  /\ pc' = "canceled"
  /\ UNCHANGED << clip, cuts, ranges, plan, pending, captured, frameNo, results >>

\* PySceneDetectShotDetector.detect: a library, file or format error, or any set
\* of starts of scenes, of which those inside the clip are boundaries.
Detect ==
  /\ pc = "detect"
  /\ \E starts \in SUBSET clip.scenes :
       cuts' = {b \in starts : IsInternal(b, clip.duration_ms)}
  /\ pc' = "cut"
  /\ UNCHANGED << clip, ranges, plan, pending, captured, frameNo, results >>

DetectFails ==
  /\ pc = "detect"
  /\ pc' = "failed"
  /\ UNCHANGED << clip, cuts, ranges, plan, pending, captured, frameNo, results >>

\* boundaries_to_shot_set: the edges in their order, the end of the clip last.
AddCut ==
  /\ pc = "cut"
  /\ \E b \in cuts :
       /\ \A c \in cuts : b <= c
       /\ cuts' = cuts \ {b}
       /\ ranges' = AddRange(ranges, b)
  /\ UNCHANGED << pc, clip, plan, pending, captured, frameNo, results >>

Close ==
  /\ pc = "cut"
  /\ cuts = {}
  /\ ranges' = AddRange(ranges, clip.duration_ms)
  /\ pc' = "merge"
  /\ UNCHANGED << clip, cuts, plan, pending, captured, frameNo, results >>

\* One round of merge_short_ranges.
Merge ==
  /\ pc = "merge"
  /\ NeedsMerge(ranges, MinShotMs)
  /\ ranges' = MergeShort(ranges, MinShotMs)
  /\ UNCHANGED << pc, clip, cuts, plan, pending, captured, frameNo, results >>

\* plan_samples, once the validator of ShotSet has passed.
Plan ==
  /\ pc = "merge"
  /\ ~NeedsMerge(ranges, MinShotMs)
  /\ IF shots_are_contiguous(ranges)
     THEN /\ plan' = plan_samples(ranges, frame)
          /\ pending' = plan'
          /\ pc' = "extract"
     ELSE pc' = "refused" /\ UNCHANGED << plan, pending >>
  /\ UNCHANGED << clip, cuts, ranges, captured, frameNo, results >>

-----------------------------------------------------------------------------
\* Deviation: a frame answers every request before it, of whatever shot.
AnswersAnyShot(q, at, number) ==
  [request |-> q, decoded_ms |-> at, frame |-> number, reason |-> "none"]

\* A request that a frame has reached: decoded when the frame is in the request's
\* own shot.
Answers(q, at, number) ==
  IF Within(at, ranges[q.shot])
  THEN [request |-> q, decoded_ms |-> at, frame |-> number, reason |-> "none"]
  ELSE Absent(q, "OUTSIDE")

\* _consume_frame: the frame answers the requests at or before its time; one
\* without a time is only counted.  The loop ends when nothing is pending.
ConsumeFrame ==
  /\ pc = "extract"
  /\ pending # {}
  /\ frameNo < Len(clip.frames)
  /\ LET at == clip.frames[frameNo + 1]
         due == IF at = NoTime THEN {} ELSE {q \in pending : q.requested_ms <= at}
     IN  /\ pending' = pending \ due
         /\ captured' = captured \cup {Answers(q, at, frameNo + 1) : q \in due}
  /\ frameNo' = frameNo + 1
  /\ UNCHANGED << pc, clip, cuts, ranges, plan, results >>

\* The decoder or the JPEG encoder raises at some frame, or the file cannot be
\* opened at all.
ExtractFails ==
  /\ pc = "extract"
  /\ pc' = "failed"
  /\ UNCHANGED << clip, cuts, ranges, plan, pending, captured, frameNo, results >>

\* No request or no frame is left.
EndOfFrames ==
  /\ pc = "extract"
  /\ pending = {} \/ frameNo = Len(clip.frames)
  /\ captured' = captured \cup {Absent(q, "MISSING") : q \in pending}
  /\ pending' = {}
  /\ pc' = "store"
  /\ UNCHANGED << clip, cuts, ranges, plan, frameNo, results >>

\* The requests that _store_samples has not come to, and the first of them.
Unstored == {a \in captured : a \notin results}

NextStored(a) == \A b \in Unstored : a.request.requested_ms <= b.request.requested_ms

\* _store_samples: the frame is put under the key of its content and the result
\* recorded; identical frames share one key.
StoreSample ==
  /\ pc = "store"
  /\ \E a \in Unstored : NextStored(a) /\ results' = results \cup {a}
  /\ UNCHANGED << pc, clip, cuts, ranges, plan, pending, captured, frameNo >>

\* The shot set and the manifest are written, once the manifest's validator has
\* passed: one result for each request.
StoreManifest ==
  /\ pc = "store"
  /\ Unstored = {}
  /\ pc' = IF {a.request : a \in results} = plan THEN "sampled" ELSE "refused"
  /\ UNCHANGED << clip, cuts, ranges, plan, pending, captured, frameNo, results >>

\* tick_cancel after the detection, after the extraction and before each sample
\* that is stored.
SamplingCancel ==
  /\ \/ pc = "cut" /\ ranges = << >>
     \/ pc = "store" /\ Unstored # {}
  /\ Cancel

SamplingNext ==
  \/ Detect \/ DetectFails \/ AddCut \/ Close \/ Merge \/ Plan
  \/ ConsumeFrame \/ ExtractFails \/ EndOfFrames
  \/ StoreSample \/ StoreManifest \/ SamplingCancel

SamplingSpec == SamplingInit /\ [][SamplingNext]_samplingVars

-----------------------------------------------------------------------------
\* The shots cover the clip from its start to where it has been cut, without a
\* gap or an overlap, none of them empty; once the last edge is in, to its end.
\* (boundaries_to_shot_set, merge_short_ranges)
ShotsCover ==
  /\ \A i \in 1..Len(ranges) :
       /\ ranges[i].start_ms < ranges[i].end_ms
       /\ ranges[i].start_ms = IF i = 1 THEN 0 ELSE ranges[i - 1].end_ms
  /\ pc \notin {"detect", "cut", "failed", "canceled"} => Edge(ranges) = clip.duration_ms
  /\ plan # {} => Edge(ranges) = clip.duration_ms

\* Every request lies inside its own shot, and every shot is asked for samples of
\* every purpose.  (plan_samples, _clamp_timestamp)
SamplesInShots ==
  /\ \A q \in plan : q.shot \in 1..Len(ranges) /\ Within(q.requested_ms, ranges[q.shot])
  /\ plan # {} =>
       \A i \in 1..Len(ranges), purpose \in SamplePurpose :
         \E q \in plan : q.shot = i /\ purpose \in q.purposes

\* A sample that counts as decoded is the first frame of the clip at or after its
\* request, and lies in its own shot: no pixel of one shot stands for another.
\* (_consume_frame)
OwnFrames ==
  \A a \in captured : Decoded(a) =>
    /\ Within(a.decoded_ms, ranges[a.request.shot])
    /\ a.decoded_ms = clip.frames[a.frame]
    /\ a.request.requested_ms <= a.decoded_ms
    /\ \A k \in 1..(a.frame - 1) : clip.frames[k] < a.request.requested_ms

\* A clip that shows a frame at every multiple of its frame duration, to its end.
Regular ==
  /\ Len(clip.frames) = (clip.duration_ms * clip.numerator) \div (1000 * clip.denominator)
  /\ \A k \in 1..Len(clip.frames) :
       clip.frames[k] =
         (2000 * clip.denominator * (k - 1) + clip.numerator) \div (2 * clip.numerator)

\* In such a clip every sample of a shot of five frames or more is decoded: the
\* two frames that the plan keeps away from a cut are enough for the next frame
\* to be in the same shot, rounding included.  (_clamp_timestamp, _consume_frame)
LongShotsDecode ==
  pc \in {"store", "sampled"} /\ Regular =>
    \A a \in captured :
      duration_ms(ranges[a.request.shot]) >= 5 * frame => Decoded(a)

=============================================================================
