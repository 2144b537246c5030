------------------------- MODULE ReportStages_proofs -------------------------
(***************************************************************************)
(* The safety of ReportStages, for every clip and every configuration:     *)
(* the shots cover the clip and every sample shows its own shot; no domain *)
(* validator refuses what the stages compute; tracks, motion, tension,     *)
(* peaks and windows are what they say; and SUCCEEDED is said only of what *)
(* was measured.  One inductive invariant per part of the report, each     *)
(* resting on the ones before it.                                          *)
(***************************************************************************)
EXTENDS ReportOperators_proofs

-----------------------------------------------------------------------------
(* The invariant of the shots.                                             *)

Early == {"detect", "cut", "merge"}

\* Each interval starts where the one before it ends.
Chained(rs) ==
  \A i \in 1..Len(rs) :
    /\ rs[i].start_ms < rs[i].end_ms
    /\ rs[i].start_ms = IF i = 1 THEN 0 ELSE rs[i - 1].end_ms

ShotType ==
  /\ clip \in Clip
  /\ ranges \in Seq(TimeRangeMs)
  /\ cuts \in SUBSET Nat
  /\ frameNo \in Nat

\* The boundaries left lie between what is covered and the end of the clip.
CutsAhead ==
  /\ pc = "detect" => ranges = << >>
  /\ pc = "cut" =>
       /\ Edge(ranges) < clip.duration_ms
       /\ \A b \in cuts : Edge(ranges) < b /\ b < clip.duration_ms

Covered ==
  /\ pc \notin {"detect", "cut", "failed", "canceled"} => Edge(ranges) = clip.duration_ms
  /\ plan # {} => Edge(ranges) = clip.duration_ms

ShotInv == ShotType /\ Chained(ranges) /\ CutsAhead /\ Covered /\ (pc \in Early => plan = {})

-----------------------------------------------------------------------------
(* Lemmas about the intervals.                                             *)

LEMMA RangeType ==
  ASSUME NEW rs \in Seq(TimeRangeMs), NEW i \in 1..Len(rs)
  PROVE  rs[i] \in TimeRangeMs /\ rs[i].start_ms \in Nat /\ rs[i].end_ms \in Nat
<1>1. rs[i] \in TimeRangeMs
  OBVIOUS
<1> QED BY <1>1 DEF TimeRangeMs

LEMMA EdgeType ==
  ASSUME NEW rs \in Seq(TimeRangeMs)
  PROVE  Edge(rs) \in Nat
<1>1. CASE rs = << >>
  BY <1>1 DEF Edge
<1>2. CASE rs # << >>
  <2>1. Len(rs) \in 1..Len(rs)
    BY <1>2
  <2> QED BY <1>2, <2>1, RangeType DEF Edge
<1> QED BY <1>1, <1>2

\* A new interval up to a position beyond the edge keeps the chain.
LEMMA AddRangeChained ==
  ASSUME NEW rs \in Seq(TimeRangeMs), Chained(rs), NEW p \in Nat, Edge(rs) < p
  PROVE  /\ AddRange(rs, p) \in Seq(TimeRangeMs)
         /\ Chained(AddRange(rs, p))
         /\ Edge(AddRange(rs, p)) = p
<1> DEFINE new == [start_ms |-> Edge(rs), end_ms |-> p]
           A == Append(rs, new)
<1>1. Edge(rs) \in Nat
  BY EdgeType
<1>2. new \in TimeRangeMs /\ new.start_ms = Edge(rs) /\ new.end_ms = p
  BY <1>1 DEF TimeRangeMs
<1>3. AddRange(rs, p) = A
  BY DEF AddRange
<1> HIDE DEF new
<1>4. /\ A \in Seq(TimeRangeMs)
      /\ Len(A) = Len(rs) + 1
      /\ \A i \in 1..Len(rs) : A[i] = rs[i]
      /\ A[Len(rs) + 1] = new
  BY <1>2
<1>5. Len(rs) \in Nat
  OBVIOUS
<1> HIDE DEF A
<1>6. Edge(A) = p
  BY <1>2, <1>4, <1>5 DEF Edge
<1>7. Chained(A)
  <2> SUFFICES ASSUME NEW i \in 1..(Len(rs) + 1)
               PROVE  /\ A[i].start_ms < A[i].end_ms
                      /\ A[i].start_ms = IF i = 1 THEN 0 ELSE A[i - 1].end_ms
    BY <1>4 DEF Chained
  <2>1. CASE i = Len(rs) + 1
    <3>1. CASE rs = << >>
      BY <2>1, <3>1, <1>1, <1>2, <1>4, <1>5 DEF Edge
    <3>2. CASE rs # << >>
      <4>1. Len(rs) \in 1..Len(rs) /\ i - 1 = Len(rs) /\ i # 1
        BY <2>1, <3>2
      <4>2. A[i - 1].end_ms = Edge(rs)
        BY <3>2, <4>1, <1>4 DEF Edge
      <4> QED BY <2>1, <4>1, <4>2, <1>1, <1>2, <1>4
    <3> QED BY <3>1, <3>2
  <2>2. CASE i # Len(rs) + 1
    <3>1. i \in 1..Len(rs) /\ (i # 1 => i - 1 \in 1..Len(rs))
      BY <2>2, <1>5
    <3>2. A[i] = rs[i] /\ (i # 1 => A[i - 1] = rs[i - 1])
      BY <3>1, <1>4
    <3> QED BY <3>1, <3>2 DEF Chained
  <2> QED BY <2>1, <2>2
<1> QED BY <1>3, <1>4, <1>6, <1>7

\* Two neighbours joined: the chain and its end stay.
LEMMA JoinChained ==
  ASSUME NEW rs \in Seq(TimeRangeMs), Chained(rs), NEW k \in 1..(Len(rs) - 1)
  PROVE  /\ Join(rs, k) \in Seq(TimeRangeMs)
         /\ Chained(Join(rs, k))
         /\ Edge(Join(rs, k)) = Edge(rs)
<1> DEFINE J == Join(rs, k)
           both == [start_ms |-> rs[k].start_ms, end_ms |-> rs[k + 1].end_ms]
<1>1. Len(rs) \in Nat /\ Len(rs) >= 2
  OBVIOUS
<1>2. \A i \in 1..(Len(rs) - 1) :
        /\ i \in 1..Len(rs) /\ i + 1 \in 1..Len(rs)
        /\ rs[i] \in TimeRangeMs /\ rs[i].start_ms \in Nat /\ rs[i].end_ms \in Nat
        /\ rs[i + 1] \in TimeRangeMs
        /\ rs[i + 1].start_ms \in Nat /\ rs[i + 1].end_ms \in Nat
  <2> TAKE i \in 1..(Len(rs) - 1)
  <2>1. i \in 1..Len(rs) /\ i + 1 \in 1..Len(rs)
    BY <1>1
  <2> QED BY <2>1, RangeType
<1>3. /\ both \in TimeRangeMs
      /\ both.start_ms = rs[k].start_ms /\ both.end_ms = rs[k + 1].end_ms
  BY <1>2 DEF TimeRangeMs
<1>4. J = [i \in 1..(Len(rs) - 1) |->
              IF i < k THEN rs[i] ELSE IF i = k THEN both ELSE rs[i + 1]]
  BY DEF Join
<1> HIDE DEF both, J
<1>5. \A i \in 1..(Len(rs) - 1) : J[i] \in TimeRangeMs
  BY <1>2, <1>3, <1>4
<1>6. J \in Seq(TimeRangeMs) /\ Len(J) = Len(rs) - 1
  BY <1>1, <1>4, <1>5
<1>7. \A i \in 1..(Len(rs) - 1) :
        /\ J[i].start_ms = IF i <= k THEN rs[i].start_ms ELSE rs[i + 1].start_ms
        /\ J[i].end_ms = IF i < k THEN rs[i].end_ms ELSE rs[i + 1].end_ms
  BY <1>1, <1>3, <1>4
<1>8. Chained(J)
  <2> SUFFICES ASSUME NEW i \in 1..(Len(rs) - 1)
               PROVE  /\ J[i].start_ms < J[i].end_ms
                      /\ J[i].start_ms = IF i = 1 THEN 0 ELSE J[i - 1].end_ms
    BY <1>6 DEF Chained
  <2>1. /\ rs[i].start_ms < rs[i].end_ms
        /\ rs[i].start_ms = IF i = 1 THEN 0 ELSE rs[i - 1].end_ms
    BY <1>2 DEF Chained
  <2>2. rs[i + 1].start_ms < rs[i + 1].end_ms /\ rs[i + 1].start_ms = rs[i].end_ms
    <3>1. i + 1 \in 1..Len(rs) /\ i + 1 # 1 /\ (i + 1) - 1 = i
      BY <1>2
    <3> QED BY <3>1 DEF Chained
  <2>3. J[i].start_ms < J[i].end_ms
    <3>1. /\ J[i].start_ms = IF i <= k THEN rs[i].start_ms ELSE rs[i + 1].start_ms
          /\ J[i].end_ms = IF i < k THEN rs[i].end_ms ELSE rs[i + 1].end_ms
      BY <1>7
    <3>2. /\ rs[i].start_ms \in Nat /\ rs[i].end_ms \in Nat
          /\ rs[i + 1].start_ms \in Nat /\ rs[i + 1].end_ms \in Nat
      BY <1>2
    <3> HIDE DEF J
    <3> QED BY <2>1, <2>2, <3>1, <3>2
  <2>4. ASSUME i = 1 PROVE J[i].start_ms = 0
    BY <2>1, <2>4, <1>7
  <2>5. ASSUME i # 1 PROVE J[i].start_ms = J[i - 1].end_ms
    <3>1. i - 1 \in 1..(Len(rs) - 1) /\ (i - 1) + 1 = i
      BY <2>5, <1>1
    <3>2. J[i - 1].end_ms = IF i - 1 < k THEN rs[i - 1].end_ms ELSE rs[i].end_ms
      BY <3>1, <1>7
    <3>3. J[i].start_ms = IF i <= k THEN rs[i - 1].end_ms ELSE rs[i].end_ms
      BY <2>1, <2>2, <2>5, <1>7
    <3>4. i - 1 < k <=> i <= k
      OBVIOUS
    <3> QED BY <3>2, <3>3, <3>4
  <2> QED BY <2>3, <2>4, <2>5
<1>9. Edge(J) = Edge(rs)
  <2>1. Len(rs) - 1 \in 1..(Len(rs) - 1) /\ ~(Len(rs) - 1 < k) /\ rs # << >> /\ J # << >>
    BY <1>1, <1>6
  <2>2. J[Len(rs) - 1].end_ms = rs[(Len(rs) - 1) + 1].end_ms
    BY <2>1, <1>7
  <2> QED BY <2>1, <2>2, <1>1, <1>6 DEF Edge
<1> QED BY <1>6, <1>8, <1>9 DEF J

\* A round of the merge joins two neighbours.
LEMMA MergeIsJoin ==
  ASSUME NEW rs \in Seq(TimeRangeMs), NEW min \in Nat, NeedsMerge(rs, min)
  PROVE  \E k \in 1..(Len(rs) - 1) : MergeShort(rs, min) = Join(rs, k)
<1>1. Short(rs, min) \subseteq 1..Len(rs) /\ Short(rs, min) # {} /\ Len(rs) > 1
  BY DEF NeedsMerge, Short
<1>2. \E i \in Short(rs, min) : \A j \in Short(rs, min) : i <= j
  <2>1. Short(rs, min) \subseteq Nat /\ Short(rs, min) # {}
    BY <1>1
  <2>2. PICK x \in Short(rs, min) : \A y \in Short(rs, min) : ~(<< y, x >> \in OpToRel(<, Nat))
    BY <2>1, NatLessThanWellFounded, WFMin
  <2>3. ASSUME NEW y \in Short(rs, min) PROVE x <= y
    <3>1. x \in Nat /\ y \in Nat
      BY <2>1
    <3>2. y < x => << y, x >> \in OpToRel(<, Nat)
      BY <3>1 DEF OpToRel
    <3>3. ~(y < x)
      BY <2>2, <3>2, Zenon
    <3> QED BY <3>1, <3>3
  <2> QED BY <2>3
<1>3. FirstShort(rs, min) \in Short(rs, min)
  BY <1>2 DEF FirstShort
<1>4. FirstShort(rs, min) \in 1..Len(rs)
  BY <1>1, <1>3
<1> QED BY <1>1, <1>4 DEF MergeShort

\* The end of a shot is at most the end of the clip.
LEMMA ChainEnds ==
  ASSUME NEW rs \in Seq(TimeRangeMs), Chained(rs), NEW i \in 1..Len(rs)
  PROVE  rs[i].end_ms <= Edge(rs)
<1> DEFINE n == Len(rs)
           J == {k \in 0..(n - 1) : rs[n - k].end_ms <= Edge(rs)}
<1>1. n \in Nat /\ n >= 1 /\ n - 1 \in Nat
  OBVIOUS
<1>2. \A k \in 1..n : rs[k].start_ms \in Nat /\ rs[k].end_ms \in Nat
  BY RangeType
<1>3. 0 \in J
  <2>1. Edge(rs) = rs[n].end_ms /\ n - 0 = n
    BY <1>1 DEF Edge
  <2> QED BY <2>1, <1>1, <1>2
<1>4. ASSUME NEW k \in 1..(n - 1), k - 1 \in J PROVE k \in J
  <2>1. n - (k - 1) \in 1..n /\ n - k \in 1..n /\ (n - (k - 1)) - 1 = n - k /\ n - (k - 1) # 1
    BY <1>1
  <2>2. /\ rs[n - (k - 1)].start_ms < rs[n - (k - 1)].end_ms
        /\ rs[n - (k - 1)].start_ms = rs[n - k].end_ms
    BY <2>1 DEF Chained
  <2>3. rs[n - (k - 1)].end_ms <= Edge(rs)
    BY <1>4
  <2>4. Edge(rs) \in Nat
    BY EdgeType
  <2>5. rs[n - k].end_ms <= Edge(rs)
    BY <2>1, <2>2, <2>3, <2>4, <1>2
  <2> QED BY <2>5, <1>1
<1> HIDE DEF J
<1>5. \A k \in 0..(n - 1) : k \in J
  BY <1>1, <1>3, <1>4, UpTo
<1>6. n - i \in 0..(n - 1) /\ n - (n - i) = i
  BY <1>1
<1> QED BY <1>5, <1>6 DEF J

-----------------------------------------------------------------------------
(* What the stage does after the sampling leaves the shots alone.          *)

LEMMA LaterSteps ==
  ASSUME Next, ~Sample
  PROVE  /\ UNCHANGED sampled
         /\ pc \notin Early \cup {"extract", "failed", "canceled"} \/ pc' = pc
         /\ pc' \notin Early \cup {"extract"} \/ pc' = pc
<1>1. CASE StartMeasuring
  BY <1>1 DEF StartMeasuring, Early, measureVars
<1>2. CASE MeasureChromatic
  BY <1>2 DEF MeasureChromatic, Advance, Early
<1>3. CASE MeasureSpatial
  BY <1>3 DEF MeasureSpatial, Advance, Early
<1>4. CASE MeasureMotion
  BY <1>4 DEF MeasureMotion, Advance, Early
<1>5. CASE MeasureCancel
  BY <1>5 DEF MeasureCancel, Cancel, Early, sampled
<1>6. CASE AnalyzeAudio
  BY <1>6 DEF AnalyzeAudio, Early
<1>7. CASE AudioStuck
  BY <1>7 DEF AudioStuck, Early
<1>8. CASE BuildTimeline
  BY <1>8 DEF BuildTimeline, Early
<1>9. CASE AssembleReport
  BY <1>9 DEF AssembleReport, Early
<1>10. CASE Aggregate
  BY <1>10 DEF Aggregate, Early
<1>11. CASE GetTimeline
  BY <1>11 DEF GetTimeline, Early
<1>12. CASE Ended
  BY <1>12 DEF Ended, vars, samplingVars, sampled, Early
<1> QED BY <1>1, <1>2, <1>3, <1>4, <1>5, <1>6, <1>7, <1>8, <1>9, <1>10, <1>11, <1>12 DEF Next

-----------------------------------------------------------------------------
(* The shots cover the clip.                                               *)

LEMMA ClipType ==
  ASSUME NEW c \in Clip
  PROVE  /\ c.duration_ms \in Nat /\ 0 < c.duration_ms
         /\ c.numerator \in Nat /\ 0 < c.numerator
         /\ c.denominator \in Nat /\ 0 < c.denominator
         /\ c.frames \in Seq(Nat \cup {NoTime}) /\ c.scenes \subseteq Nat
BY DEF Clip

LEMMA ShotInvInit ==
  ASSUME Init
  PROVE  ShotInv
<1>1. /\ pc = "detect" /\ clip \in Clips /\ cuts = {} /\ ranges = << >>
      /\ plan = {} /\ frameNo = 0
  BY DEF Init, SamplingInit
<1>2. ShotType
  BY <1>1, ClipsAssumption DEF ShotType
<1>3. Chained(ranges) /\ CutsAhead /\ Covered
  BY <1>1 DEF Chained, CutsAhead, Covered
<1> QED BY <1>1, <1>2, <1>3 DEF ShotInv

LEMMA DetectKeepsShots ==
  ASSUME ShotInv, Detect
  PROVE  ShotInv'
<1> USE DEF ShotInv
<1>1. PICK starts \in SUBSET clip.scenes :
        cuts' = {b \in starts : IsInternal(b, clip.duration_ms)}
  BY DEF Detect
<1>2. /\ pc = "detect" /\ pc' = "cut"
      /\ clip' = clip /\ ranges' = ranges /\ plan' = plan /\ frameNo' = frameNo
  BY DEF Detect
<1>3. ranges = << >> /\ plan = {} /\ clip \in Clip
  BY <1>2 DEF CutsAhead, Early, ShotType
<1>4. clip.scenes \subseteq Nat /\ clip.duration_ms \in Nat /\ 0 < clip.duration_ms
  BY <1>3, ClipType
<1>5. ShotType'
  BY <1>1, <1>2, <1>4 DEF ShotType
<1>6. CutsAhead'
  BY <1>1, <1>2, <1>3, <1>4 DEF CutsAhead, Edge, IsInternal
<1>7. Chained(ranges)' /\ Covered' /\ (pc \in Early => plan = {})'
  BY <1>2, <1>3 DEF Chained, Covered
<1> QED BY <1>5, <1>6, <1>7

LEMMA AddCutKeepsShots ==
  ASSUME ShotInv, AddCut
  PROVE  ShotInv'
<1> USE DEF ShotInv
<1>1. PICK b \in cuts : /\ \A c \in cuts : b <= c
                        /\ cuts' = cuts \ {b}
                        /\ ranges' = AddRange(ranges, b)
  BY DEF AddCut
<1>2. /\ pc = "cut" /\ pc' = "cut" /\ clip' = clip /\ plan' = plan /\ frameNo' = frameNo
  BY DEF AddCut
<1>3. /\ b \in Nat /\ Edge(ranges) < b /\ b < clip.duration_ms /\ plan = {}
      /\ ranges \in Seq(TimeRangeMs)
  BY <1>1, <1>2 DEF ShotType, CutsAhead, Early
<1>4. /\ ranges' \in Seq(TimeRangeMs) /\ Chained(ranges') /\ Edge(ranges') = b
  BY <1>1, <1>3, AddRangeChained
<1>5. ShotType'
  BY <1>1, <1>2, <1>4 DEF ShotType
<1>6. \A c \in cuts' : b < c /\ c < clip.duration_ms
  BY <1>1, <1>2, <1>3 DEF ShotType, CutsAhead
<1>7. CutsAhead'
  BY <1>2, <1>3, <1>4, <1>6 DEF CutsAhead
<1>8. Chained(ranges)' /\ Covered' /\ (pc \in Early => plan = {})'
  BY <1>2, <1>3, <1>4 DEF Covered
<1> QED BY <1>5, <1>7, <1>8

LEMMA CloseKeepsShots ==
  ASSUME ShotInv, Close
  PROVE  ShotInv'
<1> USE DEF ShotInv
<1>1. /\ pc = "cut" /\ pc' = "merge" /\ ranges' = AddRange(ranges, clip.duration_ms)
      /\ clip' = clip /\ cuts' = cuts /\ plan' = plan /\ frameNo' = frameNo
  BY DEF Close
<1>2. /\ Edge(ranges) < clip.duration_ms /\ plan = {} /\ ranges \in Seq(TimeRangeMs)
      /\ clip.duration_ms \in Nat
  BY <1>1, ClipType DEF ShotType, CutsAhead, Early
<1>3. /\ ranges' \in Seq(TimeRangeMs) /\ Chained(ranges') /\ Edge(ranges') = clip.duration_ms
  BY <1>1, <1>2, AddRangeChained
<1>4. ShotType' /\ CutsAhead' /\ Covered' /\ (pc \in Early => plan = {})'
  BY <1>1, <1>2, <1>3 DEF ShotType, CutsAhead, Covered
<1> QED BY <1>3, <1>4

LEMMA MergeKeepsShots ==
  ASSUME ShotInv, Merge
  PROVE  ShotInv'
<1> USE DEF ShotInv
<1>1. /\ pc = "merge" /\ pc' = pc /\ NeedsMerge(ranges, MinShotMs)
      /\ ranges' = MergeShort(ranges, MinShotMs)
      /\ clip' = clip /\ cuts' = cuts /\ plan' = plan /\ frameNo' = frameNo
  BY DEF Merge
<1>2. ranges \in Seq(TimeRangeMs) /\ MinShotMs \in Nat
  BY MinShotAssumption DEF ShotType
<1>3. PICK k \in 1..(Len(ranges) - 1) : ranges' = Join(ranges, k)
  BY <1>1, <1>2, MergeIsJoin
<1>4. /\ ranges' \in Seq(TimeRangeMs) /\ Chained(ranges') /\ Edge(ranges') = Edge(ranges)
  BY <1>2, <1>3, JoinChained
<1>5. ShotType' /\ CutsAhead' /\ Covered' /\ (pc \in Early => plan = {})'
  BY <1>1, <1>4 DEF ShotType, CutsAhead, Covered, Early
<1> QED BY <1>4, <1>5

\* The steps of the sampling after the merge, and every later one, leave the shots
\* alone.
RestStep ==
  /\ UNCHANGED << clip, cuts, ranges >>
  /\ frameNo' \in Nat
  /\ pc' \notin {"detect", "cut"} \/ pc' = pc
  /\ \/ pc \notin {"detect", "cut", "failed", "canceled"}
     \/ pc' \in {pc, "failed", "canceled"}
  /\ \/ pc' \in Early /\ pc \in Early /\ plan' = plan
     \/ pc' \notin Early /\ (plan' = plan \/ pc = "merge")

LEMMA RestKeepsShots ==
  ASSUME ShotInv, RestStep
  PROVE  ShotInv'
<1> USE DEF ShotInv
<1>1. ShotType' /\ Chained(ranges)' /\ CutsAhead' /\ (pc \in Early => plan = {})'
  BY DEF RestStep, ShotType, CutsAhead, Chained, Edge
<1>2. Covered'
  BY DEF RestStep, Covered, Edge
<1> QED BY <1>1, <1>2

LEMMA ShotInvStep ==
  ASSUME ShotInv, [Next]_vars
  PROVE  ShotInv'
<1>0. frameNo \in Nat
  BY DEF ShotInv, ShotType
<1>1. CASE Sample
  <2>0. SamplingNext
    BY <1>1 DEF Sample
  <2>1. CASE Detect
    BY <2>1, DetectKeepsShots
  <2>2. CASE DetectFails
    <3>1. RestStep
      BY <2>2, <1>0 DEF RestStep, DetectFails, Early
    <3> QED BY <3>1, RestKeepsShots
  <2>3. CASE AddCut
    BY <2>3, AddCutKeepsShots
  <2>4. CASE Close
    BY <2>4, CloseKeepsShots
  <2>5. CASE Merge
    BY <2>5, MergeKeepsShots
  <2>6. CASE Plan
    <3>1. RestStep
      BY <2>6, <1>0 DEF RestStep, Plan, Early
    <3> QED BY <3>1, RestKeepsShots
  <2>7. CASE ConsumeFrame
    <3>1. RestStep
      BY <2>7, <1>0 DEF RestStep, ConsumeFrame, Early
    <3> QED BY <3>1, RestKeepsShots
  <2>8. CASE ExtractFails
    <3>1. RestStep
      BY <2>8, <1>0 DEF RestStep, ExtractFails, Early
    <3> QED BY <3>1, RestKeepsShots
  <2>9. CASE EndOfFrames
    <3>1. RestStep
      BY <2>9, <1>0 DEF RestStep, EndOfFrames, Early
    <3> QED BY <3>1, RestKeepsShots
  <2>10. CASE StoreSample
    <3>1. RestStep
      BY <2>10, <1>0 DEF RestStep, StoreSample, Early
    <3> QED BY <3>1, RestKeepsShots
  <2>11. CASE StoreManifest
    <3>1. RestStep
      BY <2>11, <1>0 DEF RestStep, StoreManifest, Early
    <3> QED BY <3>1, RestKeepsShots
  <2>12. CASE SamplingCancel
    <3>1. RestStep
      BY <2>12, <1>0 DEF RestStep, SamplingCancel, Cancel, Early
    <3> QED BY <3>1, RestKeepsShots
  <2> QED
    BY <2>0, <2>1, <2>2, <2>3, <2>4, <2>5, <2>6, <2>7, <2>8, <2>9, <2>10, <2>11, <2>12
       DEF SamplingNext
<1>2. CASE Next /\ ~Sample
  <2>1. RestStep
    BY <1>2, <1>0, LaterSteps DEF RestStep, sampled, Early
  <2> QED BY <2>1, RestKeepsShots
<1>3. CASE UNCHANGED vars
  <2>1. RestStep
    BY <1>3, <1>0 DEF RestStep, vars, samplingVars, Early
  <2> QED BY <2>1, RestKeepsShots
<1> QED BY <1>1, <1>2, <1>3

\* The shots of every clip cover it without a gap or an overlap.
THEOREM ShotsCoverClip == Spec => []ShotsCover
<1>1. Init => ShotInv
  BY ShotInvInit
<1>2. ShotInv /\ [Next]_vars => ShotInv'
  BY ShotInvStep
<1>3. ShotInv => ShotsCover
  BY DEF ShotInv, ShotsCover, Chained, Covered
<1> QED BY <1>1, <1>2, <1>3, PTL DEF Spec

-----------------------------------------------------------------------------
(* Every sample lies in its own shot.                                      *)

LEMMA ClampWithin ==
  ASSUME NEW r \in TimeRangeMs, r.start_ms < r.end_ms, NEW raw \in Int, NEW d \in Nat
  PROVE  Clamp(raw, r, d) \in Int /\ Within(Clamp(raw, r, d), r)
<1>1. r.start_ms \in Nat /\ r.end_ms \in Nat
  BY DEF TimeRangeMs
<1>2. CASE r.end_ms - 2 * d > r.start_ms + 2 * d
  BY <1>1, <1>2 DEF Clamp, Within, Smaller, Larger
<1>3. CASE ~(r.end_ms - 2 * d > r.start_ms + 2 * d)
  BY <1>1, <1>3 DEF Clamp, Within, Smaller, Larger
<1> QED BY <1>2, <1>3

LEMMA FrameDurationType ==
  ASSUME NEW c \in Clip
  PROVE  /\ frame_duration_ms(c.numerator, c.denominator) \in Nat
         /\ frame_duration_ms(c.numerator, c.denominator) >= 1
<1> DEFINE q == (2000 * c.denominator + c.numerator) \div (2 * c.numerator)
<1>1. c.numerator \in Nat /\ 0 < c.numerator /\ c.denominator \in Nat
  BY ClipType
<1>2. /\ 2 * c.numerator \in Nat /\ 2 * c.numerator > 0
      /\ 2000 * c.denominator + c.numerator \in Nat
  BY <1>1
<1>3. q \in Int
  BY <1>2
<1> HIDE DEF q
<1>4. frame_duration_ms(c.numerator, c.denominator) = Larger(1, q)
  BY DEF frame_duration_ms, q
<1> QED BY <1>3, <1>4 DEF Larger

\* A rate gives at least one sample.
LEMMA CountType ==
  ASSUME NEW r \in TimeRangeMs, r.start_ms < r.end_ms, NEW fps \in Nat, NEW d \in Nat, d >= 1,
         NEW least \in Nat, least >= 1, NEW most \in Nat, most >= 1
  PROVE  ClampedCount(r, fps, least, most, d) \in Nat /\ ClampedCount(r, fps, least, most, d) >= 1
<1> DEFINE estimated == (2 * duration_ms(r) * fps + 1000) \div 2000
           frames == duration_ms(r) \div d
<1>1. duration_ms(r) \in Nat
  BY DEF duration_ms, TimeRangeMs
<1>2. 2 * duration_ms(r) * fps + 1000 \in Int
  BY <1>1
<1>3. estimated \in Int /\ frames \in Int
  BY <1>1, <1>2
<1>4. ClampedCount(r, fps, least, most, d)
        = Smaller(Smaller(Larger(estimated, least), most), Larger(1, frames))
  BY DEF ClampedCount
<1> HIDE DEF estimated, frames
<1> QED BY <1>3, <1>4 DEF Smaller, Larger

LEMMA EvenTimesType ==
  ASSUME NEW r \in TimeRangeMs, r.start_ms < r.end_ms, NEW n \in Nat, n >= 1
  PROVE  EvenTimes(r, n) \subseteq Int /\ EvenTimes(r, n) # {}
<1>1. r.start_ms \in Int /\ duration_ms(r) \in Int
  BY DEF duration_ms, TimeRangeMs
<1>2. ASSUME NEW k \in 0..(n - 1)
      PROVE  r.start_ms + ((2 * k + 1) * duration_ms(r)) \div (2 * n) \in Int
  <2>1. (2 * k + 1) * duration_ms(r) \in Int /\ 2 * n \in Int /\ 2 * n > 0
    BY <1>1
  <2>2. ((2 * k + 1) * duration_ms(r)) \div (2 * n) \in Int
    BY <2>1
  <2> QED BY <1>1, <2>2
<1>3. 0 \in 0..(n - 1)
  OBVIOUS
<1> QED BY <1>2, <1>3 DEF EvenTimes

LEMMA ChromaticTimesType ==
  ASSUME NEW r \in TimeRangeMs
  PROVE  ChromaticTimes(r) \subseteq Int /\ ChromaticTimes(r) # {}
<1>1. r.start_ms \in Int /\ duration_ms(r) \in Int
  BY DEF duration_ms, TimeRangeMs
<1>2. SamplesPerShot \in Nat /\ SamplesPerShot >= 1
  BY RatesAssumption
<1>3. ASSUME NEW f \in Int
      PROVE  r.start_ms + (f * duration_ms(r)) \div 10 \in Int
  BY <1>1
<1>4. ASSUME NEW k \in 1..SamplesPerShot
      PROVE  r.start_ms + (k * duration_ms(r)) \div (SamplesPerShot + 1) \in Int
  <2>1. k * duration_ms(r) \in Int /\ SamplesPerShot + 1 \in Int /\ SamplesPerShot + 1 > 0
    BY <1>1, <1>2
  <2>2. (k * duration_ms(r)) \div (SamplesPerShot + 1) \in Int
    BY <2>1
  <2> QED BY <1>1, <2>2
<1>5. CASE SamplesPerShot = 3
  BY <1>3, <1>5 DEF ChromaticTimes
<1>6. CASE SamplesPerShot # 3
  <2>1. 1 \in 1..SamplesPerShot
    BY <1>2
  <2> QED BY <1>4, <1>6, <2>1 DEF ChromaticTimes
<1> QED BY <1>5, <1>6

\* Every purpose asks for an instant.
LEMMA RawTimesType ==
  ASSUME NEW r \in TimeRangeMs, r.start_ms < r.end_ms, NEW d \in Nat, d >= 1,
         NEW purpose \in SamplePurpose
  PROVE  RawTimes(r, purpose, d) \subseteq Int /\ RawTimes(r, purpose, d) # {}
<1>1. CASE purpose = "CHROMATIC"
  BY <1>1, ChromaticTimesType DEF RawTimes
<1>2. CASE purpose = "COMPOSITION"
  <2> DEFINE n == ClampedCount(r, CompositionFps, COMPOSITION_MIN_SAMPLES,
                               COMPOSITION_MAX_SAMPLES, d)
  <2>1. CompositionFps \in Nat
    BY RatesAssumption
  <2>2. n \in Nat /\ n >= 1
    BY <2>1, CountType DEF COMPOSITION_MIN_SAMPLES, COMPOSITION_MAX_SAMPLES
  <2>3. RawTimes(r, purpose, d) = EvenTimes(r, n)
    BY <1>2 DEF RawTimes
  <2> HIDE DEF n
  <2> QED BY <2>2, <2>3, EvenTimesType
<1>3. CASE purpose = "MOTION"
  <2> DEFINE n == ClampedCount(r, MotionFps, 1, MOTION_MAX_SAMPLES, d)
  <2>1. MotionFps \in Nat
    BY RatesAssumption
  <2>2. n \in Nat /\ n >= 1
    BY <2>1, CountType DEF MOTION_MAX_SAMPLES
  <2>3. RawTimes(r, purpose, d) = EvenTimes(r, n)
    BY <1>3 DEF RawTimes
  <2> HIDE DEF n
  <2> QED BY <2>2, <2>3, EvenTimesType
<1>4. CASE purpose = "EVIDENCE"
  <2>1. r.start_ms \in Int /\ duration_ms(r) \in Int
    BY DEF duration_ms, TimeRangeMs
  <2>2. r.start_ms + duration_ms(r) \div 2 \in Int
    BY <2>1
  <2>3. RawTimes(r, purpose, d) = {r.start_ms + duration_ms(r) \div 2}
    BY <1>4 DEF RawTimes
  <2> QED BY <2>2, <2>3
<1> QED BY <1>1, <1>2, <1>3, <1>4 DEF SamplePurpose

LEMMA TimesWithin ==
  ASSUME NEW r \in TimeRangeMs, r.start_ms < r.end_ms, NEW d \in Nat, d >= 1,
         NEW purpose \in SamplePurpose
  PROVE  /\ Times(r, purpose, d) # {}
         /\ \A t \in Times(r, purpose, d) : t \in Int /\ Within(t, r)
BY RawTimesType, ClampWithin DEF Times

\* What a plan over a covering asks for.
LEMMA PlanWithin ==
  ASSUME NEW rs \in Seq(TimeRangeMs), Chained(rs), NEW d \in Nat, d >= 1
  PROVE  /\ \A q \in plan_samples(rs, d) :
              /\ q.shot \in 1..Len(rs) /\ Within(q.requested_ms, rs[q.shot])
              /\ q.requested_ms \in Nat
         /\ \A i \in 1..Len(rs), purpose \in SamplePurpose :
              \E q \in plan_samples(rs, d) : q.shot = i /\ purpose \in q.purposes
<1>1. ASSUME NEW i \in 1..Len(rs), NEW purpose \in SamplePurpose
      PROVE  /\ Times(rs[i], purpose, d) # {}
             /\ \A t \in Times(rs[i], purpose, d) : t \in Int /\ Within(t, rs[i])
  <2>1. rs[i] \in TimeRangeMs /\ rs[i].start_ms < rs[i].end_ms
    BY RangeType DEF Chained
  <2> QED BY <2>1, TimesWithin
<1>2. ASSUME NEW i \in 1..Len(rs), NEW t \in AllTimes(rs[i], d)
      PROVE  t \in Nat /\ Within(t, rs[i])
  <2>1. PICK purpose \in SamplePurpose : t \in Times(rs[i], purpose, d)
    BY DEF AllTimes
  <2>2. t \in Int /\ Within(t, rs[i])
    BY <2>1, <1>1
  <2>3. rs[i].start_ms \in Nat
    BY RangeType
  <2> QED BY <2>2, <2>3 DEF Within
<1> DEFINE Q(i, t) == [shot |-> i, requested_ms |-> t, purposes |-> Purposes(rs[i], t, d)]
<1>3. plan_samples(rs, d) = UNION {{Q(i, t) : t \in AllTimes(rs[i], d)} : i \in 1..Len(rs)}
  BY DEF plan_samples
<1>4. \A i, t : Q(i, t).shot = i /\ Q(i, t).requested_ms = t
                /\ Q(i, t).purposes = Purposes(rs[i], t, d)
  OBVIOUS
<1> HIDE DEF Q
<1>5. ASSUME NEW q \in plan_samples(rs, d)
      PROVE  /\ q.shot \in 1..Len(rs) /\ Within(q.requested_ms, rs[q.shot])
             /\ q.requested_ms \in Nat
  <2>1. PICK i \in 1..Len(rs) : \E t \in AllTimes(rs[i], d) : q = Q(i, t)
    BY <1>3
  <2>2. PICK t \in AllTimes(rs[i], d) : q = Q(i, t)
    BY <2>1
  <2> QED BY <2>2, <1>2, <1>4
<1>6. ASSUME NEW i \in 1..Len(rs), NEW purpose \in SamplePurpose
      PROVE  \E q \in plan_samples(rs, d) : q.shot = i /\ purpose \in q.purposes
  <2>1. PICK t : t \in Times(rs[i], purpose, d)
    BY <1>1
  <2>2. t \in AllTimes(rs[i], d) /\ purpose \in Purposes(rs[i], t, d)
    BY <2>1 DEF AllTimes, Purposes
  <2>3. Q(i, t) \in plan_samples(rs, d)
    BY <2>2, <1>3
  <2> QED BY <2>2, <2>3, <1>4
<1> QED BY <1>5, <1>6

-----------------------------------------------------------------------------
(* Every decoded sample is its request's own frame.                        *)

\* The requests that wait come after every frame that has been decoded.
Waiting ==
  /\ pending \subseteq plan
  /\ frameNo <= Len(clip.frames)
  /\ \A q \in pending, k \in 1..frameNo : clip.frames[k] < q.requested_ms
  /\ \A q \in plan : q.requested_ms \in Nat

SampleInv ==
  /\ ShotInv
  /\ pc \in Early => frameNo = 0
  /\ SamplesInShots
  /\ Waiting
  /\ \A a \in captured : a.request \in plan
  /\ OwnFrames

LEMMA SampleInvInit ==
  ASSUME Init
  PROVE  SampleInv
<1>1. /\ pc = "detect" /\ plan = {} /\ pending = {} /\ captured = {} /\ frameNo = 0
      /\ clip \in Clips
  BY DEF Init, SamplingInit
<1>2. Len(clip.frames) \in Nat
  BY <1>1, ClipsAssumption, ClipType
<1> QED BY <1>1, <1>2, ShotInvInit DEF SampleInv, SamplesInShots, Waiting, OwnFrames

LEMMA PlanKeepsSamples ==
  ASSUME SampleInv, ShotInv', Plan
  PROVE  SampleInv'
<1> USE DEF SampleInv
<1>1. /\ pc = "merge" /\ clip' = clip /\ ranges' = ranges /\ captured' = captured
      /\ frameNo' = frameNo /\ pc' \notin Early
  BY DEF Plan, Early
<1>2. plan = {} /\ captured = {} /\ frameNo = 0 /\ pending = {}
  BY <1>1 DEF ShotInv, Early, Waiting
<1>3. \/ plan' = {} /\ pending' = {}
      \/ plan' = plan_samples(ranges, frame) /\ pending' = plan'
  BY <1>2 DEF Plan
<1>4. ranges \in Seq(TimeRangeMs) /\ Chained(ranges) /\ clip \in Clip
  BY DEF ShotInv, ShotType
<1>5. frame \in Nat /\ frame >= 1
  BY <1>4, FrameDurationType DEF frame
<1>6. Len(clip.frames) \in Nat
  BY <1>4, ClipType
<1>7. SamplesInShots' /\ \A q \in plan' : q.requested_ms \in Nat
  <2>1. CASE plan' = {}
    BY <2>1 DEF SamplesInShots
  <2>2. CASE plan' = plan_samples(ranges, frame)
    BY <2>2, <1>1, <1>4, <1>5, PlanWithin DEF SamplesInShots
  <2> QED BY <1>3, <2>1, <2>2
<1>8. Waiting'
  BY <1>1, <1>2, <1>3, <1>6, <1>7 DEF Waiting
<1> QED BY <1>1, <1>2, <1>7, <1>8 DEF OwnFrames

LEMMA ConsumeKeepsSamples ==
  ASSUME SampleInv, ShotInv', ConsumeFrame
  PROVE  SampleInv'
<1> USE DEF SampleInv
<1> DEFINE at == clip.frames[frameNo + 1]
           due == IF at = NoTime THEN {} ELSE {q \in pending : q.requested_ms <= at}
<1>1. /\ frameNo < Len(clip.frames) /\ frameNo' = frameNo + 1
      /\ clip' = clip /\ ranges' = ranges /\ plan' = plan /\ pc' = pc /\ pc = "extract"
  BY DEF ConsumeFrame
<1>2. /\ pending' = pending \ due
      /\ captured' = captured \cup {Answers(q, at, frameNo + 1) : q \in due}
  BY DEF ConsumeFrame
<1>3. /\ frameNo \in Nat /\ Len(clip.frames) \in Nat
      /\ \A k \in 1..Len(clip.frames) : clip.frames[k] \in Int
      /\ clip.frames \in Seq(Nat \cup {NoTime})
  <2>1. frameNo \in Nat /\ clip.frames \in Seq(Nat \cup {NoTime})
    BY ClipType DEF ShotInv, ShotType
  <2> QED BY <2>1 DEF NoTime
<1>4. frameNo + 1 \in 1..Len(clip.frames) /\ at \in Int
  BY <1>1, <1>3
<1>5. due \subseteq pending /\ due \subseteq plan
  BY DEF Waiting
<1>6. \A q \in pending : q.requested_ms \in Nat
  BY DEF Waiting
<1>7. \A q \in due : q.requested_ms <= at
  OBVIOUS
<1>8. \A q \in pending \ due : at < q.requested_ms
  <2> SUFFICES ASSUME NEW q \in pending \ due PROVE at < q.requested_ms
    OBVIOUS
  <2>1. CASE at = NoTime
    BY <2>1, <1>6 DEF NoTime
  <2>2. CASE at # NoTime
    <3>1. ~(q.requested_ms <= at)
      BY <2>2
    <3> QED BY <3>1, <1>4, <1>6
  <2> QED BY <2>1, <2>2
<1> HIDE DEF due, at
<1>9. Waiting'
  <2>1. ASSUME NEW q \in pending', NEW k \in 1..(frameNo + 1)
        PROVE  clip.frames[k] < q.requested_ms
    <3>1. CASE k = frameNo + 1
      BY <3>1, <1>2, <1>8 DEF at
    <3>2. CASE k # frameNo + 1
      <4>1. k \in 1..frameNo
        BY <3>2, <1>3
      <4> QED BY <4>1, <1>2 DEF Waiting
    <3> QED BY <3>1, <3>2
  <2>2. frameNo' <= Len(clip.frames)
    BY <1>1, <1>3
  <2> QED BY <2>1, <2>2, <1>1, <1>2 DEF Waiting
<1>10. \A q \in due : Answers(q, at, frameNo + 1).request = q
  BY DEF Answers, Absent
<1>11. \A a \in captured' : a.request \in plan'
  BY <1>1, <1>2, <1>5, <1>10
<1>12. ASSUME NEW q \in due, Decoded(Answers(q, at, frameNo + 1))
       PROVE  LET a == Answers(q, at, frameNo + 1) IN
              /\ Within(a.decoded_ms, ranges[a.request.shot])
              /\ a.decoded_ms = clip.frames[a.frame]
              /\ a.request.requested_ms <= a.decoded_ms
              /\ \A k \in 1..(a.frame - 1) : clip.frames[k] < a.request.requested_ms
  <2> DEFINE a == Answers(q, at, frameNo + 1)
  <2>1. Within(at, ranges[q.shot])
    BY <1>12 DEF Answers, Decoded, Absent
  <2>2. a.request = q /\ a.decoded_ms = at /\ a.frame = frameNo + 1
    BY <2>1 DEF Answers
  <2> HIDE DEF a
  <2>3. (frameNo + 1) - 1 = frameNo
    BY <1>3
  <2>4. \A k \in 1..frameNo : clip.frames[k] < q.requested_ms
    BY <1>5 DEF Waiting
  <2> QED BY <2>1, <2>2, <2>3, <2>4, <1>7 DEF a, at
<1>13. OwnFrames'
  <2> SUFFICES ASSUME NEW a \in captured', Decoded(a)
               PROVE  /\ Within(a.decoded_ms, ranges[a.request.shot])
                      /\ a.decoded_ms = clip.frames[a.frame]
                      /\ a.request.requested_ms <= a.decoded_ms
                      /\ \A k \in 1..(a.frame - 1) : clip.frames[k] < a.request.requested_ms
    BY <1>1 DEF OwnFrames
  <2>1. CASE a \in captured
    BY <2>1 DEF OwnFrames
  <2>2. CASE a \notin captured
    <3>1. PICK q \in due : a = Answers(q, at, frameNo + 1)
      BY <2>2, <1>2
    <3> QED BY <3>1, <1>12
  <2> QED BY <2>1, <2>2
<1>14. SamplesInShots'
  BY <1>1 DEF SamplesInShots
<1>15. (pc \in Early => frameNo = 0)'
  BY <1>1 DEF Early
<1> QED BY <1>9, <1>11, <1>13, <1>14, <1>15

LEMMA EndKeepsSamples ==
  ASSUME SampleInv, ShotInv', EndOfFrames
  PROVE  SampleInv'
<1> USE DEF SampleInv
<1>1. /\ pending' = {} /\ captured' = captured \cup {Absent(q, "MISSING") : q \in pending}
      /\ clip' = clip /\ ranges' = ranges /\ plan' = plan /\ frameNo' = frameNo /\ pc' = "store"
  BY DEF EndOfFrames
<1>2. \A q \in pending : Absent(q, "MISSING").request = q /\ ~Decoded(Absent(q, "MISSING"))
  BY DEF Absent, Decoded
<1>3. \A a \in captured' : a.request \in plan'
  BY <1>1, <1>2 DEF Waiting
<1>4. \A a \in captured' : Decoded(a) => a \in captured
  BY <1>1, <1>2
<1>5. OwnFrames'
  BY <1>1, <1>4 DEF OwnFrames
<1>6. Waiting' /\ SamplesInShots' /\ (pc \in Early => frameNo = 0)'
  BY <1>1 DEF Waiting, SamplesInShots, Early
<1> QED BY <1>3, <1>5, <1>6

\* The other steps leave the samples alone, and the shots from the plan on.
QuietStep ==
  /\ UNCHANGED << clip, plan, pending, captured, frameNo >>
  /\ ranges' = ranges \/ pc \in Early
  /\ pc' \in Early => pc \in Early

LEMMA QuietKeepsSamples ==
  ASSUME SampleInv, ShotInv', QuietStep
  PROVE  SampleInv'
<1> USE DEF SampleInv
<1>1. /\ clip' = clip /\ plan' = plan /\ pending' = pending /\ captured' = captured
      /\ frameNo' = frameNo /\ (pc \in Early => frameNo = 0)'
  BY DEF QuietStep
<1>2. Waiting' /\ \A a \in captured' : a.request \in plan'
  BY <1>1 DEF Waiting
<1>3. CASE pc \in Early
  <2>1. plan = {} /\ captured = {}
    BY <1>3 DEF ShotInv
  <2> QED BY <2>1, <1>1, <1>2 DEF SamplesInShots, OwnFrames
<1>4. CASE ranges' = ranges
  BY <1>1, <1>2, <1>4 DEF SamplesInShots, OwnFrames
<1> QED BY <1>3, <1>4 DEF QuietStep

LEMMA SampleInvStep ==
  ASSUME SampleInv, [Next]_vars
  PROVE  SampleInv'
<1>0. ShotInv'
  BY ShotInvStep DEF SampleInv
<1>1. CASE Sample
  <2>0. SamplingNext
    BY <1>1 DEF Sample
  <2>1. CASE Plan
    BY <2>1, <1>0, PlanKeepsSamples
  <2>2. CASE ConsumeFrame
    BY <2>2, <1>0, ConsumeKeepsSamples
  <2>3. CASE EndOfFrames
    BY <2>3, <1>0, EndKeepsSamples
  <2>4. CASE Detect \/ DetectFails \/ AddCut \/ Close \/ Merge
    <3>1. QuietStep
      BY <2>4 DEF QuietStep, Early, Detect, DetectFails, AddCut, Close, Merge
    <3> QED BY <3>1, <1>0, QuietKeepsSamples
  <2>5. CASE ExtractFails \/ StoreSample \/ StoreManifest \/ SamplingCancel
    <3>1. QuietStep
      BY <2>5 DEF QuietStep, Early, ExtractFails, StoreSample, StoreManifest, SamplingCancel, Cancel
    <3> QED BY <3>1, <1>0, QuietKeepsSamples
  <2> QED BY <2>0, <2>1, <2>2, <2>3, <2>4, <2>5 DEF SamplingNext
<1>2. CASE Next /\ ~Sample
  <2>1. QuietStep
    BY <1>2, LaterSteps DEF QuietStep, sampled, Early
  <2> QED BY <2>1, <1>0, QuietKeepsSamples
<1>3. CASE UNCHANGED vars
  <2>1. QuietStep
    BY <1>3 DEF QuietStep, vars, samplingVars
  <2> QED BY <2>1, <1>0, QuietKeepsSamples
<1> QED BY <1>1, <1>2, <1>3

\* Every sample of every plan lies in its own shot, and no shot is left without.
THEOREM SamplesInTheirShots == Spec => []SamplesInShots
<1>1. Init => SampleInv
  BY SampleInvInit
<1>2. SampleInv /\ [Next]_vars => SampleInv'
  BY SampleInvStep
<1>3. SampleInv => SamplesInShots
  BY DEF SampleInv
<1> QED BY <1>1, <1>2, <1>3, PTL DEF Spec

\* What counts as decoded is the first frame at or after its request, in its shot.
THEOREM FramesAreTheirOwn == Spec => []OwnFrames
<1>1. Init => SampleInv
  BY SampleInvInit
<1>2. SampleInv /\ [Next]_vars => SampleInv'
  BY SampleInvStep
<1>3. SampleInv => OwnFrames
  BY DEF SampleInv
<1> QED BY <1>1, <1>2, <1>3, PTL DEF Spec

-----------------------------------------------------------------------------
(* In a regular clip every sample of a long shot is decoded.               *)

\* Every instant of the plan was moved into its shot by Clamp.
Clamped ==
  \A q \in plan : \E raw \in Int : q.requested_ms = Clamp(raw, ranges[q.shot], frame)

LongDecode ==
  Regular =>
    \A a \in captured : duration_ms(ranges[a.request.shot]) >= 5 * frame => Decoded(a)

LongInv == SampleInv /\ Clamped /\ LongDecode

\* In the room between two cuts the instant keeps two frames from both.
LEMMA ClampKeepsAway ==
  ASSUME NEW r \in TimeRangeMs, NEW raw \in Int, NEW d \in Nat, d >= 1,
         duration_ms(r) >= 5 * d
  PROVE  /\ r.start_ms + 2 * d <= Clamp(raw, r, d)
         /\ Clamp(raw, r, d) <= r.end_ms - 2 * d - 1
<1>1. r.start_ms \in Nat /\ r.end_ms \in Nat
  BY DEF TimeRangeMs
<1>2. r.end_ms - 2 * d > r.start_ms + 2 * d
  BY <1>1 DEF duration_ms
<1> QED BY <1>1, <1>2 DEF Clamp, Smaller, Larger

LEMMA PlanClamped ==
  ASSUME NEW rs \in Seq(TimeRangeMs), Chained(rs), NEW d \in Nat, d >= 1,
         NEW q \in plan_samples(rs, d)
  PROVE  \E raw \in Int : q.requested_ms = Clamp(raw, rs[q.shot], d)
<1> DEFINE Q(i, t) == [shot |-> i, requested_ms |-> t, purposes |-> Purposes(rs[i], t, d)]
<1>1. plan_samples(rs, d) = UNION {{Q(i, t) : t \in AllTimes(rs[i], d)} : i \in 1..Len(rs)}
  BY DEF plan_samples
<1>2. \A i, t : Q(i, t).shot = i /\ Q(i, t).requested_ms = t
  OBVIOUS
<1> HIDE DEF Q
<1>3. PICK i \in 1..Len(rs) : \E t \in AllTimes(rs[i], d) : q = Q(i, t)
  BY <1>1
<1>4. PICK t \in AllTimes(rs[i], d) : q = Q(i, t)
  BY <1>3
<1>5. PICK purpose \in SamplePurpose : t \in Times(rs[i], purpose, d)
  BY DEF AllTimes
<1>6. PICK raw \in RawTimes(rs[i], purpose, d) : t = Clamp(raw, rs[i], d)
  BY <1>5 DEF Times
<1>7. raw \in Int
  <2>1. rs[i] \in TimeRangeMs /\ rs[i].start_ms < rs[i].end_ms
    BY RangeType DEF Chained
  <2> QED BY <2>1, RawTimesType
<1> QED BY <1>2, <1>4, <1>6, <1>7

\* In a regular clip the frame that answers a request of a long shot is in it, and
\* no such request is left when the frames end.
LEMMA LongRequest ==
  ASSUME LongInv, Regular, NEW q \in pending, duration_ms(ranges[q.shot]) >= 5 * frame,
         pc \in {"extract"}
  PROVE  /\ frameNo < Len(clip.frames)
         /\ q.requested_ms <= clip.frames[frameNo + 1] =>
              Within(clip.frames[frameNo + 1], ranges[q.shot])
<1> DEFINE r == ranges[q.shot]
           F(k) == FrameAt(clip.numerator, clip.denominator, k)
           N == Len(clip.frames)
           t == q.requested_ms
<1>1. /\ clip \in Clip /\ ranges \in Seq(TimeRangeMs) /\ Chained(ranges) /\ frameNo \in Nat
      /\ Edge(ranges) = clip.duration_ms
  BY DEF LongInv, SampleInv, ShotInv, ShotType, Covered
<1>2. q \in plan /\ q.shot \in 1..Len(ranges) /\ t \in Nat
  BY DEF LongInv, SampleInv, Waiting, SamplesInShots
<1>3. r \in TimeRangeMs /\ r.start_ms \in Nat /\ r.end_ms \in Nat /\ r.end_ms <= clip.duration_ms
  BY <1>1, <1>2, RangeType, ChainEnds
<1>4. /\ clip.duration_ms \in Nat
      /\ clip.numerator \in Nat /\ 0 < clip.numerator
      /\ clip.denominator \in Nat /\ 0 < clip.denominator
      /\ N \in Nat
  BY <1>1, ClipType
<1>5. frame \in Nat /\ frame >= 1
  BY <1>1, FrameDurationType DEF frame
<1>6. r.start_ms + 2 * frame <= t /\ t <= r.end_ms - 2 * frame - 1
  <2>1. PICK raw \in Int : t = Clamp(raw, r, frame)
    BY <1>2 DEF LongInv, Clamped
  <2> QED BY <2>1, <1>3, <1>5, ClampKeepsAway
<1>7. \A k \in 1..N : clip.frames[k] = F(k)
  BY DEF Regular, FrameAt
<1>8. N = FrameCount(clip.numerator, clip.denominator, clip.duration_ms)
  BY DEF Regular, FrameCount
<1>9. /\ F(1) = 0
      /\ \A k \in Nat \ {0} : F(k) \in Int /\ F(k + 1) \in Int /\ F(k + 1) <= F(k) + frame + 1
      /\ clip.duration_ms >= 5 * frame => N >= 1 /\ F(N) >= clip.duration_ms - 2 * frame - 1
  <2> DEFINE n == clip.numerator  d == clip.denominator  dur == clip.duration_ms
  <2>1. n \in Nat /\ n > 0 /\ d \in Nat /\ d > 0 /\ dur \in Nat
    BY <1>4
  <2>2. frame = frame_duration_ms(n, d) /\ N = FrameCount(n, d, dur)
    BY <1>8 DEF frame
  <2> SUFFICES /\ FrameAt(n, d, 1) = 0
               /\ \A k \in Nat \ {0} : /\ FrameAt(n, d, k) \in Int
                                       /\ FrameAt(n, d, k + 1) \in Int
                                       /\ FrameAt(n, d, k + 1) <= FrameAt(n, d, k) + frame + 1
               /\ dur >= 5 * frame => N >= 1 /\ FrameAt(n, d, N) >= dur - 2 * frame - 1
    OBVIOUS
  <2> HIDE DEF n, d, dur, N
  <2> QED BY <2>1, <2>2, RegularFrames
<1>10. \A k \in 1..frameNo : clip.frames[k] < t
  BY DEF LongInv, SampleInv, Waiting
<1>11. frameNo <= N
  BY DEF LongInv, SampleInv, Waiting
<1> HIDE DEF F, N, r, t
<1>12. frameNo < N
  <2> SUFFICES ASSUME frameNo = N PROVE FALSE
    BY <1>1, <1>4, <1>11
  <2>1. clip.duration_ms >= 5 * frame
    BY <1>3, <1>4, <1>5 DEF duration_ms, r
  <2>2. N \in 1..frameNo /\ N \in 1..N
    BY <2>1, <1>4, <1>9
  <2>3. F(N) < t
    BY <2>2, <1>7, <1>10
  <2>4. F(N) \in Int /\ F(N) >= clip.duration_ms - 2 * frame - 1
    BY <2>1, <2>2, <1>9
  <2>5. t <= clip.duration_ms - 2 * frame - 1 /\ t \in Nat
    BY <1>2, <1>3, <1>4, <1>5, <1>6 DEF t
  <2> QED BY <2>3, <2>4, <2>5, <1>4, <1>5
<1>13. ASSUME t <= clip.frames[frameNo + 1] PROVE Within(clip.frames[frameNo + 1], r)
  <2>1. frameNo + 1 \in 1..N /\ clip.frames[frameNo + 1] = F(frameNo + 1)
    BY <1>1, <1>4, <1>7, <1>12
  <2>2. frameNo # 0
    <3> SUFFICES ASSUME frameNo = 0 PROVE FALSE
      OBVIOUS
    <3>1. t <= 0
      BY <1>9, <1>13, <2>1
    <3> QED BY <3>1, <1>2, <1>3, <1>5, <1>6 DEF t
  <2>3. frameNo \in 1..frameNo /\ frameNo \in 1..N /\ frameNo \in Nat \ {0}
    BY <1>1, <1>4, <1>11, <2>2
  <2>4. F(frameNo) < t
    BY <2>3, <1>7, <1>10
  <2>5. F(frameNo + 1) <= F(frameNo) + frame + 1 /\ F(frameNo) \in Int /\ F(frameNo + 1) \in Int
    BY <2>3, <1>9
  <2>6. t <= F(frameNo + 1) /\ F(frameNo + 1) <= r.end_ms - 1
    BY <1>13, <2>1, <2>4, <2>5, <1>2, <1>3, <1>5, <1>6 DEF t
  <2> DEFINE f == F(frameNo + 1)  s == r.start_ms  e == r.end_ms
  <2>7. f \in Int /\ s \in Nat /\ e \in Nat /\ t \in Nat
    BY <1>2, <1>3, <2>5 DEF t
  <2>8. s + 2 * frame <= t /\ t <= f /\ f <= e - 1
    BY <1>6, <2>6
  <2>9. clip.frames[frameNo + 1] = f
    BY <2>1
  <2>10. Within(f, r) <=> s <= f /\ f < e
    BY DEF Within
  <2> HIDE DEF f, s, e
  <2>11. s <= f /\ f < e
    BY <1>5, <2>7, <2>8
  <2> QED BY <2>9, <2>10, <2>11
<1> QED BY <1>12, <1>13 DEF r, t, N

LEMMA StepsOfSampling ==
  ASSUME [Next]_vars
  PROVE  Plan \/ ConsumeFrame \/ EndOfFrames \/ QuietStep
<1>1. CASE Sample
  BY <1>1 DEF Sample, SamplingNext, QuietStep, Early, Detect, DetectFails, AddCut, Close, Merge,
     ExtractFails, StoreSample, StoreManifest, SamplingCancel, Cancel
<1>2. CASE Next /\ ~Sample
  BY <1>2, LaterSteps DEF QuietStep, sampled, Early
<1>3. CASE UNCHANGED vars
  BY <1>3 DEF QuietStep, vars, samplingVars
<1> QED BY <1>1, <1>2, <1>3

\* What the clip says of itself does not change.
LEMMA ClipStays ==
  ASSUME [Next]_vars
  PROVE  clip' = clip /\ frame' = frame /\ Regular' = Regular
<1>1. clip' = clip
  <2>1. CASE Sample
    BY <2>1 DEF Sample, SamplingNext, Detect, DetectFails, AddCut, Close, Merge, Plan,
       ConsumeFrame, ExtractFails, EndOfFrames, StoreSample, StoreManifest, SamplingCancel, Cancel
  <2>2. CASE Next /\ ~Sample
    BY <2>2, LaterSteps DEF sampled
  <2>3. CASE UNCHANGED vars
    BY <2>3 DEF vars, samplingVars
  <2> QED BY <2>1, <2>2, <2>3
<1> QED BY <1>1 DEF frame, Regular

LEMMA ConsumeKeepsLong ==
  ASSUME LongInv, SampleInv', ConsumeFrame, Regular, frame' = frame
  PROVE  LongDecode'
<1> DEFINE at == clip.frames[frameNo + 1]
<1>1. ranges' = ranges /\ pc = "extract"
  BY DEF ConsumeFrame
<1>2. \A a \in captured' : a \in captured \/
        \E q \in pending : a = Answers(q, at, frameNo + 1) /\ q.requested_ms <= at
  BY DEF ConsumeFrame
<1> HIDE DEF at
<1>3. ASSUME NEW a \in captured', duration_ms(ranges[a.request.shot]) >= 5 * frame
      PROVE  Decoded(a)
  <2>1. CASE a \in captured
    BY <2>1, <1>3 DEF LongInv, LongDecode
  <2>2. CASE a \notin captured
    <3>1. PICK q \in pending : a = Answers(q, at, frameNo + 1) /\ q.requested_ms <= at
      BY <1>2, <2>2
    <3>2. a.request = q
      BY <3>1 DEF Answers, Absent
    <3>3. Within(at, ranges[q.shot])
      BY <1>1, <1>3, <3>1, <3>2, LongRequest DEF at
    <3> QED BY <3>1, <3>3 DEF Answers, Decoded
  <2> QED BY <2>1, <2>2
<1> QED BY <1>1, <1>3 DEF LongDecode

LEMMA EndKeepsLong ==
  ASSUME LongInv, SampleInv', EndOfFrames, Regular, frame' = frame
  PROVE  LongDecode'
<1>1. ranges' = ranges /\ pc = "extract" /\ (pending = {} \/ frameNo = Len(clip.frames))
  BY DEF EndOfFrames
<1>2. \A a \in captured' : a \in captured \/ \E q \in pending : a.request = q
  BY DEF EndOfFrames, Absent
<1>3. \A q \in pending : ~(duration_ms(ranges[q.shot]) >= 5 * frame)
  <2> SUFFICES ASSUME NEW q \in pending, duration_ms(ranges[q.shot]) >= 5 * frame PROVE FALSE
    OBVIOUS
  <2>1. frameNo < Len(clip.frames)
    BY <1>1, LongRequest
  <2>2. Len(clip.frames) \in Nat
    BY ClipType DEF LongInv, SampleInv, ShotInv, ShotType
  <2> QED BY <1>1, <2>1, <2>2
<1>4. ASSUME NEW a \in captured', duration_ms(ranges[a.request.shot]) >= 5 * frame
      PROVE  Decoded(a)
  <2>1. a \in captured
    BY <1>2, <1>3, <1>4
  <2> QED BY <2>1, <1>4 DEF LongInv, LongDecode
<1> QED BY <1>1, <1>4 DEF LongDecode

LEMMA LongInvStep ==
  ASSUME LongInv, [Next]_vars
  PROVE  LongInv'
<1>1. SampleInv' /\ clip' = clip /\ frame' = frame /\ Regular' = Regular
  BY SampleInvStep, ClipStays DEF LongInv
<1>2. CASE Plan
  <2>1. /\ ranges' = ranges /\ captured' = captured /\ pc = "merge"
        /\ \/ plan' = plan
           \/ plan' = plan_samples(ranges, frame)
    BY <1>2 DEF Plan
  <2>2. ranges \in Seq(TimeRangeMs) /\ Chained(ranges) /\ clip \in Clip
    BY DEF LongInv, SampleInv, ShotInv, ShotType
  <2>3. frame \in Nat /\ frame >= 1
    BY <2>2, FrameDurationType DEF frame
  <2>4. Clamped'
    <3>1. CASE plan' = plan
      BY <3>1, <2>1, <1>1 DEF LongInv, Clamped
    <3>2. CASE plan' = plan_samples(ranges, frame)
      BY <3>2, <2>1, <2>2, <2>3, <1>1, PlanClamped DEF Clamped
    <3> QED BY <2>1, <3>1, <3>2
  <2>5. LongDecode'
    BY <1>1, <2>1 DEF LongInv, LongDecode
  <2> QED BY <1>1, <2>4, <2>5 DEF LongInv
<1>3. CASE ConsumeFrame
  <2>1. plan' = plan /\ ranges' = ranges
    BY <1>3 DEF ConsumeFrame
  <2>2. Clamped'
    BY <2>1, <1>1 DEF LongInv, Clamped
  <2>3. CASE Regular
    BY <1>1, <1>3, <2>2, <2>3, ConsumeKeepsLong DEF LongInv
  <2>4. CASE ~Regular
    BY <1>1, <2>2, <2>4 DEF LongInv, LongDecode
  <2> QED BY <2>3, <2>4
<1>4. CASE EndOfFrames
  <2>1. plan' = plan /\ ranges' = ranges
    BY <1>4 DEF EndOfFrames
  <2>2. Clamped'
    BY <2>1, <1>1 DEF LongInv, Clamped
  <2>3. CASE Regular
    BY <1>1, <1>4, <2>2, <2>3, EndKeepsLong DEF LongInv
  <2>4. CASE ~Regular
    BY <1>1, <2>2, <2>4 DEF LongInv, LongDecode
  <2> QED BY <2>3, <2>4
<1>5. CASE QuietStep
  <2>1. plan' = plan /\ captured' = captured
    BY <1>5 DEF QuietStep
  <2>2. CASE pc \in Early
    <3>1. plan = {} /\ captured = {}
      BY <2>2 DEF LongInv, SampleInv, ShotInv
    <3> QED BY <3>1, <2>1, <1>1 DEF LongInv, Clamped, LongDecode
  <2>3. CASE ranges' = ranges
    BY <2>1, <2>3, <1>1 DEF LongInv, Clamped, LongDecode
  <2> QED BY <1>5, <2>2, <2>3 DEF QuietStep
<1>6. Plan \/ ConsumeFrame \/ EndOfFrames \/ QuietStep
  BY StepsOfSampling
<1> QED BY <1>2, <1>3, <1>4, <1>5, <1>6

\* Every sample of a shot of five frames or more of a regular clip is decoded.
THEOREM LongShotsAreDecoded == Spec => []LongShotsDecode
<1>1. Init => LongInv
  <2> SUFFICES ASSUME Init PROVE LongInv
    OBVIOUS
  <2>1. plan = {} /\ captured = {}
    BY DEF Init, SamplingInit
  <2> QED BY <2>1, SampleInvInit DEF LongInv, Clamped, LongDecode
<1>2. LongInv /\ [Next]_vars => LongInv'
  BY LongInvStep
<1>3. LongInv => LongShotsDecode
  BY DEF LongInv, LongDecode, LongShotsDecode
<1> QED BY <1>1, <1>2, <1>3, PTL DEF Spec

-----------------------------------------------------------------------------
(* The verdict: what the report and the aggregate work have been told of   *)
(* the measurements is so.                                                 *)

\* Before the motion is measured; after the shots are fixed and the sound is heard.
BeforeMotion == {"detect", "cut", "merge", "extract", "store", "sampled", "chromatic", "spatial"}
AfterTimeline == {"report", "aggregate", "done", "served"}

Starts == window_starts(total_ms(ranges))

\* A shot that counts as measured has pairs of its own in the series; the next to be
\* measured follows the ones that were.
MotionKnown ==
  /\ temporal \in Seq(BOOLEAN)
  /\ \A i \in 1..Len(temporal) : temporal[i] => \E p \in series : p.shot = i
  /\ pc \in BeforeMotion => temporal = << >>
  /\ pc = "motion" => shot = Len(temporal) + 1

\* One window of sound and one point of the timeline for each start.
SoundKnown ==
  /\ pc \in BeforeMotion \cup {"motion", "audio"} => ~AudioOk
  /\ AudioOk => Len(audio.windows) = Len(Starts)
  /\ pc \in AfterTimeline => Len(timeline.points) = Len(Starts)

\* What the report says is complete was measured in every shot.
ReportKnown ==
  /\ pc \in {"aggregate", "done", "served"} =>
       /\ report.chromatic = "COMPLETE" => \A i \in 1..Len(ranges) : chroma[i] = "OK"
       /\ report.spatial = "COMPLETE" => \A i \in 1..Len(ranges) : space[i] \in {"OK", "NO_SUBJECT"}
       /\ report.motion = "COMPLETE" => \A i \in 1..Len(ranges) : \E p \in series : p.shot = i
       /\ report.audio = "COMPLETE" => AudioOk
  /\ verdict = "SUCCEEDED" => pc \in {"done", "served"} /\ ~optional_pillar_failed

VerdictInv == ShotInv /\ MotionKnown /\ SoundKnown /\ ReportKnown

LEMMA VerdictInvHonest == VerdictInv => VerdictHonest
<1> SUFFICES ASSUME VerdictInv, verdict = "SUCCEEDED" PROVE VerdictHonest
  BY DEF VerdictHonest
<1>1. pc \in {"done", "served"} /\ ~optional_pillar_failed
  BY DEF VerdictInv, ReportKnown
<1>2. /\ \A i \in 1..Len(ranges) : chroma[i] = "OK"
      /\ Backend # "none" => \A i \in 1..Len(ranges) : space[i] \in {"OK", "NO_SUBJECT"}
      /\ \A i \in 1..Len(ranges) : \E p \in series : p.shot = i
  BY <1>1 DEF VerdictInv, ReportKnown, optional_pillar_failed
<1>3. clip.has_audio => AudioOk
  BY <1>1 DEF VerdictInv, ReportKnown, optional_pillar_failed
<1>4. AudioOk => Len(audio.windows) = Len(timeline.points)
  BY <1>1 DEF VerdictInv, SoundKnown, AfterTimeline
<1> QED BY <1>2, <1>3, <1>4 DEF VerdictHonest

LEMMA CompleteIsAll ==
  ASSUME NEW flags, availability(flags) = "COMPLETE"
  PROVE  \A i \in 1..Len(flags) : flags[i]
BY DEF availability

\* The windows of a clip whose shots are fixed are counted by a natural number.
LEMMA StartsType ==
  ASSUME ShotInv, pc \in {"audio", "timeline"}
  PROVE  Len(Starts) \in Nat
<1>1. Edge(ranges) = clip.duration_ms /\ ranges \in Seq(TimeRangeMs) /\ clip \in Clip /\ Chained(ranges)
  BY DEF ShotInv, ShotType, Covered
<1>2. clip.duration_ms \in Nat /\ 0 < clip.duration_ms
  BY <1>1, ClipType
<1>3. ranges # << >>
  BY <1>1, <1>2 DEF Edge
<1>4. 1 \in 1..Len(ranges)
  BY <1>1, <1>3
<1>5. ranges[1].start_ms = 0
  BY <1>1, <1>4 DEF Chained
<1>6. total_ms(ranges) = clip.duration_ms
  BY <1>1, <1>2, <1>3, <1>5 DEF total_ms, Edge
<1> DEFINE n == (clip.duration_ms + HopMs - 1) \div HopMs
<1>7. clip.duration_ms + HopMs - 1 \in Nat /\ HopMs \in Nat /\ HopMs > 0
  BY <1>2, TensionAssumption
<1>8. n \in Nat
  BY <1>7
<1>9. Starts = [k \in 1..n |-> (k - 1) * HopMs]
  BY <1>6 DEF Starts, window_starts
<1> HIDE DEF n
<1> QED BY <1>8, <1>9

LEMMA TimelineLength ==
  ASSUME Len(Starts) \in Nat, NEW s, NEW w, NEW a, NEW m
  PROVE  Len(build_timeline(ranges, s, w, a, m).points) = Len(Starts)
<1>1. \E f : build_timeline(ranges, s, w, a, m).points = [i \in 1..Len(Starts) |-> f[i]]
  <2> DEFINE points == build_timeline(ranges, s, w, a, m).points
  <2>1. points = [i \in 1..Len(Starts) |-> points[i]]
    BY DEF build_timeline, Starts
  <2> QED BY <2>1
<1> QED BY <1>1

LEMMA VerdictInvInit ==
  ASSUME Init
  PROVE  VerdictInv
<1>1. /\ pc = "detect" /\ temporal = << >> /\ audio = NoAudioResult /\ verdict = "none"
  BY DEF Init, SamplingInit
<1>2. MotionKnown
  BY <1>1 DEF MotionKnown
<1>3. SoundKnown
  BY <1>1 DEF SoundKnown, AudioOk, NoAudioResult, AfterTimeline
<1>4. ReportKnown
  BY <1>1 DEF ReportKnown
<1> QED BY <1>2, <1>3, <1>4, ShotInvInit DEF VerdictInv

\* The steps up to the motion, and those that give up before the timeline, say
\* nothing of motion, sound or verdict.
SilentStep ==
  /\ UNCHANGED << temporal, series, audio, verdict >>
  /\ pc \in BeforeMotion \cup {"motion", "audio"}
  /\ pc' \in (BeforeMotion \ {"chromatic", "spatial"}) \cup {"failed", "canceled", "refused"}
  /\ pc' \in BeforeMotion => pc \in BeforeMotion

LEMMA SilentKeepsVerdict ==
  ASSUME VerdictInv, ShotInv', SilentStep
  PROVE  VerdictInv'
<1> USE DEF VerdictInv
<1>1. MotionKnown'
  BY DEF SilentStep, MotionKnown, BeforeMotion
<1>2. ~AudioOk /\ ~AudioOk'
  BY DEF SilentStep, SoundKnown, AudioOk
<1>3. SoundKnown'
  BY <1>2 DEF SilentStep, SoundKnown, AfterTimeline, BeforeMotion
<1>4. verdict # "SUCCEEDED" /\ verdict' = verdict
  BY DEF SilentStep, ReportKnown, BeforeMotion
<1>5. ReportKnown'
  BY <1>4 DEF SilentStep, ReportKnown, BeforeMotion
<1> QED BY <1>1, <1>3, <1>5

\* The colours and the composition of the shots are measured before the motion.
PictureStep ==
  /\ UNCHANGED << ranges, temporal, series, audio, verdict >>
  /\ pc \in BeforeMotion
  /\ pc' \in {"chromatic", "spatial", "motion", "refused"}
  /\ pc' = "motion" => shot' = 1

LEMMA PictureKeepsVerdict ==
  ASSUME VerdictInv, ShotInv', PictureStep
  PROVE  VerdictInv'
<1> USE DEF VerdictInv
<1>1. MotionKnown'
  BY DEF PictureStep, MotionKnown, BeforeMotion
<1>2. ~AudioOk /\ ~AudioOk'
  BY DEF PictureStep, SoundKnown, AudioOk
<1>3. SoundKnown'
  BY <1>2 DEF PictureStep, SoundKnown, AfterTimeline, BeforeMotion
<1>4. verdict # "SUCCEEDED" /\ verdict' = verdict
  BY DEF PictureStep, ReportKnown, BeforeMotion
<1>5. ReportKnown'
  BY <1>4 DEF PictureStep, ReportKnown, BeforeMotion
<1> QED BY <1>1, <1>3, <1>5

LEMMA MotionKeepsVerdict ==
  ASSUME VerdictInv, ShotInv', MeasureMotion
  PROVE  VerdictInv'
<1> USE DEF VerdictInv
<1>1. /\ pc = "motion" /\ UNCHANGED << ranges, audio, verdict >>
  BY DEF MeasureMotion, sampled
<1>2. \/ pc' = "motion" /\ shot' = shot + 1
      \/ pc' = "audio"
  BY DEF MeasureMotion, Advance
<1>3. \E point, unflagged :
        /\ series' = series \cup {point[k] : k \in unflagged}
        /\ \A k \in unflagged : point[k].shot = shot
        /\ temporal' = Append(temporal, unflagged # {})
  <2>1. PICK flows \in Flows :
       LET middles == adjacent_motion_pairs(shot)
           flow(k) == flows[((k - 1) % Len(flows)) + 1]
           unflagged == {k \in 1..Len(middles) :
                           flow(k) # NoFlow /\ flow(k).global <= Discontinuity}
       IN  /\ series' = series \cup
                {[at_ms |-> middles[k], shot |-> shot,
                  global |-> flow(k).global, residual |-> flow(k).residual] : k \in unflagged}
           /\ temporal' = Append(temporal, unflagged # {})
    BY DEF MeasureMotion
  <2> DEFINE middles == adjacent_motion_pairs(shot)
             flow(k) == flows[((k - 1) % Len(flows)) + 1]
             unflagged == {k \in 1..Len(middles) :
                             flow(k) # NoFlow /\ flow(k).global <= Discontinuity}
             point == [k \in unflagged |->
                         [at_ms |-> middles[k], shot |-> shot,
                          global |-> flow(k).global, residual |-> flow(k).residual]]
  <2>2. \A k \in unflagged : point[k] = [at_ms |-> middles[k], shot |-> shot,
                          global |-> flow(k).global, residual |-> flow(k).residual]
    OBVIOUS
  <2>3. /\ series' = series \cup {point[k] : k \in unflagged}
        /\ temporal' = Append(temporal, unflagged # {})
    BY <2>1, <2>2, Zenon
  <2>4. \A k \in unflagged : point[k].shot = shot
    BY <2>2
  <2> QED BY <2>3, <2>4
<1>4. PICK point, unflagged :
        /\ series' = series \cup {point[k] : k \in unflagged}
        /\ \A k \in unflagged : point[k].shot = shot
        /\ temporal' = Append(temporal, unflagged # {})
  BY <1>3
<1>5. temporal \in Seq(BOOLEAN) /\ shot = Len(temporal) + 1
  BY <1>1 DEF MotionKnown
<1>6. /\ temporal' \in Seq(BOOLEAN) /\ Len(temporal') = Len(temporal) + 1
      /\ \A i \in 1..Len(temporal) : temporal'[i] = temporal[i]
      /\ temporal'[shot] = (unflagged # {})
      /\ Len(temporal) \in Nat
  BY <1>4, <1>5
<1>7. ASSUME NEW i \in 1..Len(temporal'), temporal'[i]
      PROVE  \E p \in series' : p.shot = i
  <2>1. CASE i \in 1..Len(temporal)
    <3>1. temporal[i]
      BY <1>6, <1>7, <2>1
    <3>2. PICK p \in series : p.shot = i
      BY <2>1, <3>1 DEF MotionKnown
    <3> QED BY <3>2, <1>4
  <2>2. CASE i = shot
    <3>1. unflagged # {}
      BY <1>6, <1>7, <2>2
    <3>2. PICK k \in unflagged : TRUE
      BY <3>1
    <3>3. point[k] \in series' /\ point[k].shot = i
      BY <1>4, <2>2, <3>2
    <3> QED BY <3>3
  <2> QED BY <2>1, <2>2, <1>5, <1>6
<1>8. MotionKnown'
  BY <1>1, <1>2, <1>5, <1>6, <1>7 DEF MotionKnown, BeforeMotion
<1>9. SoundKnown'
  BY <1>1, <1>2 DEF SoundKnown, AudioOk, AfterTimeline
<1>10. ReportKnown'
  BY <1>1, <1>2 DEF ReportKnown
<1> QED BY <1>8, <1>9, <1>10

LEMMA AudioKeepsVerdict ==
  ASSUME VerdictInv, ShotInv', AnalyzeAudio
  PROVE  VerdictInv'
<1> USE DEF VerdictInv
<1>1. /\ pc = "audio" /\ pc' = "timeline" /\ UNCHANGED << ranges, temporal, series, verdict >>
  BY DEF AnalyzeAudio, sampled
<1>2. Len(Starts) \in Nat
  BY <1>1, StartsType
<1>3. \/ audio'.status # "OK"
      \/ \E f : audio'.windows = [i \in 1..Len(Starts) |-> f[i]]
  <2>1. CASE ~clip.has_audio
    BY <2>1 DEF AnalyzeAudio, NoAudioResult
  <2>2. CASE audio' = [NoAudioResult EXCEPT !.status = "FAILED"]
    BY <2>2 DEF NoAudioResult
  <2>3. CASE \E sound \in Sounds :
               LET starts == window_starts(total_ms(ranges)) IN
               audio' = [status |-> "OK",
                         windows |-> [i \in 1..Len(starts) |-> window_features(sound, starts[i])]]
    <3>1. PICK sound \in Sounds :
               audio' = [status |-> "OK",
                         windows |-> [i \in 1..Len(Starts) |-> window_features(sound, Starts[i])]]
      BY <2>3 DEF Starts
    <3> DEFINE f == [i \in 1..Len(Starts) |-> window_features(sound, Starts[i])]
    <3>2. audio'.windows = f
      BY <3>1
    <3>3. f = [i \in 1..Len(Starts) |-> f[i]]
      OBVIOUS
    <3> QED BY <3>2, <3>3
  <2> QED BY <2>1, <2>2, <2>3 DEF AnalyzeAudio
<1>4. AudioOk' => Len(audio'.windows) = Len(Starts)
  <2> SUFFICES ASSUME AudioOk' PROVE Len(audio'.windows) = Len(Starts)
    OBVIOUS
  <2>1. PICK f : audio'.windows = [i \in 1..Len(Starts) |-> f[i]]
    BY <1>3 DEF AudioOk
  <2> DEFINE n == Len(Starts)
  <2>2. n \in Nat /\ audio'.windows = [i \in 1..n |-> f[i]]
    BY <1>2, <2>1
  <2> HIDE DEF n
  <2>3. Len(audio'.windows) = n
    BY <2>2
  <2> QED BY <2>3 DEF n
<1>5. Starts' = Starts
  BY <1>1 DEF Starts
<1>6. SoundKnown'
  BY <1>1, <1>4, <1>5 DEF SoundKnown, BeforeMotion, AfterTimeline
<1>7. MotionKnown' /\ ReportKnown'
  BY <1>1 DEF MotionKnown, ReportKnown, BeforeMotion
<1> QED BY <1>6, <1>7

LEMMA TimelineKeepsVerdict ==
  ASSUME VerdictInv, ShotInv', BuildTimeline
  PROVE  VerdictInv'
<1> USE DEF VerdictInv
<1>1. /\ pc = "timeline" /\ pc' \in {"report", "refused"}
      /\ UNCHANGED << ranges, temporal, series, audio, verdict >>
  BY DEF BuildTimeline, sampled
<1>2. Len(timeline'.points) = Len(Starts)
  BY <1>1, StartsType, TimelineLength DEF BuildTimeline
<1>3. Starts' = Starts /\ AudioOk' = AudioOk
  BY <1>1 DEF Starts, AudioOk
<1>4. SoundKnown'
  BY <1>1, <1>2, <1>3 DEF SoundKnown, BeforeMotion, AfterTimeline
<1>5. MotionKnown' /\ ReportKnown'
  BY <1>1 DEF MotionKnown, ReportKnown, BeforeMotion
<1> QED BY <1>4, <1>5

LEMMA ReportKeepsVerdict ==
  ASSUME VerdictInv, ShotInv', AssembleReport
  PROVE  VerdictInv'
<1> USE DEF VerdictInv
<1> DEFINE colours == [i \in 1..Len(chroma) |-> chroma[i] = "OK"]
           persons == [i \in 1..Len(space) |-> space[i] \in {"OK", "NO_SUBJECT"}]
<1>1. /\ pc = "report" /\ pc' \in {"aggregate", "refused"}
      /\ UNCHANGED << ranges, chroma, space, temporal, series, audio, timeline, verdict >>
      /\ pc' = "aggregate" => {Len(chroma), Len(space), Len(temporal)} = {Len(ranges)}
  BY DEF AssembleReport, sampled
<1>2. /\ report'.chromatic = availability(colours)
      /\ report'.spatial = availability(persons)
      /\ report'.motion = availability(temporal)
      /\ report'.audio = IF AudioOk THEN "COMPLETE" ELSE "UNAVAILABLE"
  BY DEF AssembleReport
<1>3. Starts' = Starts /\ AudioOk' = AudioOk
  BY <1>1 DEF Starts, AudioOk
<1>4. MotionKnown' /\ SoundKnown'
  BY <1>1, <1>3 DEF MotionKnown, SoundKnown, BeforeMotion, AfterTimeline
<1>5. verdict' # "SUCCEEDED"
  BY <1>1 DEF ReportKnown
<1>6. ASSUME pc' = "aggregate"
      PROVE  /\ report'.chromatic = "COMPLETE" => \A i \in 1..Len(ranges) : chroma[i] = "OK"
             /\ report'.spatial = "COMPLETE" =>
                  \A i \in 1..Len(ranges) : space[i] \in {"OK", "NO_SUBJECT"}
             /\ report'.motion = "COMPLETE" =>
                  \A i \in 1..Len(ranges) : \E p \in series : p.shot = i
             /\ report'.audio = "COMPLETE" => AudioOk
  <2>1. /\ Len(chroma) = Len(ranges) /\ Len(space) = Len(ranges) /\ Len(temporal) = Len(ranges)
        /\ Len(ranges) \in Nat
    BY <1>1, <1>6 DEF ShotInv, ShotType
  <2>2. Len(colours) = Len(ranges) /\ Len(persons) = Len(ranges)
    BY <2>1
  <2>3. /\ \A i \in 1..Len(ranges) : colours[i] = (chroma[i] = "OK")
        /\ \A i \in 1..Len(ranges) : persons[i] = (space[i] \in {"OK", "NO_SUBJECT"})
    BY <2>1, Zenon
  <2> HIDE DEF colours, persons
  <2>4. ASSUME report'.chromatic = "COMPLETE", NEW i \in 1..Len(ranges) PROVE chroma[i] = "OK"
    <3>1. availability(colours) = "COMPLETE"
      BY <2>4, <1>2
    <3>2. colours[i]
      BY <3>1, <2>2, CompleteIsAll
    <3> QED BY <3>2, <2>3
  <2>5. ASSUME report'.spatial = "COMPLETE", NEW i \in 1..Len(ranges)
        PROVE  space[i] \in {"OK", "NO_SUBJECT"}
    <3>1. availability(persons) = "COMPLETE"
      BY <2>5, <1>2
    <3>2. persons[i]
      BY <3>1, <2>2, CompleteIsAll
    <3> QED BY <3>2, <2>3
  <2>6. ASSUME report'.motion = "COMPLETE", NEW i \in 1..Len(ranges)
        PROVE  \E p \in series : p.shot = i
    <3>1. availability(temporal) = "COMPLETE"
      BY <2>6, <1>2
    <3>2. temporal[i]
      BY <3>1, <2>1, CompleteIsAll
    <3> QED BY <3>2, <2>1 DEF MotionKnown
  <2> QED BY <2>4, <2>5, <2>6, <1>2
<1>7. ReportKnown'
  BY <1>1, <1>3, <1>5, <1>6 DEF ReportKnown
<1> QED BY <1>4, <1>7

\* After the report only the verdict and what is served change.
LEMMA EndKeepsVerdict ==
  ASSUME VerdictInv, ShotInv', Aggregate \/ GetTimeline
  PROVE  VerdictInv'
<1> USE DEF VerdictInv
<1>1. /\ UNCHANGED << clip, ranges, chroma, space, temporal, series, audio, timeline, report >>
      /\ \/ pc = "aggregate" /\ pc' = "done"
            /\ verdict' = IF optional_pillar_failed THEN "PARTIAL" ELSE "SUCCEEDED"
         \/ pc = "done" /\ pc' = "served" /\ verdict' = verdict
  BY DEF Aggregate, GetTimeline, sampled
<1>2. /\ Starts' = Starts /\ AudioOk' = AudioOk
      /\ optional_pillar_failed' = optional_pillar_failed
  BY <1>1 DEF Starts, AudioOk, optional_pillar_failed
<1>3. MotionKnown' /\ SoundKnown'
  BY <1>1, <1>2 DEF MotionKnown, SoundKnown, BeforeMotion, AfterTimeline
<1>4. ReportKnown'
  <2>1. verdict' = "SUCCEEDED" => ~optional_pillar_failed
    BY <1>1 DEF ReportKnown
  <2> QED BY <2>1, <1>1, <1>2 DEF ReportKnown
<1> QED BY <1>3, <1>4

LEMMA VerdictInvStep ==
  ASSUME VerdictInv, [Next]_vars
  PROVE  VerdictInv'
<1>0. ShotInv'
  BY ShotInvStep DEF VerdictInv
<1>1. CASE Sample
  <2>1. SamplingNext /\ UNCHANGED measureVars
    BY <1>1 DEF Sample
  <2>2. /\ pc \in BeforeMotion
        /\ pc' \in (BeforeMotion \ {"chromatic", "spatial"}) \cup {"failed", "canceled", "refused"}
    <3>1. CASE Detect \/ DetectFails \/ AddCut \/ Close \/ Merge \/ Plan
      BY <3>1 DEF BeforeMotion, Detect, DetectFails, AddCut, Close, Merge, Plan
    <3>2. CASE ConsumeFrame \/ ExtractFails \/ EndOfFrames \/ StoreSample \/ StoreManifest
      BY <3>2 DEF BeforeMotion, ConsumeFrame, ExtractFails, EndOfFrames, StoreSample, StoreManifest
    <3>3. CASE SamplingCancel
      BY <3>3 DEF BeforeMotion, SamplingCancel, Cancel
    <3> QED BY <2>1, <3>1, <3>2, <3>3 DEF SamplingNext
  <2>3. SilentStep
    BY <2>1, <2>2 DEF SilentStep, measureVars
  <2> QED BY <2>3, <1>0, SilentKeepsVerdict
<1>2. CASE StartMeasuring \/ MeasureChromatic \/ MeasureSpatial
  <2>1. PictureStep
    BY <1>2 DEF PictureStep, BeforeMotion, StartMeasuring, MeasureChromatic, MeasureSpatial,
                Advance, sampled, measureVars
  <2> QED BY <2>1, <1>0, PictureKeepsVerdict
<1>3. CASE MeasureMotion
  BY <1>3, <1>0, MotionKeepsVerdict
<1>4. CASE MeasureCancel \/ AudioStuck
  <2>1. SilentStep
    BY <1>4 DEF SilentStep, BeforeMotion, MeasureCancel, Cancel, AudioStuck, measureVars
  <2> QED BY <2>1, <1>0, SilentKeepsVerdict
<1>5. CASE AnalyzeAudio
  BY <1>5, <1>0, AudioKeepsVerdict
<1>6. CASE BuildTimeline
  BY <1>6, <1>0, TimelineKeepsVerdict
<1>7. CASE AssembleReport
  BY <1>7, <1>0, ReportKeepsVerdict
<1>8. CASE Aggregate \/ GetTimeline
  BY <1>8, <1>0, EndKeepsVerdict
<1>9. CASE Ended \/ UNCHANGED vars
  <2>1. UNCHANGED vars
    BY <1>9 DEF Ended
  <2>2. /\ Starts' = Starts /\ AudioOk' = AudioOk
        /\ optional_pillar_failed' = optional_pillar_failed
    BY <2>1 DEF Starts, AudioOk, optional_pillar_failed, vars, samplingVars, measureVars
  <2>3. MotionKnown' /\ SoundKnown' /\ ReportKnown'
    BY <2>1, <2>2 DEF VerdictInv, MotionKnown, SoundKnown, ReportKnown, vars, samplingVars, measureVars
  <2> QED BY <2>3, <1>0 DEF VerdictInv
<1> QED BY <1>1, <1>2, <1>3, <1>4, <1>5, <1>6, <1>7, <1>8, <1>9 DEF Next

\* SUCCEEDED is said only of a clip that was measured as a whole, whatever the clip
\* shows and whatever the configuration.
THEOREM VerdictsAreHonest == Spec => []VerdictHonest
<1>1. Init => VerdictInv
  BY VerdictInvInit
<1>2. VerdictInv /\ [Next]_vars => VerdictInv'
  BY VerdictInvStep
<1>3. VerdictInv => VerdictHonest
  BY VerdictInvHonest
<1> QED BY <1>1, <1>2, <1>3, PTL DEF Spec

-----------------------------------------------------------------------------
(* The timeline is built once, of what has been measured by then.          *)

\* The parts of a timeline of n points.
CutAt(rs, i) == cut_activity((i - 1) * HopMs, internal_boundary_ms(rs))
ShotAt(rs, i) == shot_index_at((i - 1) * HopMs, rs)
RawAt(rs, s, i) == MotionAt((i - 1) * HopMs, ShotAt(rs, i), s)
Raws(rs, s, n) == [i \in 1..n |-> RawAt(rs, s, i)]
AudioPart(w, a, n) == IF a THEN AudioActivity(w) ELSE [i \in 1..n |-> 0]
MotionPart(rs, s, m, n) == IF m THEN MotionActivity(Raws(rs, s, n)) ELSE [i \in 1..n |-> 0]
PointAt(rs, s, w, a, m, n, i) ==
  [at_ms |-> (i - 1) * HopMs, shot |-> ShotAt(rs, i), raw |-> RawAt(rs, s, i),
   cut |-> CutAt(rs, i), audio |-> AudioPart(w, a, n)[i], motion |-> MotionPart(rs, s, m, n)[i],
   combined |-> combine_tension(CutAt(rs, i), AudioPart(w, a, n)[i], MotionPart(rs, s, m, n)[i],
                                effective_weights(a, m))]

\* The points of a timeline, one for each start.
LEMMA TimelinePoints ==
  ASSUME NEW rs, NEW n \in Nat, window_starts(total_ms(rs)) = [k \in 1..n |-> (k - 1) * HopMs],
         NEW s, NEW w, NEW a, NEW m
  PROVE  /\ build_timeline(rs, s, w, a, m).weights = effective_weights(a, m)
         /\ build_timeline(rs, s, w, a, m).points = [i \in 1..n |-> PointAt(rs, s, w, a, m, n, i)]
<1> DEFINE starts == [k \in 1..n |-> (k - 1) * HopMs]
           weights == effective_weights(a, m)
           silent == [i \in 1..n |-> 0]
           audio2 == IF a THEN AudioActivity(w) ELSE silent
           shots2 == [i \in 1..n |-> shot_index_at(starts[i], rs)]
           raw2 == [i \in 1..n |-> MotionAt(starts[i], shots2[i], s)]
           motion2 == IF m THEN MotionActivity(raw2) ELSE silent
           cut2(i) == cut_activity(starts[i], internal_boundary_ms(rs))
           point2(i) == [at_ms |-> starts[i], shot |-> shots2[i], raw |-> raw2[i],
                   cut |-> cut2(i), audio |-> audio2[i], motion |-> motion2[i],
                   combined |-> combine_tension(cut2(i), audio2[i], motion2[i], weights)]
<1>1. Len(starts) = n /\ \A i \in 1..n : starts[i] = (i - 1) * HopMs
  OBVIOUS
<1>2. window_starts(total_ms(rs)) = starts
  OBVIOUS
<1> HIDE DEF starts
<1>3. build_timeline(rs, s, w, a, m) = [weights |-> weights, points |-> [i \in 1..n |-> point2(i)]]
  BY <1>1, <1>2, ZenonT(40) DEF build_timeline
<1>4. \A i \in 1..n : shots2[i] = ShotAt(rs, i)
  BY <1>1 DEF ShotAt
<1>5. \A i \in 1..n : raw2[i] = RawAt(rs, s, i)
  <2> HIDE DEF shots2
  <2> QED BY <1>1, <1>4 DEF RawAt
<1>6. raw2 = Raws(rs, s, n)
  BY <1>5, Zenon DEF Raws
<1> HIDE DEF raw2, shots2
<1>7. motion2 = MotionPart(rs, s, m, n) /\ audio2 = AudioPart(w, a, n)
  BY <1>6 DEF MotionPart, AudioPart
<1> HIDE DEF motion2, audio2
<1>8. \A i \in 1..n : cut2(i) = CutAt(rs, i)
  BY <1>1 DEF CutAt
<1> HIDE DEF cut2
<1>9. \A i \in 1..n : point2(i) = PointAt(rs, s, w, a, m, n, i)
  BY <1>1, <1>4, <1>5, <1>7, <1>8 DEF PointAt
<1> HIDE DEF point2, weights
<1>10. [i \in 1..n |-> point2(i)] = [i \in 1..n |-> PointAt(rs, s, w, a, m, n, i)]
  BY <1>9
<1> QED BY <1>3, <1>10 DEF weights


Hops == (clip.duration_ms + HopMs - 1) \div HopMs

\* One start in every hop of the clip, the last before its end.
LEMMA StartsAre ==
  ASSUME ShotInv, pc \notin {"detect", "cut", "failed", "canceled"}
  PROVE  /\ Hops \in Nat /\ Hops >= 1
         /\ window_starts(total_ms(ranges)) = [k \in 1..Hops |-> (k - 1) * HopMs]
         /\ \A k \in 1..Hops : (k - 1) * HopMs \in Nat /\ (k - 1) * HopMs < clip.duration_ms
<1>1. Edge(ranges) = clip.duration_ms /\ ranges \in Seq(TimeRangeMs) /\ clip \in Clip /\ Chained(ranges)
  BY DEF ShotInv, ShotType, Covered
<1>2. clip.duration_ms \in Nat /\ 0 < clip.duration_ms
  BY <1>1, ClipType
<1>3. ranges # << >>
  BY <1>1, <1>2 DEF Edge
<1>4. 1 \in 1..Len(ranges)
  BY <1>1, <1>3
<1>5. ranges[1].start_ms = 0
  BY <1>1, <1>4 DEF Chained
<1>6. total_ms(ranges) = clip.duration_ms
  BY <1>1, <1>2, <1>3, <1>5 DEF total_ms, Edge
<1>7. clip.duration_ms + HopMs - 1 \in Int /\ HopMs \in Nat /\ HopMs > 0
  BY <1>2, TensionAssumption
<1>8. /\ Hops \in Int /\ HopMs * Hops <= clip.duration_ms + HopMs - 1
      /\ clip.duration_ms + HopMs - 1 < HopMs * Hops + HopMs
  BY <1>7, Quotient DEF Hops
<1>9. Hops >= 1
  <2> SUFFICES ASSUME Hops <= 0 PROVE FALSE
    BY <1>8
  <2>1. HopMs * Hops <= HopMs * 0
    BY <1>7, <1>8, MultipleBelow
  <2> QED BY <2>1, <1>2, <1>7, <1>8
<1>10. window_starts(total_ms(ranges)) = [k \in 1..Hops |-> (k - 1) * HopMs]
  BY <1>6 DEF window_starts, Hops
<1>11. ASSUME NEW k \in 1..Hops PROVE (k - 1) * HopMs \in Nat /\ (k - 1) * HopMs < clip.duration_ms
  <2>1. HopMs * k <= HopMs * Hops
    BY <1>7, <1>8, MultipleBelow
  <2>2. (k - 1) * HopMs = HopMs * k - HopMs /\ HopMs * k \in Int
    BY <1>7, <1>8
  <2>3. (k - 1) * HopMs >= 0
    BY <1>7, <1>8
  <2> QED BY <2>1, <2>2, <2>3, <1>2, <1>7, <1>8
<1> QED BY <1>8, <1>9, <1>10, <1>11

Built == build_timeline(ranges, series, audio.windows, AudioOk, MotionOk)

TimelineKnown ==
  /\ pc \in AfterTimeline => timeline = Built
  /\ timeline = NoTimeline \/ timeline = Built
  /\ pc \notin AfterTimeline \cup {"refused"} => timeline = NoTimeline

\* What the report says of sound, motion and tension, and what a client is answered.
ReadKnown ==
  /\ report = NoReport \/
       /\ pc \in {"aggregate", "done", "served", "refused"}
       /\ timeline = Built
       /\ report.audio = IF AudioOk THEN "COMPLETE" ELSE "UNAVAILABLE"
       /\ report.motion = availability(temporal)
  /\ pc = "served" =>
       \E q \in Queries :
         answer = [query |-> q, points |-> window_timeline(timeline.points, q.start, q.end, q.max)]

TimelineInv == VerdictInv /\ TimelineKnown /\ ReadKnown

BeforeStep ==
  /\ pc \notin AfterTimeline \cup {"refused"}
  /\ pc' \notin AfterTimeline
  /\ UNCHANGED << timeline, report >>

AfterStep ==
  /\ UNCHANGED << ranges, series, audio, temporal, timeline >>
  /\ pc \in AfterTimeline \cup {"refused"}
  /\ pc' \in AfterTimeline \cup {"refused"}
  /\ pc' \in AfterTimeline => pc \in AfterTimeline

LEMMA StepsOfTimeline ==
  ASSUME [Next]_vars
  PROVE  BuildTimeline \/ BeforeStep \/ AfterStep
<1>1. CASE Sample
  BY <1>1 DEF Sample, SamplingNext, measureVars, BeforeStep, AfterTimeline, Detect, DetectFails, AddCut, Close, Merge,
     Plan, ConsumeFrame, ExtractFails, EndOfFrames, StoreSample, StoreManifest, SamplingCancel, Cancel
<1>2. CASE StartMeasuring
  BY <1>2 DEF StartMeasuring, measureVars, BeforeStep, AfterTimeline
<1>3. CASE MeasureChromatic
  BY <1>3 DEF MeasureChromatic, Advance, BeforeStep, AfterTimeline
<1>4. CASE MeasureSpatial
  BY <1>4 DEF MeasureSpatial, Advance, BeforeStep, AfterTimeline
<1>5. CASE MeasureMotion
  BY <1>5 DEF MeasureMotion, Advance, BeforeStep, AfterTimeline
<1>6. CASE MeasureCancel
  BY <1>6 DEF MeasureCancel, Cancel, measureVars, BeforeStep, AfterTimeline
<1>7. CASE AnalyzeAudio
  BY <1>7 DEF AnalyzeAudio, BeforeStep, AfterTimeline
<1>8. CASE AudioStuck
  BY <1>8 DEF AudioStuck, measureVars, BeforeStep, AfterTimeline
<1>9. CASE AssembleReport
  BY <1>9 DEF AssembleReport, sampled, AfterStep, AfterTimeline
<1>10. CASE Aggregate
  BY <1>10 DEF Aggregate, sampled, AfterStep, AfterTimeline
<1>11. CASE GetTimeline
  BY <1>11 DEF GetTimeline, sampled, AfterStep, AfterTimeline
<1>12. CASE UNCHANGED vars
  BY <1>12 DEF vars, samplingVars, measureVars, BeforeStep, AfterStep
<1>13. CASE Ended
  BY <1>12, <1>13 DEF Ended
<1> QED BY <1>1, <1>2, <1>3, <1>4, <1>5, <1>6, <1>7, <1>8, <1>9, <1>10, <1>11, <1>12, <1>13 DEF Next

LEMMA BuiltStays ==
  ASSUME UNCHANGED << ranges, series, audio, temporal >>
  PROVE  Built' = Built /\ AudioOk' = AudioOk /\ MotionOk' = MotionOk
BY DEF Built, AudioOk, MotionOk

LEMMA TimelineInvStep ==
  ASSUME TimelineInv, [Next]_vars
  PROVE  TimelineInv'
<1> USE DEF TimelineInv
<1>0. VerdictInv'
  BY VerdictInvStep
<1>1. CASE BuildTimeline
  <2>1. /\ UNCHANGED << ranges, series, audio, temporal, report, answer >>
        /\ pc' \in {"report", "refused"} /\ pc = "timeline"
        /\ timeline' = Built
    BY <1>1 DEF BuildTimeline, sampled, Built
  <2>2. Built' = Built /\ AudioOk' = AudioOk
    BY <2>1, BuiltStays
  <2>3. report = NoReport
    BY <2>1 DEF ReadKnown
  <2> QED BY <2>1, <2>2, <2>3, <1>0 DEF TimelineKnown, ReadKnown, AfterTimeline
<1>2. CASE BeforeStep
  <2>1. timeline = NoTimeline /\ report = NoReport
    BY <1>2 DEF BeforeStep, TimelineKnown, ReadKnown, AfterTimeline
  <2> QED BY <2>1, <1>0, <1>2 DEF BeforeStep, TimelineKnown, ReadKnown, AfterTimeline
<1>3. CASE AfterStep
  <2>1. /\ UNCHANGED << ranges, series, audio, temporal, timeline >>
        /\ pc \in AfterTimeline \cup {"refused"} /\ pc' \in AfterTimeline \cup {"refused"}
        /\ pc' \in AfterTimeline => pc \in AfterTimeline
    BY <1>3 DEF AfterStep
  <2>2. Built' = Built /\ AudioOk' = AudioOk
    BY <2>1, BuiltStays
  <2>3. TimelineKnown'
    BY <2>1, <2>2 DEF TimelineKnown
  <2>4. CASE AssembleReport
    <3>1. /\ pc = "report" /\ pc' \in {"aggregate", "refused"}
          /\ report'.audio = IF AudioOk THEN "COMPLETE" ELSE "UNAVAILABLE"
          /\ report'.motion = availability(temporal)
      BY <2>4 DEF AssembleReport
    <3>2. timeline = Built
      BY <3>1 DEF TimelineKnown, AfterTimeline
    <3> QED BY <3>1, <3>2, <2>1, <2>2, <2>3, <1>0 DEF ReadKnown
  <2>5. CASE GetTimeline
    <3>1. /\ pc = "done" /\ pc' = "served" /\ report' = report
          /\ \E q \in Queries :
               answer' = [query |-> q,
                          points |-> window_timeline(timeline.points, q.start, q.end, q.max)]
      BY <2>5 DEF GetTimeline
    <3> QED BY <3>1, <2>1, <2>2, <2>3, <1>0 DEF ReadKnown
  <2>6. CASE Aggregate
    <3>1. pc = "aggregate" /\ pc' = "done" /\ report' = report
      BY <2>6 DEF Aggregate
    <3> QED BY <3>1, <2>1, <2>2, <2>3, <1>0 DEF ReadKnown
  <2>7. CASE UNCHANGED vars
    <3>1. pc' = pc /\ report' = report /\ answer' = answer
      BY <2>7 DEF vars, samplingVars, measureVars
    <3> QED BY <3>1, <2>1, <2>2, <2>3, <1>0 DEF ReadKnown
  <2>8. AssembleReport \/ GetTimeline \/ Aggregate \/ UNCHANGED vars
    BY <2>1 DEF Next, Sample, SamplingNext, AfterTimeline, Detect, DetectFails, AddCut, Close, Merge,
     Plan, ConsumeFrame, ExtractFails, EndOfFrames, StoreSample, StoreManifest, SamplingCancel,
     StartMeasuring, MeasureChromatic, MeasureSpatial, MeasureMotion, MeasureCancel, AnalyzeAudio,
     AudioStuck, BuildTimeline, Ended
  <2> QED BY <2>4, <2>5, <2>6, <2>7, <2>8
<1> QED BY <1>1, <1>2, <1>3, StepsOfTimeline

LEMMA TimelineInvInit ==
  ASSUME Init
  PROVE  TimelineInv
<1>1. pc = "detect" /\ timeline = NoTimeline /\ report = NoReport
  BY DEF Init, SamplingInit
<1> QED BY <1>1, VerdictInvInit DEF TimelineInv, TimelineKnown, ReadKnown, AfterTimeline

\* The instants of the timeline.
LEMMA BuiltPoints ==
  ASSUME ShotInv, pc \notin {"detect", "cut", "failed", "canceled"}
  PROVE  /\ Len(Built.points) = Hops /\ DOMAIN Built.points = 1..Hops
         /\ \A i \in 1..Hops : Built.points[i].at_ms = (i - 1) * HopMs
         /\ \A i, j \in 1..Hops : i < j => Built.points[i].at_ms < Built.points[j].at_ms
<1>1. Hops \in Nat /\ window_starts(total_ms(ranges)) = [k \in 1..Hops |-> (k - 1) * HopMs]
  BY StartsAre
<1>2. /\ Len(Built.points) = Hops /\ DOMAIN Built.points = 1..Hops
      /\ \A i \in 1..Hops : Built.points[i].at_ms = (i - 1) * HopMs
  <2> DEFINE f == [i \in 1..Hops |-> PointAt(ranges, series, audio.windows, AudioOk, MotionOk, Hops, i)]
  <2>1. Built.points = f
    BY <1>1, TimelinePoints DEF Built
  <2>2. /\ Len(f) = Hops /\ DOMAIN f = 1..Hops
        /\ \A i \in 1..Hops : f[i].at_ms = (i - 1) * HopMs
    BY <1>1 DEF PointAt
  <2> HIDE DEF f
  <2> QED BY <2>1, <2>2
<1>3. HopMs \in Nat /\ HopMs > 0
  BY TensionAssumption
<1>4. ASSUME NEW i \in 1..Hops, NEW j \in 1..Hops, i < j PROVE (i - 1) * HopMs < (j - 1) * HopMs
  <2>1. HopMs * i <= HopMs * (j - 1)
    BY <1>1, <1>3, <1>4, MultipleBelow
  <2> QED BY <2>1, <1>1, <1>3
<1> QED BY <1>2, <1>4

\* A window shows every point in it, or as many as were asked for, ends included.
THEOREM WindowsKeepTheirEnds == Spec => []WindowKeepsEnds
<1>1. Init => TimelineInv
  BY TimelineInvInit
<1>2. TimelineInv /\ [Next]_vars => TimelineInv'
  BY TimelineInvStep
<1>3. TimelineInv => WindowKeepsEnds
  <2> SUFFICES ASSUME TimelineInv, pc = "served" PROVE WindowKeepsEnds
    BY DEF WindowKeepsEnds
  <2>1. timeline = Built /\ ShotInv
    BY DEF TimelineInv, TimelineKnown, AfterTimeline, VerdictInv
  <2>2. PICK q \in Queries :
          answer = [query |-> q, points |-> window_timeline(timeline.points, q.start, q.end, q.max)]
    BY DEF TimelineInv, ReadKnown
  <2>3. q.start \in Int /\ q.end \in Int /\ q.max \in 1..MAX_TIMELINE_POINTS
    BY QueriesAssumption
  <2> DEFINE points == timeline.points
  <2>4. /\ Len(points) \in Nat
        /\ \A i \in 1..Len(points) : points[i].at_ms \in Int
        /\ \A i, j \in 1..Len(points) : i < j => points[i].at_ms < points[j].at_ms
    BY <2>1, BuiltPoints, StartsAre
  <2> HIDE DEF points
  <2>5. ShowsWindow(window_timeline(points, q.start, q.end, q.max), Inside(points, q.start, q.end), q.max)
    BY <2>3, <2>4, WindowShows
  <2>6. /\ answer.query = q
        /\ answer.points = window_timeline(points, q.start, q.end, q.max)
    BY <2>2 DEF points
  <2> QED BY <2>5, <2>6 DEF WindowKeepsEnds, ShowsWindow, points
<1> QED BY <1>1, <1>2, <1>3, PTL DEF Spec

-----------------------------------------------------------------------------
(* The manifest: one answer for every request of the plan.                 *)

Unplanned == Early \cup {"extract", "failed", "canceled"}

Manifest ==
  /\ plan \subseteq Request
  /\ \A p, q \in plan : p.shot = q.shot /\ p.requested_ms = q.requested_ms => p = q
  /\ captured \subseteq Answer
  /\ \A a, b \in captured : a.request = b.request => a = b
  /\ \A a \in captured : a.request \notin pending /\ (Decoded(a) => a.frame >= 1)
  /\ \A q \in plan : q \in pending \/ \E a \in captured : a.request = q
  /\ results \subseteq captured
  /\ pc \notin Unplanned => pending = {}

ManifestInv == SampleInv /\ Manifest

\* A request is told by its shot and its instant.
LEMMA PlanRequests ==
  ASSUME NEW rs \in Seq(TimeRangeMs), Chained(rs), NEW d \in Nat, d >= 1
  PROVE  /\ plan_samples(rs, d) \subseteq Request
         /\ \A p, q \in plan_samples(rs, d) :
              p.shot = q.shot /\ p.requested_ms = q.requested_ms => p = q
<1> DEFINE Q(i, t) == [shot |-> i, requested_ms |-> t, purposes |-> Purposes(rs[i], t, d)]
<1>1. plan_samples(rs, d) = UNION {{Q(i, t) : t \in AllTimes(rs[i], d)} : i \in 1..Len(rs)}
  BY DEF plan_samples
<1>2. \A i, t : /\ Q(i, t).shot = i /\ Q(i, t).requested_ms = t
                /\ Q(i, t).purposes = Purposes(rs[i], t, d)
  OBVIOUS
<1>3. \A i \in Nat \ {0}, t \in Int : Q(i, t) \in Request
  BY DEF Request, Purposes
<1> HIDE DEF Q
<1>4. ASSUME NEW q \in plan_samples(rs, d)
      PROVE  q = Q(q.shot, q.requested_ms) /\ q.shot \in 1..Len(rs) /\ q.requested_ms \in Nat
  <2>1. PICK i \in 1..Len(rs) : \E t \in AllTimes(rs[i], d) : q = Q(i, t)
    BY <1>1
  <2>2. PICK t \in AllTimes(rs[i], d) : q = Q(i, t)
    BY <2>1
  <2> QED BY <2>2, <1>2, PlanWithin
<1>5. ASSUME NEW q \in plan_samples(rs, d) PROVE q \in Request
  BY <1>3, <1>4
<1>6. ASSUME NEW p \in plan_samples(rs, d), NEW q \in plan_samples(rs, d),
             p.shot = q.shot, p.requested_ms = q.requested_ms
      PROVE  p = q
  BY <1>4, <1>6
<1> QED BY <1>5, <1>6

LEMMA AnswerType ==
  ASSUME NEW q \in Request, NEW at \in Int, NEW n \in Nat \ {0}
  PROVE  /\ Answers(q, at, n) \in Answer /\ Answers(q, at, n).request = q
         /\ Decoded(Answers(q, at, n)) => Answers(q, at, n).frame >= 1
         /\ Absent(q, "MISSING") \in Answer /\ Absent(q, "MISSING").request = q
         /\ ~Decoded(Absent(q, "MISSING"))
BY DEF Answers, Absent, Answer, NoTime, Decoded

\* The steps that ask and answer nothing.
KeepStep ==
  /\ UNCHANGED << plan, pending, captured >>
  /\ results' = results \/ \E a \in Unstored : results' = results \cup {a}
  /\ pc \notin Unplanned \/ pc' \in Unplanned

LEMMA StepsOfManifest ==
  ASSUME [Next]_vars
  PROVE  Plan \/ ConsumeFrame \/ EndOfFrames \/ KeepStep
<1>1. CASE Sample
  BY <1>1 DEF Sample, SamplingNext, KeepStep, Unplanned, Early, Detect, DetectFails, AddCut, Close, Merge,
     ExtractFails, StoreSample, StoreManifest, SamplingCancel, Cancel
<1>2. CASE Next /\ ~Sample
  BY <1>2, LaterSteps DEF KeepStep, sampled, Unplanned
<1>3. CASE UNCHANGED vars
  BY <1>3 DEF KeepStep, vars, samplingVars
<1> QED BY <1>1, <1>2, <1>3

LEMMA ManifestInvStep ==
  ASSUME ManifestInv, [Next]_vars
  PROVE  ManifestInv'
<1> USE DEF ManifestInv
<1>0. SampleInv'
  BY SampleInvStep
<1>1. CASE Plan
  <2>1. /\ ranges' = ranges /\ captured' = captured /\ results' = results /\ pc = "merge"
    BY <1>1 DEF Plan
  <2>2. plan = {} /\ captured = {} /\ pending = {}
    BY <2>1 DEF SampleInv, ShotInv, Early, Waiting
  <2>3. \/ plan' = plan_samples(ranges, frame) /\ pending' = plan' /\ pc' = "extract"
        \/ plan' = plan /\ pending' = pending
    BY <1>1 DEF Plan
  <2>4. ranges \in Seq(TimeRangeMs) /\ Chained(ranges) /\ clip \in Clip
    BY DEF SampleInv, ShotInv, ShotType
  <2>5. frame \in Nat /\ frame >= 1
    BY <2>4, FrameDurationType DEF frame
  <2>6. /\ plan' \subseteq Request
        /\ \A p, q \in plan' : p.shot = q.shot /\ p.requested_ms = q.requested_ms => p = q
    <3>1. CASE plan' = plan_samples(ranges, frame)
      BY <3>1, <2>4, <2>5, PlanRequests
    <3> QED BY <3>1, <2>2, <2>3
  <2> QED BY <2>1, <2>2, <2>3, <2>6, <1>0 DEF Manifest, Unplanned
<1>2. CASE ConsumeFrame
  <2> DEFINE at == clip.frames[frameNo + 1]
             due == IF at = NoTime THEN {} ELSE {q \in pending : q.requested_ms <= at}
  <2>1. /\ frameNo < Len(clip.frames) /\ plan' = plan /\ results' = results /\ pc' = pc
        /\ pc = "extract"
        /\ pending' = pending \ due
        /\ captured' = captured \cup {Answers(q, at, frameNo + 1) : q \in due}
    BY <1>2 DEF ConsumeFrame
  <2>2. clip.frames \in Seq(Nat \cup {NoTime}) /\ frameNo \in Nat
    BY ClipType DEF SampleInv, ShotInv, ShotType
  <2>3. at \in Int
    <3>1. Len(clip.frames) \in Nat
      BY <2>2
    <3>2. frameNo + 1 \in 1..Len(clip.frames)
      BY <2>1, <2>2, <3>1
    <3> QED BY <2>2, <3>2 DEF NoTime
  <2>4. due \subseteq pending /\ pending \subseteq plan
    BY DEF SampleInv, Waiting
  <2> HIDE DEF at, due
  <2>5. \A q \in due : q \in Request /\ Answers(q, at, frameNo + 1) \in Answer
                       /\ Answers(q, at, frameNo + 1).request = q
                       /\ (Decoded(Answers(q, at, frameNo + 1)) =>
                             Answers(q, at, frameNo + 1).frame >= 1)
    <3>1. frameNo + 1 \in Nat \ {0}
      BY <2>2
    <3> QED BY <3>1, <2>3, <2>4, AnswerType DEF Manifest
  <2>6. \A a \in captured' : a \in captured \/ \E q \in due : a = Answers(q, at, frameNo + 1)
    BY <2>1
  <2>7. captured' \subseteq Answer
    BY <2>5, <2>6 DEF Manifest
  <2>8. ASSUME NEW a \in captured', NEW b \in captured', a.request = b.request PROVE a = b
    <3>1. a \in captured \/ (a.request \in due /\ a = Answers(a.request, at, frameNo + 1))
      BY <2>5, <2>6
    <3>2. b \in captured \/ (b.request \in due /\ b = Answers(b.request, at, frameNo + 1))
      BY <2>5, <2>6
    <3>3. \A c \in captured : c.request \notin due
      BY <2>4 DEF Manifest
    <3> QED BY <2>8, <3>1, <3>2, <3>3 DEF Manifest
  <2>9. \A a \in captured' : a.request \notin pending' /\ (Decoded(a) => a.frame >= 1)
    BY <2>1, <2>5, <2>6 DEF Manifest
  <2>10. \A q \in plan' : q \in pending' \/ \E a \in captured' : a.request = q
    <3> SUFFICES ASSUME NEW q \in plan, q \notin pending' PROVE \E a \in captured' : a.request = q
      BY <2>1
    <3>1. CASE q \in due
      BY <3>1, <2>1, <2>5
    <3>2. CASE q \notin pending
      BY <3>2, <2>1 DEF Manifest
    <3> QED BY <3>1, <3>2, <2>1
  <2> QED BY <2>1, <2>7, <2>8, <2>9, <2>10, <1>0 DEF Manifest, Unplanned
<1>3. CASE EndOfFrames
  <2>1. /\ plan' = plan /\ results' = results /\ pc' = "store" /\ pending' = {}
        /\ captured' = captured \cup {Absent(q, "MISSING") : q \in pending}
    BY <1>3 DEF EndOfFrames
  <2>2. pending \subseteq Request
    BY DEF SampleInv, Waiting, Manifest
  <2>3. \A q \in pending : /\ Absent(q, "MISSING") \in Answer /\ Absent(q, "MISSING").request = q
                           /\ ~Decoded(Absent(q, "MISSING"))
    <3>1. 0 \in Int /\ 1 \in Nat \ {0}
      OBVIOUS
    <3> QED BY <2>2, <3>1, AnswerType
  <2>4. \A a \in captured' : a \in captured \/ \E q \in pending : a = Absent(q, "MISSING")
    BY <2>1
  <2>5. captured' \subseteq Answer
    BY <2>3, <2>4 DEF Manifest
  <2>6. ASSUME NEW a \in captured', NEW b \in captured', a.request = b.request PROVE a = b
    <3>1. a \in captured \/ (a.request \in pending /\ a = Absent(a.request, "MISSING"))
      BY <2>3, <2>4
    <3>2. b \in captured \/ (b.request \in pending /\ b = Absent(b.request, "MISSING"))
      BY <2>3, <2>4
    <3> QED BY <2>6, <3>1, <3>2 DEF Manifest
  <2>7. \A q \in plan' : \E a \in captured' : a.request = q
    <3> SUFFICES ASSUME NEW q \in plan PROVE \E a \in captured' : a.request = q
      BY <2>1
    <3>1. CASE q \in pending
      BY <3>1, <2>1, <2>3
    <3>2. CASE q \notin pending
      BY <3>2, <2>1 DEF Manifest
    <3> QED BY <3>1, <3>2
  <2>8. \A a \in captured' : Decoded(a) => a.frame >= 1
    BY <2>3, <2>4 DEF Manifest
  <2> QED BY <2>1, <2>5, <2>6, <2>7, <2>8, <1>0 DEF Manifest
<1>4. CASE KeepStep
  <2>1. results' \subseteq captured
    BY <1>4 DEF KeepStep, Manifest, Unstored
  <2> QED BY <2>1, <1>4, <1>0 DEF KeepStep, Manifest
<1> QED BY <1>1, <1>2, <1>3, <1>4, StepsOfManifest

LEMMA ManifestInvInit ==
  ASSUME Init
  PROVE  ManifestInv
<1>1. plan = {} /\ captured = {} /\ pending = {} /\ results = {}
  BY DEF Init, SamplingInit
<1> QED BY <1>1, SampleInvInit DEF ManifestInv, Manifest

\* Plan and manifest are finite.
LEMMA ResultsFinite ==
  ASSUME ManifestInv
  PROVE  IsFiniteSet(plan) /\ IsFiniteSet(captured) /\ IsFiniteSet(results)
<1> USE DEF ManifestInv
<1> DEFINE n == Len(ranges)
           top == clip.duration_ms
           T == (1..n) \X (0..top)
           f == [q \in plan |-> << q.shot, q.requested_ms >>]
           g == [a \in captured |-> a.request]
<1>1. /\ clip \in Clip /\ ranges \in Seq(TimeRangeMs) /\ Chained(ranges)
      /\ plan # {} => Edge(ranges) = top
  BY DEF SampleInv, ShotInv, ShotType, Covered
<1>2. n \in Nat /\ top \in Nat
  BY <1>1, ClipType
<1>3. IsFiniteSet(T)
  <2>1. IsFiniteSet(1..n) /\ IsFiniteSet(0..top)
    BY <1>2, FS_Interval
  <2> QED BY <2>1, FS_Product
<1>4. ASSUME NEW q \in plan PROVE q.shot \in 1..n /\ q.requested_ms \in 0..top
  <2>1. q.shot \in 1..n /\ Within(q.requested_ms, ranges[q.shot]) /\ q.requested_ms \in Nat
    BY DEF SampleInv, SamplesInShots, Waiting
  <2>2. ranges[q.shot] \in TimeRangeMs /\ ranges[q.shot].end_ms <= top
    BY <1>1, <2>1, RangeType, ChainEnds
  <2>3. ranges[q.shot].end_ms \in Nat
    BY <2>2 DEF TimeRangeMs
  <2> QED BY <1>2, <2>1, <2>2, <2>3 DEF Within
<1>5. f \in Injection(plan, T)
  <2>1. f \in [plan -> T]
    BY <1>4
  <2>2. \A p, q \in plan : f[p] = f[q] => p = q
    BY DEF Manifest
  <2> HIDE DEF f
  <2> QED BY <2>1, <2>2, Zenon DEF Injection, IsInjective
<1>6. IsFiniteSet(plan)
  <2> HIDE DEF f, T
  <2> QED BY <1>3, <1>5, FS_Injection
<1>7. g \in Injection(captured, plan)
  <2>1. g \in [captured -> plan]
    BY DEF SampleInv
  <2>2. \A a, b \in captured : g[a] = g[b] => a = b
    BY DEF Manifest
  <2> HIDE DEF g
  <2> QED BY <2>1, <2>2, Zenon DEF Injection, IsInjective
<1>8. IsFiniteSet(captured)
  <2> HIDE DEF g
  <2> QED BY <1>6, <1>7, FS_Injection
<1> QED BY <1>6, <1>8, FS_Subset DEF Manifest

-----------------------------------------------------------------------------
(* The samples of one shot and purpose, and the pairs of neighbours.       *)

SamplesOf(i, purpose) ==
  {a \in results : a.request.shot = i /\ purpose \in a.request.purposes /\ Decoded(a)}

SamplesInOrder(s, i, purpose) ==
  /\ Len(s) \in Nat /\ DOMAIN s = 1..Len(s)
  /\ \A k \in 1..Len(s) : s[k] \in SamplesOf(i, purpose)
  /\ \A j, k \in 1..Len(s) : j < k => Earlier(s[j], s[k])

LEMMA SamplesAreOrdered ==
  ASSUME ManifestInv, NEW i, NEW purpose
  PROVE  SamplesInOrder(load_decoded_jpegs(i, purpose), i, purpose)
<1> DEFINE S == SamplesOf(i, purpose)
           R == {p \in S \X S : Earlier(p[1], p[2])}
           o == load_decoded_jpegs(i, purpose)
           before(s) == {t \in S : Earlier(t, s)}
<1>1. S \in SUBSET results /\ IsFiniteSet(S)
  <2>1. S \in SUBSET results
    BY DEF SamplesOf
  <2> QED BY <2>1, ResultsFinite, FS_Subset
<1>2. \A a \in S : a.request \in plan /\ a.request.requested_ms \in Nat /\ a.request.shot = i /\ a \in captured
  BY DEF SamplesOf, ManifestInv, Manifest, SampleInv, Waiting
<1>3. StrictOrder(R, S)
  <2>1. \A a, b \in S : a # b => Earlier(a, b) \/ Earlier(b, a)
    <3> SUFFICES ASSUME NEW a \in S, NEW b \in S, ~Earlier(a, b), ~Earlier(b, a) PROVE a = b
      OBVIOUS
    <3>1. a.request.requested_ms = b.request.requested_ms
      BY <1>2 DEF Earlier
    <3>2. a.request = b.request
      BY <1>2, <3>1 DEF ManifestInv, Manifest
    <3> QED BY <1>2, <3>2 DEF ManifestInv, Manifest
  <2>2. \A a \in S : ~Earlier(a, a)
    BY <1>2 DEF Earlier
  <2>3. \A a, b, c \in S : Earlier(a, b) /\ Earlier(b, c) => Earlier(a, c)
    BY <1>2 DEF Earlier
  <2>4. \A a, b \in S : << a, b >> \in R <=> Earlier(a, b)
    OBVIOUS
  <2> HIDE DEF R, S
  <2> QED BY <2>1, <2>2, <2>3, <2>4, Zenon DEF StrictOrder
<1>4. \A s \in S : Rank(s, S, R) = Cardinality(before(s))
  <2>1. \A s \in S : before(s) = {t \in S : << t, s >> \in R}
    <3> HIDE DEF S
    <3> QED OBVIOUS
  <2> QED BY <2>1 DEF Rank
<1>5. \A k \in 1..Cardinality(S) : \E s \in S : Cardinality(before(s)) = k - 1
  <2> HIDE DEF S, R, before
  <2>1. \A k \in 1..Cardinality(S) : \E s \in S : Rank(s, S, R) = k - 1
    BY <1>1, <1>3, Ranks
  <2> QED BY <1>4, <2>1
<1>6. o = [k \in 1..Cardinality(S) |-> CHOOSE s \in S : Cardinality(before(s)) = k - 1]
  BY Zenon DEF load_decoded_jpegs, InOrder, SamplesOf
<1> HIDE DEF S, R, o, before
<1>7. \A k \in 1..Cardinality(S) : o[k] \in S /\ Cardinality(before(o[k])) = k - 1
  <2> SUFFICES ASSUME NEW k \in 1..Cardinality(S)
               PROVE  o[k] \in S /\ Cardinality(before(o[k])) = k - 1
    OBVIOUS
  <2>1. o[k] = CHOOSE s \in S : Cardinality(before(s)) = k - 1
    BY <1>6
  <2> QED BY <2>1, <1>5, Zenon
<1>8. DOMAIN o = 1..Cardinality(S) /\ o = [k \in DOMAIN o |-> o[k]]
  BY <1>6
<1>9. \A k \in 1..Cardinality(S) : o[k] \in S /\ Rank(o[k], S, R) = k - 1
  BY <1>4, <1>7
<1>10. Orders(o, S, R)
  BY <1>1, <1>3, <1>8, <1>9, RanksOrder
<1>11. \A j, k \in 1..Cardinality(S) : << o[j], o[k] >> \in R => Earlier(o[j], o[k])
  BY DEF R
<1>12. Cardinality(S) \in Nat
  BY <1>1, FS_CardinalityType
<1>13. Len(o) = Cardinality(S)
  BY <1>6, <1>12
<1> QED BY <1>8, <1>9, <1>10, <1>11, <1>12, <1>13 DEF Orders, SamplesInOrder, S, o

\* A later request is not answered by an earlier instant, whatever the frame times.
LEMMA AnswersFollow ==
  ASSUME ManifestInv, NEW a \in captured, NEW b \in captured,
         Decoded(a), Decoded(b), Earlier(a, b)
  PROVE  a.decoded_ms <= b.decoded_ms
<1>1. /\ a.frame \in Nat /\ a.frame >= 1 /\ b.frame \in Nat /\ b.frame >= 1
      /\ a.decoded_ms \in Int /\ b.decoded_ms \in Int
      /\ a.request.requested_ms \in Int /\ b.request.requested_ms \in Int
  BY DEF ManifestInv, Manifest, Answer, Request
<1>2. /\ a.decoded_ms = clip.frames[a.frame] /\ a.request.requested_ms <= a.decoded_ms
      /\ \A k \in 1..(a.frame - 1) : clip.frames[k] < a.request.requested_ms
  BY DEF ManifestInv, SampleInv, OwnFrames
<1>3. /\ b.decoded_ms = clip.frames[b.frame] /\ b.request.requested_ms <= b.decoded_ms
      /\ \A k \in 1..(b.frame - 1) : clip.frames[k] < b.request.requested_ms
  BY DEF ManifestInv, SampleInv, OwnFrames
<1>4. a.request.requested_ms < b.request.requested_ms
  BY DEF Earlier
<1>5. CASE a.frame = b.frame
  BY <1>1, <1>2, <1>3, <1>5
<1>6. CASE a.frame < b.frame
  <2>1. a.frame \in 1..(b.frame - 1)
    BY <1>1, <1>6
  <2> QED BY <2>1, <1>1, <1>2, <1>3
<1>7. CASE b.frame < a.frame
  <2>1. b.frame \in 1..(a.frame - 1)
    BY <1>1, <1>7
  <2> QED BY <2>1, <1>1, <1>2, <1>3, <1>4
<1> QED BY <1>1, <1>5, <1>6, <1>7

MiddlesKnown(m, i) ==
  /\ Len(m) \in Nat
  /\ \A k \in 1..Len(m) : m[k] \in Nat /\ i \in 1..Len(ranges) /\ Within(m[k], ranges[i])
  /\ \A j, k \in 1..Len(m) : j < k => m[j] < m[k]

\* The middle of a pair lies in the shot of the pair, and before that of the next.
LEMMA PairsInShot ==
  ASSUME ManifestInv, NEW i
  PROVE  MiddlesKnown(adjacent_motion_pairs(i), i)
<1> DEFINE s == load_decoded_jpegs(i, "MOTION")
           n == Len(s)
           all == [k \in 1..(n - 1) |-> Middle(s[k], s[k + 1])]
           places == {k \in 1..(n - 1) : s[k].decoded_ms < s[k + 1].decoded_ms}
           m == adjacent_motion_pairs(i)
<1>1. /\ n \in Nat
      /\ \A k \in 1..n : s[k] \in SamplesOf(i, "MOTION")
      /\ \A j, k \in 1..n : j < k => Earlier(s[j], s[k])
  BY SamplesAreOrdered DEF SamplesInOrder
<1>2. m = At(all, places)
  BY DEF adjacent_motion_pairs
<1> HIDE DEF s
<1>3. \A k \in 1..n : /\ s[k] \in captured /\ Decoded(s[k]) /\ s[k].decoded_ms \in Nat
                      /\ i \in 1..Len(ranges) /\ Within(s[k].decoded_ms, ranges[i])
  <2> SUFFICES ASSUME NEW k \in 1..n
               PROVE  /\ s[k] \in captured /\ Decoded(s[k]) /\ s[k].decoded_ms \in Nat
                      /\ i \in 1..Len(ranges) /\ Within(s[k].decoded_ms, ranges[i])
    OBVIOUS
  <2>1. s[k] \in captured /\ Decoded(s[k]) /\ s[k].request.shot = i /\ s[k].decoded_ms \in Int
    BY <1>1 DEF SamplesOf, ManifestInv, Manifest, Answer
  <2>2. s[k].request \in plan
    BY <2>1 DEF ManifestInv, SampleInv
  <2>3. i \in 1..Len(ranges)
    BY <2>1, <2>2 DEF ManifestInv, SampleInv, SamplesInShots
  <2>4. Within(s[k].decoded_ms, ranges[i])
    BY <2>1 DEF ManifestInv, SampleInv, OwnFrames
  <2>5. ranges \in Seq(TimeRangeMs)
    BY DEF ManifestInv, SampleInv, ShotInv, ShotType
  <2>6. ranges[i].start_ms \in Nat
    BY <2>3, <2>5, RangeType
  <2> QED BY <2>1, <2>3, <2>4, <2>6 DEF Within
<1>4. \A j, k \in 1..n : j < k => s[j].decoded_ms <= s[k].decoded_ms
  BY <1>1, <1>3, AnswersFollow
<1>5. ASSUME NEW k \in places
      PROVE  /\ all[k] \in Nat /\ s[k].decoded_ms <= all[k] /\ all[k] < s[k + 1].decoded_ms
  <2>1. k \in 1..n /\ k + 1 \in 1..n /\ s[k].decoded_ms < s[k + 1].decoded_ms
    BY <1>1
  <2>2. s[k].decoded_ms \in Nat /\ s[k + 1].decoded_ms \in Nat
    BY <1>3, <2>1
  <2>3. all[k] = s[k].decoded_ms + (s[k + 1].decoded_ms - s[k].decoded_ms) \div 2
    BY DEF Middle
  <2> HIDE DEF all
  <2> QED BY <2>1, <2>2, <2>3
<1>6. ASSUME NEW k \in places PROVE i \in 1..Len(ranges) /\ Within(all[k], ranges[i])
  <2>1. k \in 1..n /\ k + 1 \in 1..n
    BY <1>1
  <2>2. ranges \in Seq(TimeRangeMs)
    BY DEF ManifestInv, SampleInv, ShotInv, ShotType
  <2>3. i \in 1..Len(ranges) /\ ranges[i].start_ms \in Nat /\ ranges[i].end_ms \in Nat
    BY <1>3, <2>1, <2>2, RangeType
  <2>4. s[k].decoded_ms \in Nat /\ s[k + 1].decoded_ms \in Nat
    BY <1>3, <2>1
  <2> HIDE DEF all, places
  <2> QED BY <1>3, <1>5, <2>1, <2>3, <2>4 DEF Within
<1>7. ASSUME NEW j \in places, NEW k \in places, j < k PROVE all[j] < all[k]
  <2>1. j + 1 \in 1..n /\ k \in 1..n /\ (j + 1 = k \/ j + 1 < k)
    BY <1>1, <1>7
  <2>2. s[j + 1].decoded_ms <= s[k].decoded_ms
    BY <1>3, <1>4, <2>1
  <2>3. s[j + 1].decoded_ms \in Nat /\ s[k].decoded_ms \in Nat
    BY <1>3, <2>1
  <2> HIDE DEF all, places
  <2> QED BY <1>5, <2>2, <2>3
<1>8. places \in SUBSET (1..n)
  BY <1>1
<1> HIDE DEF all, places, m, n
<1>9. /\ Cardinality(places) \in 0..n /\ Len(m) = Cardinality(places)
      /\ \E o \in [1..Cardinality(places) -> places] : Keeps(o, all, places)
  BY <1>1, <1>2, <1>8, AtPlaces
<1>10. PICK o \in [1..Cardinality(places) -> places] : Keeps(o, all, places)
  BY <1>9
<1>11. /\ \A k \in 1..Len(m) : o[k] \in places /\ m[k] = all[o[k]]
       /\ \A j, k \in 1..Len(m) : j < k => o[j] < o[k]
  BY <1>2, <1>9, <1>10 DEF Keeps
<1>12. Len(m) \in Nat
  BY <1>1, <1>9
<1> QED BY <1>5, <1>6, <1>7, <1>11, <1>12 DEF MiddlesKnown, m

-----------------------------------------------------------------------------
(* The motion series: one point for a pair, in the shot of the pair.       *)

Measuring == {"chromatic", "spatial", "motion"}

SeriesKnown ==
  /\ IsFiniteSet(series) /\ series \subseteq MotionSeriesPoint
  /\ \A p \in series : p.shot \in 1..Len(ranges) /\ Within(p.at_ms, ranges[p.shot])
  /\ \A p, q \in series : p.shot = q.shot /\ p.at_ms = q.at_ms => p = q
  /\ pc \in BeforeMotion => series = {}
  /\ pc = "motion" => \A p \in series : p.shot < shot

\* The shot that is measured is one of the clip's.
ShotKnown ==
  /\ shot \in 1..Larger(1, Len(ranges))
  /\ pc \in BeforeMotion \ {"chromatic", "spatial"} => shot = 1
  /\ pc \in Measuring => shot <= Len(ranges)

\* The points that the pairs of one shot add.
NewPoints(new) ==
  /\ IsFiniteSet(new) /\ new \subseteq MotionSeriesPoint
  /\ \A p \in new : p.shot = shot /\ shot \in 1..Len(ranges) /\ Within(p.at_ms, ranges[shot])
  /\ \A p, q \in new : p.at_ms = q.at_ms => p = q

LEMMA FlowType ==
  ASSUME NEW flows \in Flows, NEW k \in Nat \ {0}, flows[((k - 1) % Len(flows)) + 1] # NoFlow
  PROVE  flows[((k - 1) % Len(flows)) + 1] \in [global : Nat, residual : Nat]
<1>1. flows \in Seq([global : Nat, residual : Nat] \cup {NoFlow}) /\ flows # << >>
  BY FlowsAssumption
<1>2. Len(flows) \in Nat /\ Len(flows) > 0
  BY <1>1
<1>3. (k - 1) % Len(flows) \in 0..(Len(flows) - 1)
  BY <1>2
<1>4. ((k - 1) % Len(flows)) + 1 \in 1..Len(flows)
  BY <1>2, <1>3
<1> QED BY <1>1, <1>4

LEMMA MotionAdds ==
  ASSUME ManifestInv, ShotKnown, MeasureMotion
  PROVE  \E new : series' = series \cup new /\ NewPoints(new)
<1>1. PICK flows \in Flows :
     LET middles == adjacent_motion_pairs(shot)
         flow(k) == flows[((k - 1) % Len(flows)) + 1]
         unflagged == {k \in 1..Len(middles) :
                         flow(k) # NoFlow /\ flow(k).global <= Discontinuity}
     IN  series' = series \cup
              {[at_ms |-> middles[k], shot |-> shot,
                global |-> flow(k).global, residual |-> flow(k).residual] : k \in unflagged}
  BY DEF MeasureMotion
<1> DEFINE middles == adjacent_motion_pairs(shot)
           flow(k) == flows[((k - 1) % Len(flows)) + 1]
           unflagged == {k \in 1..Len(middles) :
                           flow(k) # NoFlow /\ flow(k).global <= Discontinuity}
           point == [k \in unflagged |->
                       [at_ms |-> middles[k], shot |-> shot,
                        global |-> flow(k).global, residual |-> flow(k).residual]]
           new == {point[k] : k \in unflagged}
<1>2. \A k \in unflagged : point[k] = [at_ms |-> middles[k], shot |-> shot,
                        global |-> flow(k).global, residual |-> flow(k).residual]
  OBVIOUS
<1>3. series' = series \cup new
  BY <1>1, <1>2, Zenon
<1>4. MiddlesKnown(middles, shot)
  BY PairsInShot
<1>5. \A k \in unflagged : flow(k) \in [global : Nat, residual : Nat]
  <2> SUFFICES ASSUME NEW k \in unflagged PROVE flow(k) \in [global : Nat, residual : Nat]
    OBVIOUS
  <2>1. k \in Nat \ {0} /\ flow(k) # NoFlow
    BY <1>4 DEF MiddlesKnown
  <2> QED BY <2>1, FlowType
<1>6. unflagged \subseteq 1..Len(middles) /\ Len(middles) \in Nat
  BY <1>4 DEF MiddlesKnown
<1> HIDE DEF flow, middles
<1>7. \A k \in unflagged : /\ point[k] \in MotionSeriesPoint /\ point[k].shot = shot
                           /\ point[k].at_ms = middles[k]
  <2>1. \A k \in unflagged : middles[k] \in Nat
    BY <1>4 DEF MiddlesKnown
  <2>2. shot \in Nat \ {0}
    <3>1. Len(ranges) \in Nat
      BY DEF ManifestInv, SampleInv, ShotInv, ShotType
    <3> QED BY <3>1 DEF ShotKnown, Larger
  <2>3. \A k \in unflagged : flow(k).global \in Nat /\ flow(k).residual \in Nat
    <3> HIDE DEF unflagged
    <3> QED BY <1>5
  <2> HIDE DEF unflagged, point
  <2> SUFFICES ASSUME NEW k \in unflagged
               PROVE  /\ point[k] \in MotionSeriesPoint /\ point[k].shot = shot
                      /\ point[k].at_ms = middles[k]
    OBVIOUS
  <2> DEFINE g == flow(k).global  r == flow(k).residual
  <2>4. point[k] = [at_ms |-> middles[k], shot |-> shot, global |-> g, residual |-> r]
    BY <1>2
  <2>5. g \in Nat /\ r \in Nat /\ middles[k] \in Nat
    BY <2>1, <2>3
  <2> HIDE DEF g, r
  <2> QED BY <2>2, <2>4, <2>5 DEF MotionSeriesPoint
<1>8. DOMAIN point = unflagged
  OBVIOUS
<1> HIDE DEF unflagged, point
<1>9. IsFiniteSet(new)
  <2>1. IsFiniteSet(1..Len(middles))
    BY <1>6, FS_Interval
  <2>2. IsFiniteSet(unflagged)
    BY <1>6, <2>1, FS_Subset
  <2>3. point \in [unflagged -> new]
    BY <1>2, <1>8 DEF point
  <2>4. \A p \in new : \E k \in unflagged : point[k] = p
    OBVIOUS
  <2> HIDE DEF new
  <2>5. point \in Surjection(unflagged, new)
    BY <2>3, <2>4, Zenon DEF Surjection
  <2> QED BY <2>2, <2>5, FS_Surjection
<1>10. \A p \in new : \E k \in unflagged : p = point[k]
  OBVIOUS
<1> HIDE DEF new
<1>11. \A p \in new : /\ p \in MotionSeriesPoint /\ p.shot = shot /\ shot \in 1..Len(ranges)
                      /\ Within(p.at_ms, ranges[shot])
  BY <1>4, <1>6, <1>7, <1>10 DEF MiddlesKnown
<1>12. ASSUME NEW p \in new, NEW q \in new, p.at_ms = q.at_ms PROVE p = q
  <2>1. PICK j \in unflagged : p = point[j]
    BY <1>10
  <2>2. PICK k \in unflagged : q = point[k]
    BY <1>10
  <2>3. middles[j] = middles[k] /\ j \in 1..Len(middles) /\ k \in 1..Len(middles)
    BY <1>6, <1>7, <1>12, <2>1, <2>2
  <2>4. j = k
    BY <1>4, <2>3 DEF MiddlesKnown
  <2> QED BY <2>1, <2>2, <2>4
<1>13. NewPoints(new)
  BY <1>9, <1>11, <1>12 DEF NewPoints
<1> QED BY <1>3, <1>13

\* The place of the measurement in the other steps.
StillStep ==
  /\ UNCHANGED << ranges, shot, series >> /\ (pc' \in BeforeMotion => pc \in BeforeMotion)
  /\ pc' \in Measuring => pc \in Measuring \cup {"sampled"}
  /\ pc' = "motion" => pc = "motion"
  /\ pc' \in BeforeMotion \ {"chromatic", "spatial"} => pc \in BeforeMotion \ {"chromatic", "spatial"}

FirstStep ==
  /\ UNCHANGED << shot, series >>
  /\ pc \in BeforeMotion \ {"chromatic", "spatial", "sampled"} /\ pc' \notin Measuring

NextShot(here, next) ==
  /\ UNCHANGED << ranges, series >>
  /\ pc = here
  /\ \/ pc' \in {here, "refused"} /\ shot' = shot
     \/ shot < Len(ranges) /\ pc' = here /\ shot' = shot + 1
     \/ pc' = next /\ shot' = 1

LEMMA StepsOfSeries ==
  ASSUME [Next]_vars
  PROVE  \/ MeasureMotion
         \/ StillStep \/ FirstStep
         \/ NextShot("chromatic", "spatial") \/ NextShot("spatial", "motion")
<1>1. CASE Sample
  BY <1>1 DEF Sample, SamplingNext, measureVars, FirstStep, StillStep, BeforeMotion, Measuring, Detect, DetectFails, AddCut, Close, Merge,
     Plan, ConsumeFrame, ExtractFails, EndOfFrames, StoreSample, StoreManifest, SamplingCancel, Cancel
<1>2. CASE StartMeasuring
  BY <1>2 DEF StartMeasuring, measureVars, sampled, StillStep, BeforeMotion, Measuring
<1>3. CASE MeasureChromatic
  BY <1>3 DEF MeasureChromatic, Advance, sampled, NextShot
<1>4. CASE MeasureSpatial
  BY <1>4 DEF MeasureSpatial, Advance, sampled, NextShot
<1>6. CASE MeasureCancel
  BY <1>6 DEF MeasureCancel, Cancel, measureVars, StillStep, BeforeMotion, Measuring
<1>7. CASE AnalyzeAudio
  BY <1>7 DEF AnalyzeAudio, sampled, StillStep, BeforeMotion, Measuring
<1>8. CASE AudioStuck
  BY <1>8 DEF AudioStuck, measureVars, sampled, StillStep, BeforeMotion, Measuring
<1>9. CASE AssembleReport
  BY <1>9 DEF AssembleReport, sampled, StillStep, BeforeMotion, Measuring
<1>10. CASE Aggregate
  BY <1>10 DEF Aggregate, sampled, StillStep, BeforeMotion, Measuring
<1>11. CASE GetTimeline
  BY <1>11 DEF GetTimeline, sampled, StillStep, BeforeMotion, Measuring
<1>12. CASE UNCHANGED vars
  BY <1>12 DEF vars, samplingVars, measureVars, StillStep
<1>13. CASE Ended
  BY <1>12, <1>13 DEF Ended
<1>14. CASE BuildTimeline
  BY <1>14 DEF BuildTimeline, sampled, StillStep, BeforeMotion, Measuring
<1> QED BY <1>1, <1>2, <1>3, <1>4, <1>6, <1>7, <1>8, <1>9, <1>10, <1>11, <1>12, <1>13, <1>14 DEF Next

SeriesInv == ManifestInv /\ ShotKnown /\ SeriesKnown

LEMMA SeriesInvStep ==
  ASSUME SeriesInv, [Next]_vars
  PROVE  SeriesInv'
<1> USE DEF SeriesInv
<1>0. ManifestInv'
  BY ManifestInvStep
<1>1. /\ ranges \in Seq(TimeRangeMs) /\ Len(ranges) \in Nat
      /\ pc \notin {"detect", "cut", "failed", "canceled"} => Len(ranges) >= 1
  <2>1. ranges \in Seq(TimeRangeMs) /\ clip \in Clip
        /\ (pc \notin {"detect", "cut", "failed", "canceled"} => Edge(ranges) = clip.duration_ms)
    BY DEF ManifestInv, SampleInv, ShotInv, ShotType, Covered
  <2>2. Edge(ranges) = clip.duration_ms => ranges # << >>
    BY <2>1, ClipType DEF Edge
  <2> QED BY <2>1, <2>2
<1>2. Len(ranges)' \in Nat
  BY <1>0 DEF ManifestInv, SampleInv, ShotInv, ShotType
<1>3. shot \in Nat \ {0}
  BY <1>1 DEF ShotKnown, Larger
<1>4. CASE MeasureMotion
  <2>1. /\ ranges' = ranges /\ pc = "motion" /\ shot <= Len(ranges)
        /\ \/ shot < Len(ranges) /\ pc' = "motion" /\ shot' = shot + 1
           \/ pc' = "audio" /\ shot' = 1
    BY <1>4 DEF MeasureMotion, Advance, sampled, ShotKnown, Measuring
  <2>2. PICK new : series' = series \cup new /\ NewPoints(new)
    BY <1>4, MotionAdds
  <2>3. ShotKnown'
    BY <2>1, <1>1, <1>3 DEF ShotKnown, Larger, BeforeMotion, Measuring
  <2>4. IsFiniteSet(series')
    BY <2>2, FS_Union DEF SeriesKnown, NewPoints
  <2>5. /\ series' \subseteq MotionSeriesPoint
        /\ \A p \in series' : p.shot \in 1..Len(ranges) /\ Within(p.at_ms, ranges[p.shot])
    BY <2>2 DEF SeriesKnown, NewPoints
  <2>6. ASSUME NEW p \in series', NEW q \in series', p.shot = q.shot, p.at_ms = q.at_ms
        PROVE  p = q
    <3>1. \A r \in series : r.shot # shot
      BY <2>1, <1>3 DEF SeriesKnown
    <3> QED BY <2>2, <2>6, <3>1 DEF SeriesKnown, NewPoints
  <2>7. pc' = "motion" => \A p \in series' : p.shot < shot'
    <3> SUFFICES ASSUME pc' = "motion", NEW p \in series' PROVE p.shot < shot'
      OBVIOUS
    <3>1. shot' = shot + 1
      BY <2>1
    <3>2. p.shot = shot \/ (p.shot < shot /\ p.shot \in Nat)
      BY <2>1, <2>2 DEF SeriesKnown, NewPoints, MotionSeriesPoint
    <3> QED BY <3>1, <3>2, <1>3
  <2> QED BY <2>1, <2>3, <2>4, <2>5, <2>6, <2>7, <1>0 DEF SeriesKnown, BeforeMotion
<1>5. CASE StillStep
  <2>1. SeriesKnown'
    BY <1>5 DEF StillStep, SeriesKnown
  <2>2. ShotKnown'
    BY <1>5, <1>1 DEF StillStep, ShotKnown, BeforeMotion, Measuring, Larger
  <2> QED BY <2>1, <2>2, <1>0
<1>6. CASE FirstStep
  <2>1. series = {} /\ series' = {} /\ shot' = 1
    BY <1>6 DEF FirstStep, SeriesKnown, ShotKnown, BeforeMotion
  <2>2. SeriesKnown'
    BY <2>1, FS_EmptySet DEF SeriesKnown
  <2>3. ShotKnown'
    BY <2>1, <1>6, <1>2 DEF FirstStep, ShotKnown, Larger, Measuring
  <2> QED BY <2>2, <2>3, <1>0
<1>7. CASE NextShot("chromatic", "spatial") \/ NextShot("spatial", "motion")
  <2>1. series = {} /\ series' = {} /\ ranges' = ranges
    BY <1>7 DEF NextShot, SeriesKnown, BeforeMotion
  <2>2. SeriesKnown'
    BY <2>1, FS_EmptySet DEF SeriesKnown
  <2>3. ShotKnown'
    BY <2>1, <1>7, <1>1, <1>3 DEF NextShot, ShotKnown, Larger, Measuring, BeforeMotion
  <2> QED BY <2>2, <2>3, <1>0
<1> QED BY <1>4, <1>5, <1>6, <1>7, StepsOfSeries

LEMMA SeriesInvInit ==
  ASSUME Init
  PROVE  SeriesInv
<1>1. series = {} /\ shot = 1 /\ ranges = << >> /\ pc = "detect"
  BY DEF Init, SamplingInit
<1>2. SeriesKnown
  BY <1>1, FS_EmptySet DEF SeriesKnown
<1>3. ShotKnown
  BY <1>1 DEF ShotKnown, Larger, Measuring
<1> QED BY <1>2, <1>3, ManifestInvInit DEF SeriesInv

PlacesKnown ==
  /\ pc \in ReportPc
  /\ clip \in Clips
  /\ verdict \in {"none", "SUCCEEDED", "PARTIAL"}

LEMMA PlacesStep ==
  ASSUME PlacesKnown, [Next]_vars
  PROVE  PlacesKnown'
<1> USE DEF PlacesKnown
<1>0. clip' = clip
  BY ClipStays
<1>1. CASE Sample
  BY <1>0, <1>1 DEF Sample, SamplingNext, measureVars, ReportPc, SamplingPc, Detect, DetectFails, AddCut, Close, Merge,
     Plan, ConsumeFrame, ExtractFails, EndOfFrames, StoreSample, StoreManifest, SamplingCancel, Cancel
<1>2. CASE StartMeasuring
  BY <1>0, <1>2 DEF StartMeasuring, measureVars, ReportPc
<1>3. CASE MeasureChromatic
  BY <1>0, <1>3 DEF MeasureChromatic, Advance, ReportPc, SamplingPc
<1>4. CASE MeasureSpatial
  BY <1>0, <1>4 DEF MeasureSpatial, Advance, ReportPc
<1>5. CASE MeasureMotion
  BY <1>0, <1>5 DEF MeasureMotion, Advance, ReportPc
<1>6. CASE MeasureCancel
  BY <1>0, <1>6 DEF MeasureCancel, Cancel, measureVars, ReportPc, SamplingPc
<1>7. CASE AnalyzeAudio
  BY <1>0, <1>7 DEF AnalyzeAudio, ReportPc
<1>8. CASE AudioStuck
  BY <1>0, <1>8 DEF AudioStuck, measureVars, ReportPc, SamplingPc
<1>9. CASE AssembleReport
  BY <1>0, <1>9 DEF AssembleReport, ReportPc, SamplingPc
<1>10. CASE Aggregate
  BY <1>0, <1>10 DEF Aggregate, ReportPc
<1>11. CASE GetTimeline
  BY <1>0, <1>11 DEF GetTimeline, ReportPc
<1>12. CASE UNCHANGED vars
  BY <1>12 DEF vars, samplingVars, measureVars
<1>13. CASE Ended
  BY <1>12, <1>13 DEF Ended
<1>14. CASE BuildTimeline
  BY <1>0, <1>14 DEF BuildTimeline, ReportPc, SamplingPc
<1> QED BY <1>1, <1>2, <1>3, <1>4, <1>5, <1>6, <1>7, <1>8, <1>9, <1>10, <1>11, <1>12, <1>13, <1>14 DEF Next

\* Every variable stays in its type: one answer at most for a request, no answer of
\* another plan, a shot that the clip has.
THEOREM ReportTypes == Spec => []TypeOK
<1>1. Init => SeriesInv /\ PlacesKnown
  BY SeriesInvInit DEF Init, SamplingInit, PlacesKnown, ReportPc, SamplingPc
<1>2. SeriesInv /\ PlacesKnown /\ [Next]_vars => (SeriesInv /\ PlacesKnown)'
  BY SeriesInvStep, PlacesStep
<1>3. SeriesInv /\ PlacesKnown => TypeOK
  BY DEF SeriesInv, ShotKnown, SeriesKnown, ManifestInv, Manifest, SampleInv, Waiting, ShotInv,
         ShotType, PlacesKnown, TypeOK
<1> QED BY <1>1, <1>2, <1>3, PTL DEF Spec

-----------------------------------------------------------------------------
(* Motion never crosses a cut.                                             *)

\* Every instant of the clip lies in a shot, and shot_index_at finds it.
LEMMA InstantInShot ==
  ASSUME NEW rs \in Seq(TimeRangeMs), Chained(rs), NEW t \in Nat, t < Edge(rs)
  PROVE  /\ shot_index_at(t, rs) \in 1..Len(rs)
         /\ Within(t, rs[shot_index_at(t, rs)])
<1> DEFINE S == {i \in 1..Len(rs) : t < rs[i].end_ms}
           found(i) == Within(t, rs[i]) /\ \A j \in 1..(i - 1) : ~Within(t, rs[j])
<1>1. Len(rs) \in Nat /\ rs # << >> /\ Edge(rs) = rs[Len(rs)].end_ms
  BY DEF Edge
<1>2. \A i \in 1..Len(rs) : rs[i].start_ms \in Nat /\ rs[i].end_ms \in Nat
  BY RangeType
<1>3. Len(rs) \in S /\ S \subseteq Nat
  BY <1>1
<1> HIDE DEF S
<1>4. PICK i \in S : \A j \in S : i <= j
  BY <1>3, LeastNatural
<1> USE DEF S
<1>5. i \in 1..Len(rs) /\ t < rs[i].end_ms /\ \A j \in 1..(i - 1) : ~(t < rs[j].end_ms)
  BY <1>1, <1>4
<1>6. Within(t, rs[i])
  <2>1. CASE i = 1
    <3>1. rs[i].start_ms = 0
      BY <1>5, <2>1 DEF Chained
    <3> QED BY <3>1, <1>5 DEF Within
  <2>2. CASE i # 1
    <3>1. i - 1 \in 1..Len(rs) /\ i - 1 \in 1..(i - 1) /\ rs[i].start_ms = rs[i - 1].end_ms
      BY <1>5, <2>2 DEF Chained
    <3>2. ~(t < rs[i - 1].end_ms)
      BY <1>5, <3>1
    <3> QED BY <3>1, <3>2, <1>2, <1>5 DEF Within
  <2> QED BY <2>1, <2>2
<1>7. \A j \in 1..(i - 1) : ~Within(t, rs[j])
  BY <1>5 DEF Within
<1>8. \E k \in 1..Len(rs) : found(k)
  BY <1>5, <1>6, <1>7
<1>9. shot_index_at(t, rs) = CHOOSE k \in 1..Len(rs) : found(k)
  BY <1>5, <1>6, Zenon DEF shot_index_at
<1> HIDE DEF found
<1>10. (CHOOSE k \in 1..Len(rs) : found(k)) \in 1..Len(rs) /\ found(CHOOSE k \in 1..Len(rs) : found(k))
  BY <1>8, Zenon
<1> QED BY <1>9, <1>10 DEF found

\* A mean lies between the least and the greatest.
LEMMA MeanBetween ==
  ASSUME NEW S, IsFiniteSet(S), S # {}, NEW v \in [S -> Nat]
  PROVE  LET mean == SumFunction(v) \div Cardinality(S) IN
         /\ mean \in Nat
         /\ \E x \in S : v[x] <= mean
         /\ \E x \in S : v[x] >= mean
<1> DEFINE n == Cardinality(S)  sum == SumFunction(v)  mean == sum \div n
<1>1. n \in Nat /\ n > 0
  BY FS_CardinalityType, FS_EmptySet
<1>2. sum \in Int
  <2>1. v \in [S -> Int]
    OBVIOUS
  <2> QED BY <2>1, SumType
<1>3. 0 * n <= sum
  BY SumAtLeast
<1> HIDE DEF n, sum
<1>4. mean \in Int /\ n * mean <= sum /\ sum < n * mean + n
  BY <1>1, <1>2, Quotient
<1> HIDE DEF mean
<1>5. mean >= 0
  <2> SUFFICES ASSUME mean <= 0 - 1 PROVE FALSE
    BY <1>4
  <2>1. n * mean <= n * (0 - 1)
    BY <1>1, <1>4, MultipleBelow
  <2> QED BY <2>1, <1>1, <1>2, <1>3, <1>4
<1>6. \E x \in S : v[x] <= mean
  <2> SUFFICES ASSUME \A x \in S : ~(v[x] <= mean) PROVE FALSE
    OBVIOUS
  <2>1. \A x \in S : mean + 1 <= v[x]
    BY <1>4
  <2>2. (mean + 1) * n <= sum
    <3>1. v \in [S -> Int] /\ mean + 1 \in Int
      BY <1>4
    <3> QED BY <2>1, <3>1, SumAtLeast DEF n, sum
  <2>3. (mean + 1) * n = n * mean + n
    BY <1>1, <1>4
  <2> QED BY <2>2, <2>3, <1>1, <1>2, <1>4
<1>7. \E x \in S : v[x] >= mean
  <2> SUFFICES ASSUME \A x \in S : ~(v[x] >= mean) PROVE FALSE
    OBVIOUS
  <2>1. \A x \in S : v[x] <= mean - 1
    BY <1>4
  <2>2. sum <= (mean - 1) * n
    <3>1. v \in [S -> Int] /\ mean - 1 \in Int
      BY <1>4
    <3> QED BY <2>1, <3>1, SumAtMost DEF n, sum
  <2>3. (mean - 1) * n = n * mean - n
    BY <1>1, <1>4
  <2> QED BY <2>2, <2>3, <1>1, <1>2, <1>4
<1> QED BY <1>4, <1>5, <1>6, <1>7 DEF mean, n, sum

Nearer(p, q, at) ==
  \/ Distance(p.at_ms, at) < Distance(q.at_ms, at)
  \/ Distance(p.at_ms, at) = Distance(q.at_ms, at) /\ p.at_ms < q.at_ms

\* Pairs at different instants are nearer or farther: one of them is the nearest.
LEMMA NearestExists ==
  ASSUME NEW own \in SUBSET MotionSeriesPoint, IsFiniteSet(own), own # {}, NEW at \in Int,
         \A p, q \in own : p.at_ms = q.at_ms => p = q
  PROVE  \E p \in own : \A q \in own \ {p} : Nearer(p, q, at)
<1> DEFINE R == {x \in own \X own : Nearer(x[1], x[2], at)}
<1>1. \A p \in own : p.at_ms \in Nat /\ Distance(p.at_ms, at) \in Int
  BY DEF MotionSeriesPoint, Distance
<1>2. \A p \in own : ~Nearer(p, p, at)
  BY <1>1 DEF Nearer
<1>3. \A p, q \in own : p # q => Nearer(p, q, at) \/ Nearer(q, p, at)
  BY <1>1 DEF Nearer
<1>4. \A p, q, r \in own : Nearer(p, q, at) /\ Nearer(q, r, at) => Nearer(p, r, at)
  BY <1>1 DEF Nearer
<1>5. \A p, q \in own : << p, q >> \in R <=> Nearer(p, q, at)
  OBVIOUS
<1> HIDE DEF R
<1>6. StrictOrder(R, own)
  BY <1>2, <1>3, <1>4, <1>5, Zenon DEF StrictOrder
<1>7. Cardinality(own) \in Nat /\ 1 \in 1..Cardinality(own)
  BY FS_CardinalityType, FS_EmptySet
<1>8. PICK p \in own : Rank(p, own, R) = 1 - 1
  BY <1>6, <1>7, Ranks
<1>9. ASSUME NEW q \in own \ {p} PROVE Nearer(p, q, at)
  <2>1. {t \in own : << t, p >> \in R} = {}
    <3>1. IsFiniteSet({t \in own : << t, p >> \in R})
      BY FS_Subset
    <3>2. Cardinality({t \in own : << t, p >> \in R}) = 0
      BY <1>8 DEF Rank
    <3> QED BY <3>1, <3>2, FS_EmptySet
  <2>2. ~(<< q, p >> \in R)
    BY <2>1
  <2> QED BY <2>2, <1>3, <1>5
<1> QED BY <1>9

\* The motion at an instant lies between the least and the greatest of the shot's own.
OfOwnShot(raw, own) ==
  /\ raw.global \in Nat /\ raw.residual \in Nat
  /\ raw.global > 0 => \E p \in own : p.global >= raw.global
  /\ own # {} => \E p \in own : p.global <= raw.global

LEMMA MotionOfOwnShot ==
  ASSUME NEW S \in SUBSET MotionSeriesPoint, IsFiniteSet(S), NEW at \in Int, NEW sh,
         \A p, q \in S : p.shot = q.shot /\ p.at_ms = q.at_ms => p = q
  PROVE  OfOwnShot(MotionAt(at, sh, S), {p \in S : p.shot = sh})
<1> DEFINE own == {p \in S : p.shot = sh}
           window == {p \in own : at <= p.at_ms /\ p.at_ms < at + HopMs}
           nearest == CHOOSE p \in own : \A q \in own \ {p} : Nearer(p, q, at)
           of == IF window # {} THEN window ELSE IF own # {} THEN {nearest} ELSE {}
           g == [p \in of |-> p.global]
           r == [p \in of |-> p.residual]
           raw == MotionAt(at, sh, S)
<1>1. own \in SUBSET S /\ IsFiniteSet(own) /\ \A p, q \in own : p.at_ms = q.at_ms => p = q
  <2>1. own \in SUBSET S
    OBVIOUS
  <2> QED BY <2>1, FS_Subset
<1>2. raw = IF of = {} THEN [global |-> 0, residual |-> 0]
            ELSE [global |-> SumFunction(g) \div Cardinality(of),
                  residual |-> SumFunction(r) \div Cardinality(of)]
  BY Zenon DEF MotionAt, Mean, Nearer
<1> HIDE DEF raw, own
<1>3. own # {} => nearest \in own
  <2> SUFFICES ASSUME own # {} PROVE nearest \in own
    OBVIOUS
  <2>1. \E p \in own : \A q \in own \ {p} : Nearer(p, q, at)
    BY <1>1, NearestExists
  <2> QED BY <2>1, Zenon
<1>4. window \in SUBSET own
  OBVIOUS
<1> HIDE DEF nearest, window
<1>5. of \in SUBSET own /\ (own # {} => of # {})
  BY <1>3, <1>4
<1>6. CASE of = {}
  <2>1. raw = [global |-> 0, residual |-> 0] /\ own = {}
    BY <1>2, <1>5, <1>6
  <2>2. OfOwnShot(raw, own)
    BY <2>1 DEF OfOwnShot
  <2> QED BY <2>2 DEF raw, own
<1>7. CASE of # {}
  <2>1. IsFiniteSet(of) /\ of \subseteq MotionSeriesPoint
    BY <1>1, <1>5, FS_Subset
  <2> HIDE DEF of
  <2>2. g \in [of -> Nat] /\ r \in [of -> Nat] /\ \A p \in of : g[p] = p.global
    BY <2>1 DEF MotionSeriesPoint
  <2> HIDE DEF g, r
  <2> DEFINE mean == SumFunction(g) \div Cardinality(of)
             rest == SumFunction(r) \div Cardinality(of)
  <2>3. /\ mean \in Nat
        /\ \E p \in of : g[p] <= mean
        /\ \E p \in of : g[p] >= mean
    BY <1>7, <2>1, <2>2, MeanBetween
  <2>4. rest \in Nat
    BY <1>7, <2>1, <2>2, MeanBetween
  <2>5. raw = [global |-> mean, residual |-> rest]
    BY <1>2, <1>7
  <2> HIDE DEF mean, rest
  <2>6. raw.global = mean /\ raw.residual = rest
    BY <2>5
  <2>7. (\E p \in own : p.global <= mean) /\ (\E p \in own : p.global >= mean)
    BY <1>5, <2>2, <2>3
  <2>8. OfOwnShot(raw, own)
    BY <2>3, <2>4, <2>6, <2>7 DEF OfOwnShot
  <2> QED BY <2>8 DEF raw, own
<1> QED BY <1>6, <1>7

\* What is known of the instant and the motion of every point.
LEMMA PointsInShot ==
  ASSUME SeriesInv, pc \notin {"detect", "cut", "failed", "canceled"}, NEW i \in 1..Hops
  PROVE  /\ Hops \in Nat /\ Len(Built.points) = Hops
         /\ Built.points[i] = PointAt(ranges, series, audio.windows, AudioOk, MotionOk, Hops, i)
         /\ Built.points[i].shot \in 1..Len(ranges)
         /\ Within(Built.points[i].at_ms, ranges[Built.points[i].shot])
         /\ OfOwnShot(Built.points[i].raw, {p \in series : p.shot = Built.points[i].shot})
<1> DEFINE f == [k \in 1..Hops |-> PointAt(ranges, series, audio.windows, AudioOk, MotionOk, Hops, k)]
           t == (i - 1) * HopMs
<1>1. /\ ranges \in Seq(TimeRangeMs) /\ Chained(ranges) /\ ShotInv
      /\ Edge(ranges) = clip.duration_ms
  BY DEF SeriesInv, ManifestInv, SampleInv, ShotInv, ShotType, Covered
<1>2. /\ Hops \in Nat /\ window_starts(total_ms(ranges)) = [k \in 1..Hops |-> (k - 1) * HopMs]
      /\ t \in Nat /\ t < clip.duration_ms
  BY <1>1, StartsAre
<1>3. Built.points = f
  BY <1>2, TimelinePoints DEF Built
<1>4. Len(f) = Hops /\ f[i] = PointAt(ranges, series, audio.windows, AudioOk, MotionOk, Hops, i)
  BY <1>2
<1> HIDE DEF f, t
<1>5. /\ f[i].at_ms = t /\ f[i].shot = shot_index_at(t, ranges)
      /\ f[i].raw = MotionAt(t, f[i].shot, series)
  BY <1>4 DEF PointAt, ShotAt, RawAt, t
<1>6. f[i].shot \in 1..Len(ranges) /\ Within(t, ranges[f[i].shot])
  BY <1>1, <1>2, <1>5, InstantInShot
<1>7. /\ series \in SUBSET MotionSeriesPoint /\ IsFiniteSet(series) /\ t \in Int
      /\ \A p, q \in series : p.shot = q.shot /\ p.at_ms = q.at_ms => p = q
  BY <1>2 DEF SeriesInv, SeriesKnown
<1>8. OfOwnShot(MotionAt(t, f[i].shot, series), {p \in series : p.shot = f[i].shot})
  BY <1>7, MotionOfOwnShot
<1> QED BY <1>2, <1>3, <1>4, <1>5, <1>6, <1>8

\* Whatever the frame times and the flow, no point of the series or of the timeline
\* takes its motion from another shot.
THEOREM MotionStaysInShot == Spec => []MotionInShot
<1>1. Init => SeriesInv /\ TimelineInv
  BY SeriesInvInit, TimelineInvInit
<1>2. SeriesInv /\ TimelineInv /\ [Next]_vars => (SeriesInv /\ TimelineInv)'
  BY SeriesInvStep, TimelineInvStep
<1>3. SeriesInv /\ TimelineInv => MotionInShot
  <2> SUFFICES ASSUME SeriesInv, TimelineInv PROVE MotionInShot
    OBVIOUS
  <2>1. \A p \in series : Within(p.at_ms, ranges[p.shot])
    BY DEF SeriesInv, SeriesKnown
  <2>2. CASE timeline = NoTimeline
    BY <2>1, <2>2 DEF NoTimeline, MotionInShot
  <2>3. CASE timeline # NoTimeline
    <3>1. timeline = Built /\ pc \notin {"detect", "cut", "failed", "canceled"}
      BY <2>3 DEF TimelineInv, TimelineKnown, AfterTimeline
    <3>2. Len(Built.points) = Hops
      BY <3>1, BuiltPoints DEF TimelineInv, VerdictInv
    <3>3. \A i \in 1..Hops :
            /\ Within(Built.points[i].at_ms, ranges[Built.points[i].shot])
            /\ OfOwnShot(Built.points[i].raw, {p \in series : p.shot = Built.points[i].shot})
      BY <3>1, PointsInShot
    <3> HIDE DEF Built
    <3> QED BY <2>1, <3>1, <3>2, <3>3 DEF OfOwnShot, MotionInShot
  <2> QED BY <2>2, <2>3
<1> QED BY <1>1, <1>2, <1>3, PTL DEF Spec

-----------------------------------------------------------------------------
(* What the validators of the domain refuse of what the stage has built.    *)

ChromaStatus == {"OK", "INSUFFICIENT_DATA", "FAILED"}
SpatialStatus == {"OK", "NO_SUBJECT", "INSUFFICIENT_DATA", "NOT_COMPUTED"}

Unmeasured == {"detect", "cut", "merge", "extract", "store", "sampled"}

\* The pillars are measured one after the other, each in every shot.
CountKnown ==
  /\ chroma \in Seq(ChromaStatus) /\ space \in Seq(SpatialStatus)
  /\ pc \in Unmeasured => Len(chroma) = 0
  /\ pc \in Unmeasured \cup {"chromatic"} => Len(space) = 0
  /\ pc = "chromatic" => Len(chroma) = shot - 1
  /\ pc \in {"spatial", "motion", "audio", "timeline", "report"} => Len(chroma) = Len(ranges)
  /\ pc = "spatial" => Len(space) = shot - 1
  /\ pc \in {"motion", "audio", "timeline", "report"} => Len(space) = Len(ranges)
  /\ pc \in {"audio", "timeline", "report"} => Len(temporal) = Len(ranges)
  /\ pc = "store" => pending = {}
  /\ AudioOk => clip.has_audio
  /\ RefusedOnlyByTie

RefusedInv == SeriesInv /\ VerdictInv /\ CountKnown

\* The shots of a clip pass the validator of ShotSet.
LEMMA PlanAccepted ==
  ASSUME ShotInv, pc = "merge"
  PROVE  shots_are_contiguous(ranges)
<1>1. /\ ranges \in Seq(TimeRangeMs) /\ Chained(ranges) /\ Edge(ranges) = clip.duration_ms
      /\ 0 < clip.duration_ms /\ clip.duration_ms \in Nat
  BY ClipType DEF ShotInv, ShotType, Covered
<1>2. ranges # << >>
  BY <1>1 DEF Edge
<1>3. \A i \in 1..Len(ranges) : end_follows_start(ranges[i])
  BY <1>1, RangeType DEF Chained, end_follows_start
<1>4. ASSUME NEW i \in 1..(Len(ranges) - 1) PROVE ranges[i].end_ms = ranges[i + 1].start_ms
  <2>1. i + 1 \in 1..Len(ranges) /\ i + 1 # 1 /\ (i + 1) - 1 = i
    BY <1>1
  <2> QED BY <1>1, <2>1 DEF Chained
<1> QED BY <1>2, <1>3, <1>4 DEF shots_are_contiguous

\* When everything captured is stored, every request has its result.
LEMMA ManifestAccepted ==
  ASSUME ManifestInv, pending = {}, Unstored = {}
  PROVE  {a.request : a \in results} = plan
<1>1. /\ \A q \in plan : \E a \in captured : a.request = q
      /\ results \subseteq captured
      /\ \A a \in captured : a.request \in plan
  BY DEF ManifestInv, Manifest, SampleInv
<1>2. captured \subseteq results
  BY DEF Unstored
<1> QED BY <1>1, <1>2

\* The palette of a shot passes the validator of ChromaticValue, but for a tie.
LEMMA ColoursAccepted ==
  ASSUME ManifestInv, NEW look \in [FramesIn(load_decoded_jpegs(shot, "CHROMATIC")) -> Pictures],
         NEW measured,
         measured = AnalyzeChroma([k \in 1..Len(load_decoded_jpegs(shot, "CHROMATIC")) |->
                                     look[load_decoded_jpegs(shot, "CHROMATIC")[k].frame]])
  PROVE  /\ measured.status \in ChromaStatus
         /\ measured.status = "OK" => RankedOrTied(measured.palette)
<1> DEFINE samples == load_decoded_jpegs(shot, "CHROMATIC")
           n == Len(samples)
           pictures == [k \in 1..n |-> look[samples[k].frame]]
<1>1. n \in Nat
  BY SamplesAreOrdered DEF SamplesInOrder
<1> HIDE DEF samples
<1>2. look \in [FramesIn(samples) -> Pictures]
  BY DEF samples
<1>3. measured = AnalyzeChroma(pictures)
  BY DEF samples
<1> HIDE DEF n
<1>4. pictures \in Seq(Pictures) /\ Len(pictures) = n
  <2>1. ASSUME NEW k \in 1..n PROVE look[samples[k].frame] \in Pictures
    <3>1. samples[k].frame \in FramesIn(samples)
      BY DEF FramesIn, n
    <3> QED BY <1>2, <3>1
  <2> QED BY <1>1, <2>1
<1> HIDE DEF pictures
<1>5. \A k \in 1..n : pictures[k] \in Pictures
  BY <1>1, <1>4
<1> QED BY <1>1, <1>3, <1>4, <1>5, ChromaRanked DEF ChromaStatus

LEMMA SpatialStatusType ==
  ASSUME NEW hits
  PROVE  AnalyzeSpatial(hits).status \in SpatialStatus
<1>1. \A s : NoSpatial(s).status = s
  BY DEF NoSpatial
<1>2. ASSUME NEW o, NEW n PROVE Measured(o, n).status \in SpatialStatus
  <2> DEFINE p == select(o, n)
  <2>1. [NoSpatial("NO_SUBJECT") EXCEPT !.observed = o].status = "NO_SUBJECT"
    BY DEF NoSpatial
  <2>2. Measured(o, n) = IF p = 0 THEN [NoSpatial("NO_SUBJECT") EXCEPT !.observed = o]
                         ELSE [status |-> "OK", primary |-> p, observed |-> o,
                               framing |-> estimate_framing(Members(o, p))]
    BY Zenon DEF Measured, Subject
  <2> HIDE DEF p
  <2> QED BY <2>1, <2>2 DEF SpatialStatus
<1>3. /\ "NOT_COMPUTED" \in SpatialStatus /\ "INSUFFICIENT_DATA" \in SpatialStatus
  BY DEF SpatialStatus
<1> QED BY Zenon, <1>1, <1>2, <1>3 DEF AnalyzeSpatial

LEMMA SamplingKeepsCount ==
  ASSUME RefusedInv, Sample
  PROVE  CountKnown'
<1>1. UNCHANGED << chroma, space, temporal, audio >> /\ clip' = clip
  <2>1. [Next]_vars
    BY DEF Next
  <2> QED BY <2>1, ClipStays DEF Sample, measureVars
<1>2. pc \in Unmeasured /\ pc' \in Unmeasured \cup {"refused", "failed", "canceled"}
  BY DEF Sample, SamplingNext, Unmeasured, Detect, DetectFails, AddCut, Close, Merge, Plan,
     ConsumeFrame, ExtractFails, EndOfFrames, StoreSample, StoreManifest, SamplingCancel, Cancel
<1>3. pc' # "refused"
  <2> USE <1>2
  <2>1. CASE Plan
    BY <2>1, PlanAccepted DEF Plan, RefusedInv, VerdictInv
  <2>2. CASE StoreManifest
    <3>1. pending = {} /\ Unstored = {}
      BY <2>2 DEF StoreManifest, RefusedInv, CountKnown
    <3> QED BY <2>2, <3>1, ManifestAccepted DEF StoreManifest, RefusedInv, SeriesInv
  <2>3. CASE ~Plan /\ ~StoreManifest
    BY <2>3 DEF RefusedInv, CountKnown, RefusedOnlyByTie, Sample, SamplingNext, Detect, DetectFails,
       AddCut, Close, Merge, ConsumeFrame, ExtractFails, EndOfFrames, StoreSample, SamplingCancel, Cancel
  <2> QED BY <2>1, <2>2, <2>3
<1>4. pc' = "store" => pending' = {}
  BY DEF RefusedInv, CountKnown, Sample, SamplingNext, Detect, DetectFails, AddCut, Close, Merge, Plan,
     ConsumeFrame, ExtractFails, EndOfFrames, StoreSample, StoreManifest, SamplingCancel, Cancel
<1>5. AudioOk' = AudioOk
  BY <1>1 DEF AudioOk
<1> QED BY <1>1, <1>2, <1>3, <1>4, <1>5 DEF RefusedInv, CountKnown, RefusedOnlyByTie, Unmeasured

LEMMA ChromaKeepsCount ==
  ASSUME RefusedInv, MeasureChromatic
  PROVE  CountKnown'
<1>1. /\ pc = "chromatic" /\ UNCHANGED << ranges, clip, space, temporal, audio >>
  BY DEF MeasureChromatic, sampled
<1> DEFINE samples == load_decoded_jpegs(shot, "CHROMATIC")
<1>2. PICK look \in [FramesIn(samples) -> Pictures] :
        LET measured == AnalyzeChroma([k \in 1..Len(samples) |-> look[samples[k].frame]]) IN
        /\ chroma' = Append(chroma, measured.status)
        /\ detail' = [of |-> "chromatic", measured |-> measured]
        /\ \E dust \in Dust(measured.palette) :
             IF measured.status = "OK" /\ ~palette_is_ranked(measured.palette, dust)
             THEN pc' = "refused" /\ shot' = shot
             ELSE Advance("chromatic", "spatial")
  BY DEF MeasureChromatic
<1> DEFINE measured == AnalyzeChroma([k \in 1..Len(samples) |-> look[samples[k].frame]])
<1>3. /\ measured.status \in ChromaStatus
      /\ measured.status = "OK" => RankedOrTied(measured.palette)
  BY <1>2, ColoursAccepted DEF RefusedInv, SeriesInv
<1>4. PICK dust \in Dust(measured.palette) :
        IF measured.status = "OK" /\ ~palette_is_ranked(measured.palette, dust)
        THEN pc' = "refused" /\ shot' = shot
        ELSE Advance("chromatic", "spatial")
  BY <1>2
<1>5. chroma' = Append(chroma, measured.status) /\ detail' = [of |-> "chromatic", measured |-> measured]
  BY <1>2
<1> HIDE DEF measured
<1>6. chroma \in Seq(ChromaStatus) /\ space \in Seq(SpatialStatus) /\ Len(chroma) = shot - 1 /\ Len(space) = 0
  BY <1>1 DEF RefusedInv, CountKnown
<1>7. shot \in Nat /\ shot <= Len(ranges) /\ Len(ranges) \in Nat
  BY <1>1 DEF RefusedInv, SeriesInv, ShotKnown, Measuring, Larger, VerdictInv, ShotInv, ShotType
<1>8. chroma' \in Seq(ChromaStatus) /\ Len(chroma') = shot
  BY <1>3, <1>6, <1>7, <1>5
<1>9. \/ pc' = "chromatic" /\ shot' = shot + 1
      \/ pc' = "spatial" /\ shot' = 1 /\ shot = Len(ranges)
      \/ pc' = "refused"
  BY <1>4, <1>7 DEF Advance
<1>10. RefusedOnlyByTie'
  <2> SUFFICES ASSUME pc' = "refused" PROVE RefusedOnlyByTie'
    BY DEF RefusedOnlyByTie
  <2>1. measured.status = "OK" /\ ~palette_is_ranked(measured.palette, dust)
    BY <1>4 DEF Advance
  <2>2. /\ Len(measured.palette) >= 3
        /\ measured.palette[Len(measured.palette) - 1].count = measured.palette[Len(measured.palette)].count
    BY <1>3, <1>4, <2>1 DEF RankedOrTied
  <2>3. detail'.of = "chromatic" /\ detail'.measured = measured
    BY <1>5
  <2> QED BY <2>1, <2>2, <2>3 DEF RefusedOnlyByTie
<1>11. AudioOk' = AudioOk
  BY <1>1 DEF AudioOk
<1>12. AudioOk => clip.has_audio
  BY DEF RefusedInv, CountKnown
<1> QED BY <1>1, <1>6, <1>7, <1>8, <1>9, <1>10, <1>11, <1>12 DEF CountKnown, Unmeasured

LEMMA SpatialKeepsCount ==
  ASSUME RefusedInv, MeasureSpatial
  PROVE  CountKnown'
<1>1. /\ pc = "spatial" /\ UNCHANGED << ranges, clip, chroma, temporal, audio >>
      /\ Advance("spatial", "motion")
  BY DEF MeasureSpatial, sampled
<1>2. \E s \in SpatialStatus : space' = Append(space, s)
  <2> DEFINE samples == load_decoded_jpegs(shot, "COMPOSITION")
  <2>1. PICK seen : space' = Append(space, AnalyzeSpatial([k \in 1..Len(samples) |-> seen[samples[k].frame]]).status)
    BY DEF MeasureSpatial
  <2> QED BY <2>1, SpatialStatusType
<1>3. chroma \in Seq(ChromaStatus) /\ space \in Seq(SpatialStatus) /\ Len(space) = shot - 1 /\ Len(chroma) = Len(ranges)
  BY <1>1 DEF RefusedInv, CountKnown
<1>4. shot \in Nat /\ shot <= Len(ranges) /\ Len(ranges) \in Nat
  BY <1>1 DEF RefusedInv, SeriesInv, ShotKnown, Measuring, Larger, VerdictInv, ShotInv, ShotType
<1>5. space' \in Seq(SpatialStatus) /\ Len(space') = shot
  BY <1>2, <1>3, <1>4
<1>6. \/ pc' = "spatial" /\ shot' = shot + 1
      \/ pc' = "motion" /\ shot' = 1 /\ shot = Len(ranges)
  BY <1>1, <1>4 DEF Advance
<1>7. AudioOk' = AudioOk
  BY <1>1 DEF AudioOk
<1>8. AudioOk => clip.has_audio
  BY DEF RefusedInv, CountKnown
<1> QED BY <1>1, <1>3, <1>4, <1>5, <1>6, <1>7, <1>8 DEF CountKnown, RefusedOnlyByTie, Unmeasured

LEMMA MotionKeepsCount ==
  ASSUME RefusedInv, MeasureMotion
  PROVE  CountKnown'
<1>1. /\ pc = "motion" /\ UNCHANGED << ranges, clip, chroma, space, audio >>
      /\ Advance("motion", "audio")
  BY DEF MeasureMotion, sampled
<1>2. \E b \in BOOLEAN : temporal' = Append(temporal, b)
  <2>1. \E unflagged : temporal' = Append(temporal, unflagged # {})
    BY DEF MeasureMotion
  <2> QED BY <2>1
<1>3. /\ chroma \in Seq(ChromaStatus) /\ space \in Seq(SpatialStatus)
      /\ Len(space) = Len(ranges) /\ Len(chroma) = Len(ranges)
  BY <1>1 DEF RefusedInv, CountKnown
<1>4. shot \in Nat /\ shot <= Len(ranges) /\ Len(ranges) \in Nat
  BY <1>1 DEF RefusedInv, SeriesInv, ShotKnown, Measuring, Larger, VerdictInv, ShotInv, ShotType
<1>5. temporal \in Seq(BOOLEAN) /\ shot = Len(temporal) + 1
  BY <1>1 DEF RefusedInv, VerdictInv, MotionKnown
<1>6. temporal' \in Seq(BOOLEAN) /\ Len(temporal') = shot
  BY <1>2, <1>5
<1>7. \/ pc' = "motion" /\ shot' = shot + 1
      \/ pc' = "audio" /\ shot' = 1 /\ shot = Len(ranges)
  BY <1>1, <1>4 DEF Advance
<1>8. AudioOk' = AudioOk
  BY <1>1 DEF AudioOk
<1>9. AudioOk => clip.has_audio
  BY DEF RefusedInv, CountKnown
<1> QED BY <1>1, <1>3, <1>4, <1>6, <1>7, <1>8, <1>9 DEF CountKnown, RefusedOnlyByTie, Unmeasured

\* The points pass the validator of Timeline, and the report that of AnalysisReport.
LEMMA TimelineKeepsCount ==
  ASSUME RefusedInv, BuildTimeline
  PROVE  CountKnown'
<1>1. /\ pc = "timeline" /\ UNCHANGED << ranges, clip, chroma, space, temporal, audio >>
      /\ timeline' = Built
      /\ pc' = IF points_are_strictly_increasing(timeline'.points) THEN "report" ELSE "refused"
  BY DEF BuildTimeline, sampled, Built
<1>2. ShotInv
  BY DEF RefusedInv, VerdictInv
<1>3. /\ Len(Built.points) = Hops
      /\ \A i, j \in 1..Hops : i < j => Built.points[i].at_ms < Built.points[j].at_ms
  BY <1>1, <1>2, BuiltPoints
<1>4. Hops \in Nat
  BY <1>1, <1>2, StartsAre
<1>5. points_are_strictly_increasing(timeline'.points)
  <2> DEFINE points == timeline'.points
  <2>1. Len(points) = Hops /\ \A i, j \in 1..Hops : i < j => points[i].at_ms < points[j].at_ms
    BY <1>1, <1>3
  <2> HIDE DEF points
  <2>2. \A i \in 1..(Len(points) - 1) : points[i].at_ms < points[i + 1].at_ms
    BY <1>4, <2>1
  <2> QED BY <2>2 DEF points_are_strictly_increasing, points
<1>6. pc' = "report"
  BY <1>1, <1>5
<1>7. AudioOk' = AudioOk
  BY <1>1 DEF AudioOk
<1> QED BY <1>1, <1>6, <1>7 DEF RefusedInv, CountKnown, RefusedOnlyByTie, Unmeasured

LEMMA ReportKeepsCount ==
  ASSUME RefusedInv, AssembleReport
  PROVE  CountKnown'
<1>1. /\ pc = "report" /\ UNCHANGED << ranges, clip, chroma, space, temporal, audio >>
      /\ report'.audio = IF AudioOk THEN "COMPLETE" ELSE "UNAVAILABLE"
      /\ pc' = IF /\ {Len(chroma), Len(space), Len(temporal)} = {Len(ranges)}
                  /\ clip.has_audio \/ report'.audio # "COMPLETE"
               THEN "aggregate" ELSE "refused"
  BY DEF AssembleReport, sampled
<1>2. Len(chroma) = Len(ranges) /\ Len(space) = Len(ranges) /\ Len(temporal) = Len(ranges)
  BY <1>1 DEF RefusedInv, CountKnown
<1>3. AudioOk => clip.has_audio
  BY DEF RefusedInv, CountKnown
<1>4. pc' = "aggregate"
  BY <1>1, <1>2, <1>3
<1>5. AudioOk' = AudioOk
  BY <1>1 DEF AudioOk
<1> QED BY <1>1, <1>4, <1>5 DEF RefusedInv, CountKnown, RefusedOnlyByTie, Unmeasured

LEMMA RestKeepsCount ==
  ASSUME RefusedInv,
         StartMeasuring \/ MeasureCancel \/ AnalyzeAudio \/ AudioStuck \/ Aggregate \/ GetTimeline
         \/ UNCHANGED vars
  PROVE  CountKnown'
<1>1. CASE StartMeasuring
  BY <1>1 DEF StartMeasuring, sampled, measureVars, RefusedInv, CountKnown, RefusedOnlyByTie, Unmeasured,
     AudioOk, SeriesInv, ShotKnown, BeforeMotion
<1>2. CASE MeasureCancel
  BY <1>2 DEF MeasureCancel, Cancel, measureVars, RefusedInv, CountKnown, RefusedOnlyByTie, Unmeasured, AudioOk
<1>3. CASE AnalyzeAudio
  <2>1. AudioOk' => clip'.has_audio
    BY <1>3 DEF AnalyzeAudio, AudioOk, NoAudioResult, sampled
  <2> QED BY <1>3, <2>1 DEF AnalyzeAudio, sampled, RefusedInv, CountKnown, RefusedOnlyByTie, Unmeasured
<1>4. CASE AudioStuck
  BY <1>4 DEF AudioStuck, sampled, measureVars, RefusedInv, CountKnown, RefusedOnlyByTie, Unmeasured, AudioOk
<1>5. CASE Aggregate
  BY <1>5 DEF Aggregate, sampled, RefusedInv, CountKnown, RefusedOnlyByTie, Unmeasured, AudioOk
<1>6. CASE GetTimeline
  BY <1>6 DEF GetTimeline, sampled, RefusedInv, CountKnown, RefusedOnlyByTie, Unmeasured, AudioOk
<1>7. CASE UNCHANGED vars
  BY <1>7 DEF vars, samplingVars, measureVars, RefusedInv, CountKnown, RefusedOnlyByTie, Unmeasured, AudioOk
<1> QED BY <1>1, <1>2, <1>3, <1>4, <1>5, <1>6, <1>7

\* Whatever the clip, the pictures, the persons, the flow and the sound, a validator of
\* the domain refuses what the stage hands to it in one case only: the last two of the
\* three or more swatches of a palette have the same number of pixels, where the order
\* hangs on the rounding of the last proportion (ChromaticValue, _palette).
THEOREM StagesPassTheValidators == Spec => []RefusedOnlyByTie
<1>1. Init => RefusedInv
  <2> SUFFICES ASSUME Init PROVE RefusedInv
    OBVIOUS
  <2>1. CountKnown
    BY DEF Init, SamplingInit, CountKnown, RefusedOnlyByTie, Unmeasured, AudioOk, NoAudioResult
  <2> QED BY <2>1, SeriesInvInit, VerdictInvInit DEF RefusedInv
<1>2. RefusedInv /\ [Next]_vars => RefusedInv'
  <2> SUFFICES ASSUME RefusedInv, [Next]_vars PROVE RefusedInv'
    OBVIOUS
  <2>1. SeriesInv' /\ VerdictInv'
    BY SeriesInvStep, VerdictInvStep DEF RefusedInv
  <2>2. CASE Sample
    BY <2>1, <2>2, SamplingKeepsCount DEF RefusedInv
  <2>3. CASE MeasureChromatic
    BY <2>1, <2>3, ChromaKeepsCount DEF RefusedInv
  <2>4. CASE MeasureSpatial
    BY <2>1, <2>4, SpatialKeepsCount DEF RefusedInv
  <2>5. CASE MeasureMotion
    BY <2>1, <2>5, MotionKeepsCount DEF RefusedInv
  <2>6. CASE BuildTimeline
    BY <2>1, <2>6, TimelineKeepsCount DEF RefusedInv
  <2>7. CASE AssembleReport
    BY <2>1, <2>7, ReportKeepsCount DEF RefusedInv
  <2>8. CASE StartMeasuring \/ MeasureCancel \/ AnalyzeAudio \/ AudioStuck \/ Aggregate \/ GetTimeline
             \/ UNCHANGED vars
    BY <2>1, <2>8, RestKeepsCount DEF RefusedInv
  <2>9. Ended => UNCHANGED vars
    BY DEF Ended
  <2> QED BY <2>2, <2>3, <2>4, <2>5, <2>6, <2>7, <2>8, <2>9 DEF Next
<1>3. RefusedInv => RefusedOnlyByTie
  BY DEF RefusedInv, CountKnown
<1> QED BY <1>1, <1>2, <1>3, PTL DEF Spec

-----------------------------------------------------------------------------
(* The tension and the peaks of a timeline.                                *)

Window == [flux : Nat, level : Int]

\* What has been heard are windows of a sound, or silence.
WindowsKnown == AudioOk => audio.windows \in Seq(Window)

LEMMA WindowType ==
  ASSUME NEW sound \in Sounds, NEW start \in Nat
  PROVE  window_features(sound, start) \in Window
<1> DEFINE n == Len(sound.windows)
           w == sound.windows
<1>1. w \in Seq(Window) /\ w # << >> /\ sound.length_ms \in Nat
  BY SoundsAssumption DEF Window
<1>2. n \in Nat /\ n > 0
  BY <1>1
<1>3. HopMs \in Nat \ {0}
  BY TensionAssumption
<1> DEFINE h == start \div HopMs
           k == (h % n) + 1
<1>4. h \in Nat
  BY <1>3
<1> HIDE DEF h, n
<1>5. k \in 1..n
  BY <1>2, <1>4
<1> HIDE DEF k
<1>6. w[k] \in Window
  <2> HIDE DEF w
  <2> QED BY <1>1, <1>5, RowValue DEF n, w
<1>7. [flux |-> 0, level |-> 0] \in Window
  BY DEF Window
<1>8. window_features(sound, start) = IF start >= sound.length_ms THEN [flux |-> 0, level |-> 0] ELSE w[k]
  BY Zenon DEF window_features, h, n, k
<1> HIDE DEF w
<1> QED BY <1>6, <1>7, <1>8

LEMMA AudioHeard ==
  ASSUME VerdictInv, AnalyzeAudio
  PROVE  WindowsKnown'
<1>1. CASE ~clip.has_audio
  BY <1>1 DEF AnalyzeAudio, NoAudioResult, WindowsKnown, AudioOk
<1>2. CASE audio' = [NoAudioResult EXCEPT !.status = "FAILED"]
  BY <1>2 DEF NoAudioResult, WindowsKnown, AudioOk
<1>3. CASE \E sound \in Sounds :
               LET starts == window_starts(total_ms(ranges)) IN
               audio' = [status |-> "OK",
                         windows |-> [i \in 1..Len(starts) |-> window_features(sound, starts[i])]]
  <2>1. PICK sound \in Sounds :
             audio' = [status |-> "OK",
                       windows |-> [i \in 1..Len(Starts) |-> window_features(sound, Starts[i])]]
    BY <1>3 DEF Starts
  <2>2. pc = "audio"
    BY DEF AnalyzeAudio
  <2>3. /\ Hops \in Nat /\ Starts = [k \in 1..Hops |-> (k - 1) * HopMs]
        /\ \A k \in 1..Hops : (k - 1) * HopMs \in Nat
    BY <2>2, StartsAre DEF VerdictInv, Starts
  <2> DEFINE n == Len(Starts)
             f == [i \in 1..n |-> window_features(sound, Starts[i])]
  <2>4. n = Hops
    BY <2>3
  <2>5. audio'.windows = f
    BY <2>1
  <2> HIDE DEF n
  <2>6. ASSUME NEW i \in 1..n PROVE window_features(sound, Starts[i]) \in Window
    <3>1. Starts[i] \in Nat
      BY <2>3, <2>4, <2>6
    <3> QED BY <3>1, WindowType
  <2>7. f \in Seq(Window)
    BY <2>3, <2>4, <2>6
  <2> QED BY <2>5, <2>7 DEF WindowsKnown
<1> QED BY <1>1, <1>2, <1>3 DEF AnalyzeAudio

LEMMA WindowsStep ==
  ASSUME VerdictInv, WindowsKnown, [Next]_vars
  PROVE  WindowsKnown'
<1>1. CASE AnalyzeAudio
  BY <1>1, AudioHeard
<1>2. CASE ~AnalyzeAudio
  <2>1. audio' = audio
    BY <1>2 DEF Next, vars, Sample, measureVars, StartMeasuring, MeasureChromatic, MeasureSpatial,
       MeasureMotion, MeasureCancel, AudioStuck, BuildTimeline, AssembleReport, Aggregate, GetTimeline, Ended
  <2> QED BY <2>1 DEF WindowsKnown, AudioOk
<1> QED BY <1>1, <1>2

Weights == effective_weights(AudioOk, MotionOk)

\* What is known of the activities and the tension of a point.
Weighed(p, w) ==
  /\ p.combined \in 0..Unit
  /\ Between(p.combined, p.cut, p.audio, p.motion, w)

LEMMA PointsAreWeighed ==
  ASSUME SeriesInv, VerdictInv, WindowsKnown, pc \notin {"detect", "cut", "failed", "canceled"},
         pc \in AfterTimeline \cup {"timeline", "refused"}, NEW i \in 1..Hops
  PROVE  Weighed(Built.points[i], Weights)
<1> DEFINE p == Built.points[i]
           raws == Raws(ranges, series, Hops)
           c == CutAt(ranges, i)
           a == AudioPart(audio.windows, AudioOk, Hops)[i]
           m == MotionPart(ranges, series, MotionOk, Hops)[i]
<1>1. Hops \in Nat /\ p = PointAt(ranges, series, audio.windows, AudioOk, MotionOk, Hops, i)
  BY PointsInShot
<1>2. p.cut = c /\ p.audio = a /\ p.motion = m /\ p.combined = combine_tension(c, a, m, Weights)
  BY <1>1 DEF PointAt, Weights
<1>3. c \in 0..Unit
  <2> DEFINE B == internal_boundary_ms(ranges)
             t == (i - 1) * HopMs
  <2>1. ranges \in Seq(TimeRangeMs)
    BY DEF VerdictInv, ShotInv, ShotType
  <2>2. B \in SUBSET Nat /\ IsFiniteSet(B)
    <3> DEFINE f == [k \in 1..Len(ranges) |-> ranges[k].start_ms]
    <3> DEFINE F == {f[k] : k \in 1..Len(ranges)}
    <3>1. B \subseteq F /\ f = [k \in 1..Len(ranges) |-> f[k]]
      BY DEF internal_boundary_ms
    <3>2. \A k \in 1..Len(ranges) : f[k] \in Nat
      BY <2>1, RangeType
    <3>3. IsFiniteSet(1..Len(ranges))
      BY <2>1, FS_Interval
    <3> HIDE DEF B, f
    <3>4. IsFiniteSet(F)
      BY <3>1, <3>3, ImageFinite
    <3>5. F \subseteq Nat
      BY <3>2
    <3> HIDE DEF F
    <3> QED BY <3>1, <3>4, <3>5, FS_Subset
  <2>3. t \in Nat
    BY <1>1, StartsAre DEF VerdictInv
  <2> HIDE DEF B, t
  <2>4. cut_activity(t, B) \in 0..Unit
    BY <2>2, <2>3, CutActivityType
  <2> QED BY Zenon, <2>4 DEF CutAt, t, B
<1>4. a \in 0..Unit
  <2>1. CASE AudioOk
    <3>1. Len(Starts) = Hops
      <4>1. window_starts(total_ms(ranges)) = [k \in 1..Hops |-> (k - 1) * HopMs]
        BY StartsAre DEF VerdictInv
      <4> QED BY <1>1, <4>1 DEF Starts
    <3>2. audio.windows \in Seq(Window) /\ Len(audio.windows) = Hops
      BY <2>1, <3>1 DEF WindowsKnown, VerdictInv, SoundKnown
    <3>3. AudioActivity(audio.windows)[i] \in 0..Unit
      BY <3>2, AudioActivityType DEF Window
    <3> QED BY Zenon, <2>1, <3>3 DEF AudioPart
  <2>2. CASE ~AudioOk
    <3>1. a = [k \in 1..Hops |-> 0][i]
      BY Zenon, <2>2 DEF AudioPart
    <3> QED BY <3>1 DEF Unit
  <2> QED BY <2>1, <2>2
<1>5. m \in 0..Unit
  <2>1. CASE MotionOk
    <3>1. ASSUME NEW k \in 1..Hops PROVE raws[k].global \in Int /\ raws[k].residual \in Int
      <4>1. raws[k] = RawAt(ranges, series, k)
        BY DEF Raws
      <4>2. /\ OfOwnShot(Built.points[k].raw, {q \in series : q.shot = Built.points[k].shot})
            /\ Built.points[k] = PointAt(ranges, series, audio.windows, AudioOk, MotionOk, Hops, k)
        BY PointsInShot
      <4>3. Built.points[k].raw = raws[k]
        BY <4>1, <4>2 DEF PointAt
      <4> QED BY <4>2, <4>3 DEF OfOwnShot
    <3>2. Len(raws) = Hops
      BY <1>1 DEF Raws
    <3> HIDE DEF raws
    <3>3. MotionActivity(raws)[i] \in 0..Unit
      BY <1>1, <3>1, <3>2, MotionActivityType
    <3> QED BY Zenon, <2>1, <3>3 DEF MotionPart, raws
  <2>2. CASE ~MotionOk
    <3>1. m = [k \in 1..Hops |-> 0][i]
      BY Zenon, <2>2 DEF MotionPart
    <3> QED BY <3>1 DEF Unit
  <2> QED BY <2>1, <2>2
<1>6. AudioOk \in BOOLEAN /\ MotionOk \in BOOLEAN
  BY DEF AudioOk, MotionOk
<1> HIDE DEF p, c, a, m
<1> DEFINE x == combine_tension(c, a, m, Weights)
<1>7. x \in 0..Unit /\ Between(x, c, a, m, Weights)
  BY <1>3, <1>4, <1>5, <1>6, CombinedBetween DEF Weights
<1> HIDE DEF x
<1>8. p.combined \in 0..Unit /\ Between(p.combined, p.cut, p.audio, p.motion, Weights)
  BY Zenon, <1>2, <1>7 DEF x
<1> QED BY Zenon, <1>8 DEF Weighed, p

\* The timeline that is kept is the built one, when there is one.
KeptTimeline ==
  \/ timeline = NoTimeline
  \/ timeline = Built /\ pc \in AfterTimeline \cup {"refused"}

LEMMA TimelineIsKept == TimelineInv => KeptTimeline
BY DEF TimelineInv, TimelineKnown, KeptTimeline

TensionInv == SeriesInv /\ TimelineInv /\ WindowsKnown

LEMMA TensionInvHolds == Spec => []TensionInv
<1>1. Init => TensionInv
  BY SeriesInvInit, TimelineInvInit DEF Init, TensionInv, WindowsKnown, AudioOk, NoAudioResult
<1>2. TensionInv /\ [Next]_vars => TensionInv'
  BY SeriesInvStep, TimelineInvStep, WindowsStep DEF TensionInv, TimelineInv
<1> QED BY <1>1, <1>2, PTL DEF Spec

\* Whatever was measured and heard, a timeline with points has a peak, no peak lies below
\* a neighbour, and a highest point is a peak, unless one of the highest rises above its
\* left neighbour by less than math.isclose tells apart (_peaks).
THEOREM PeaksAreHighest == Spec => []PeaksHaveHighest
<1>1. TensionInv => PeaksHaveHighest
  <2> SUFFICES ASSUME TensionInv, timeline.points # << >> PROVE PeaksHaveHighest
    BY DEF PeaksHaveHighest
  <2> DEFINE points == timeline.points
  <2>1. timeline = Built /\ pc \in AfterTimeline \cup {"refused"}
    BY TimelineIsKept DEF TensionInv, KeptTimeline, NoTimeline
  <2>2. pc \notin {"detect", "cut", "failed", "canceled"}
    BY <2>1 DEF AfterTimeline
  <2>3. Len(points) = Hops /\ Hops \in Nat /\ Hops >= 1
    BY <2>1, <2>2, BuiltPoints, StartsAre DEF TensionInv, TimelineInv, VerdictInv
  <2>4. ASSUME NEW i \in 1..Hops PROVE points[i].combined \in Nat
    <3>1. Weighed(Built.points[i], Weights)
      BY <2>1, <2>2, PointsAreWeighed DEF TensionInv, TimelineInv
    <3>2. points = Built.points
      BY <2>1
    <3> HIDE DEF points
    <3>3. points[i].combined \in 0..Unit
      BY Zenon, <3>1, <3>2 DEF Weighed
    <3> DEFINE c == points[i].combined
    <3> HIDE DEF c
    <3>4. c \in 0..Unit
      BY Zenon, <3>3 DEF c
    <3>5. c \in Nat
      BY <3>4 DEF Unit
    <3> QED BY Zenon, <3>5 DEF c
  <2>5. points # << >>
    OBVIOUS
  <2> HIDE DEF points
  <2>6. PeaksAreHigh(points)
    BY <2>3, <2>4, <2>5, HighestIsPeak
  <2> QED BY Zenon, <2>6 DEF PeaksAreHigh, PeaksHaveHighest, Highest, points
<1> QED BY <1>1, TensionInvHolds, PTL

\* Whatever is available, what weighs in the tension is what the report calls so, and
\* the tension of a point lies between its components.
THEOREM TensionIsOfTheAvailable == Spec => []TensionFromAvailable
<1>1. TensionInv => TensionFromAvailable
  <2> SUFFICES ASSUME TensionInv, report # NoReport PROVE TensionFromAvailable
    BY DEF TensionFromAvailable
  <2>1. /\ pc \in {"aggregate", "done", "served", "refused"}
        /\ timeline = Built
        /\ report.audio = IF AudioOk THEN "COMPLETE" ELSE "UNAVAILABLE"
        /\ report.motion = availability(temporal)
    BY DEF TensionInv, TimelineInv, ReadKnown
  <2>2. pc \notin {"detect", "cut", "failed", "canceled"} /\ pc \in AfterTimeline \cup {"timeline", "refused"}
    BY <2>1 DEF AfterTimeline
  <2>3. AudioOk \in BOOLEAN /\ MotionOk \in BOOLEAN
    BY DEF AudioOk, MotionOk
  <2> DEFINE w == timeline.weights
  <2>4. w = Weights
    <3>1. Built.weights = Weights
      BY DEF Built, build_timeline, Weights
    <3> QED BY Zenon, <2>1, <3>1
  <2>5. (w.audio > 0) = (report.audio = "COMPLETE" /\ TensionWeights.audio > 0)
    <3>1. (w.audio > 0) = (AudioOk /\ TensionWeights.audio > 0)
      BY <2>3, <2>4, WeightsType DEF Weights
    <3> QED BY <2>1, <3>1
  <2>6. (w.motion > 0) = (report.motion # "UNAVAILABLE" /\ TensionWeights.motion > 0)
    <3>1. (w.motion > 0) = (MotionOk /\ TensionWeights.motion > 0)
      BY <2>3, <2>4, WeightsType DEF Weights
    <3>2. (report.motion # "UNAVAILABLE") = MotionOk
      <4>1. temporal \in Seq(BOOLEAN)
        BY DEF TensionInv, TimelineInv, VerdictInv, MotionKnown
      <4>2. CASE MotionOk
        <5>1. temporal # << >> /\ ~\A i \in 1..Len(temporal) : ~temporal[i]
          BY <4>1, <4>2 DEF MotionOk
        <5>2. availability(temporal) \in {"COMPLETE", "PARTIAL"}
          BY <5>1 DEF availability
        <5> QED BY <2>1, <2>3, <4>2, <5>2
      <4>3. CASE ~MotionOk
        <5>1. \A i \in 1..Len(temporal) : ~temporal[i]
          BY <4>3 DEF MotionOk
        <5>2. availability(temporal) = "UNAVAILABLE"
          BY <5>1 DEF availability
        <5> QED BY <2>1, <2>3, <4>3, <5>2
      <4> QED BY <4>2, <4>3
    <3> QED BY <3>1, <3>2
  <2>7. Len(timeline.points) = Hops
    BY <2>1, <2>2, BuiltPoints DEF TensionInv, TimelineInv, VerdictInv
  <2>8. ASSUME NEW i \in 1..Hops
        PROVE  Between(timeline.points[i].combined, timeline.points[i].cut,
                       timeline.points[i].audio, timeline.points[i].motion, w)
    <3>1. Weighed(Built.points[i], Weights)
      BY <2>2, PointsAreWeighed DEF TensionInv, TimelineInv
    <3> QED BY Zenon, <2>1, <2>4, <3>1 DEF Weighed
  <2> QED BY Zenon, <2>5, <2>6, <2>7, <2>8 DEF TensionFromAvailable, Between
<1> QED BY <1>1, TensionInvHolds, PTL

-----------------------------------------------------------------------------
(* A track goes on from box to box.                                        *)

\* What TracksContinuous and TracksNotSplit say of the measurement of one shot.
Continues(measured, samples) ==
  /\ GoesOn(measured.observed) /\ NotSplit(measured.observed)
  /\ measured.primary # 0 =>
       100 * Cardinality(FramesOf(measured.observed, measured.primary)) >= MinTrackCoverage * samples

LEMMA SpatialContinues ==
  ASSUME NEW hits, Len(hits) \in Nat,
         \A k \in 1..Len(hits) : hits[k] \in Seq(DetectionHit)
  PROVE  Continues(AnalyzeSpatial(hits), Len(hits))
<1> DEFINE n == Len(hits)
           seen == track(hits)
           primary == select(seen, n)
<1>1. ASSUME NEW status PROVE Continues(NoSpatial(status), n)
  <2>1. NoSpatial(status).observed = {} /\ NoSpatial(status).primary = 0
    BY DEF NoSpatial
  <2> QED BY <2>1 DEF Continues, GoesOn, NotSplit
<1>2. SeenInShot(seen, n)
  BY TracksFollowed
<1> HIDE DEF seen
<1>3. GoesOn(seen) /\ NotSplit(seen)
  BY <1>2 DEF SeenInShot
<1>4. primary = 0 \/ primary \in Stable(seen, n)
  BY <1>2, SelectIsStable
<1>5. /\ Measured(seen, n).observed = seen
      /\ Measured(seen, n).primary = primary
  <2>1. Measured(seen, n) =
          IF primary = 0 THEN [NoSpatial("NO_SUBJECT") EXCEPT !.observed = seen]
          ELSE [status |-> "OK", primary |-> primary, observed |-> seen,
                framing |-> estimate_framing(Members(seen, primary))]
    BY Zenon DEF Measured, Subject
  <2>2. /\ [NoSpatial("NO_SUBJECT") EXCEPT !.observed = seen].observed = seen
        /\ [NoSpatial("NO_SUBJECT") EXCEPT !.observed = seen].primary = 0
    BY DEF NoSpatial
  <2> HIDE DEF primary
  <2> QED BY <2>1, <2>2
<1>6. ASSUME primary # 0
      PROVE  100 * Cardinality(FramesOf(seen, primary)) >= MinTrackCoverage * n
  BY <1>4, <1>6 DEF Stable
<1> HIDE DEF primary, n
<1>7. Continues(Measured(seen, n), n)
  BY Zenon, <1>3, <1>5, <1>6 DEF Continues
<1> QED BY Zenon, <1>1, <1>7 DEF AnalyzeSpatial, seen, n

LEMMA SpatialKeepsTracks ==
  ASSUME ManifestInv, MeasureSpatial
  PROVE  TracksContinuous' /\ TracksNotSplit'
<1> DEFINE samples == load_decoded_jpegs(shot, "COMPOSITION")
           n == Len(samples)
<1>1. PICK seen \in [FramesIn(samples) -> Detections] :
        detail' = [of |-> "spatial",
                   measured |-> AnalyzeSpatial([k \in 1..n |-> seen[samples[k].frame]]),
                   samples |-> Len([k \in 1..n |-> seen[samples[k].frame]])]
  BY Zenon DEF MeasureSpatial
<1> DEFINE hits == [k \in 1..n |-> seen[samples[k].frame]]
<1>2. n \in Nat
  BY SamplesAreOrdered DEF SamplesInOrder
<1> HIDE DEF samples
<1>3. \A k \in 1..n : seen[samples[k].frame] \in Detections
  BY <1>1 DEF FramesIn
<1> HIDE DEF n
<1>4. hits \in Seq(Detections) /\ Len(hits) = n
  BY <1>2, <1>3
<1>5. \A k \in 1..Len(hits) : hits[k] \in Seq(DetectionHit)
  BY <1>3, <1>4, DetectionsAssumption
<1>6. detail' = [of |-> "spatial", measured |-> AnalyzeSpatial(hits), samples |-> Len(hits)]
  BY Zenon, <1>1
<1> HIDE DEF hits
<1>7. Continues(AnalyzeSpatial(hits), Len(hits))
  BY <1>2, <1>4, <1>5, SpatialContinues
<1> DEFINE measured == AnalyzeSpatial(hits)
<1> HIDE DEF measured
<1>8. detail'.of = "spatial" /\ detail'.measured = measured /\ detail'.samples = Len(hits)
  BY <1>6 DEF measured
<1>9. Continues(detail'.measured, detail'.samples)
  BY Zenon, <1>7, <1>8 DEF measured
<1>10. TracksContinuous'
  BY Zenon, <1>9 DEF TracksContinuous, Continues, GoesOn
<1>11. TracksNotSplit'
  BY Zenon, <1>9 DEF TracksNotSplit, Continues, NotSplit
<1> QED BY <1>10, <1>11

TracksInv == ManifestInv /\ TracksContinuous /\ TracksNotSplit

LEMMA TracksInvHolds == Spec => []TracksInv
<1>1. Init => TracksInv
  <2> SUFFICES ASSUME Init PROVE TracksInv
    OBVIOUS
  <2>1. detail.of = "none"
    BY DEF Init, NoDetail
  <2> QED BY <2>1, ManifestInvInit DEF TracksInv, TracksContinuous, TracksNotSplit
<1>2. TracksInv /\ [Next]_vars => TracksInv'
  <2> SUFFICES ASSUME TracksInv, [Next]_vars PROVE TracksInv'
    OBVIOUS
  <2>1. ManifestInv /\ ManifestInv'
    BY ManifestInvStep DEF TracksInv
  <2>2. CASE MeasureSpatial
    BY <2>1, <2>2, SpatialKeepsTracks DEF TracksInv
  <2>3. CASE MeasureChromatic
    <3>1. detail'.of = "chromatic"
      BY <2>3 DEF MeasureChromatic
    <3> QED BY <2>1, <3>1 DEF TracksInv, TracksContinuous, TracksNotSplit
  <2>4. CASE MeasureMotion
    <3>1. detail'.of = "none"
      BY <2>4 DEF MeasureMotion, NoDetail
    <3> QED BY <2>1, <3>1 DEF TracksInv, TracksContinuous, TracksNotSplit
  <2>5. CASE ~MeasureSpatial /\ ~MeasureChromatic /\ ~MeasureMotion
    <3>1. detail' = detail
      BY <2>5 DEF Next, vars, Sample, measureVars, StartMeasuring, MeasureCancel, AnalyzeAudio,
         AudioStuck, BuildTimeline, AssembleReport, Aggregate, GetTimeline, Ended
    <3> QED BY Zenon, <2>1, <3>1 DEF TracksInv, TracksContinuous, TracksNotSplit
  <2> QED BY <2>2, <2>3, <2>4, <2>5
<1> QED BY <1>1, <1>2, PTL DEF Spec

\* Whatever the detector finds, a track of a shot has one box in a sample, each
\* overlaps the one before it enough, the primary track is seen often enough, and a
\* hit opens a track only if it overlaps too little with every track that has no
\* hit in its sample (IoUSubjectTracker.track).
THEOREM TracksFollowOne == Spec => []TracksFollow
<1>1. TracksInv => TracksFollow
  BY DEF TracksInv, TracksFollow
<1> QED BY <1>1, TracksInvHolds, PTL

=============================================================================
