-------------------------------- MODULE Shots --------------------------------
(***************************************************************************)
(* The intervals of application/shots.py: a sequence of half-open ranges   *)
(* of integer milliseconds, and the merge of the ones that are too short;  *)
(* and what domain/shots.py accepts as the shots of a clip.                *)
(***************************************************************************)
EXTENDS Integers, Sequences

TimeRangeMs == [start_ms : Nat, end_ms : Nat]

duration_ms(r) == r.end_ms - r.start_ms

\* The end of what has been covered so far.
Edge(ranges) == IF ranges = << >> THEN 0 ELSE ranges[Len(ranges)].end_ms

\* The interval from the last edge to a position.
AddRange(ranges, position) ==
  Append(ranges, [start_ms |-> Edge(ranges), end_ms |-> position])

\* _internal_positions: a detected position counts when it lies inside the clip.
IsInternal(position, duration) == 0 < position /\ position < duration

Short(ranges, min) == {i \in 1..Len(ranges) : duration_ms(ranges[i]) < min}

\* The loop goes on while some interval is short and there is a neighbour.
NeedsMerge(ranges, min) == Len(ranges) > 1 /\ Short(ranges, min) # {}

FirstShort(ranges, min) ==
  CHOOSE i \in Short(ranges, min) : \A j \in Short(ranges, min) : i <= j

\* Intervals k and k + 1 become one.
Join(ranges, k) ==
  [i \in 1..(Len(ranges) - 1) |->
     IF i < k THEN ranges[i]
     ELSE IF i = k THEN [start_ms |-> ranges[k].start_ms, end_ms |-> ranges[k + 1].end_ms]
     ELSE ranges[i + 1]]

\* Deviation: a short interval at the end is dropped.
MergeDropsLast(ranges, min) ==
  LET i == FirstShort(ranges, min) IN
  IF i < Len(ranges) THEN Join(ranges, i) ELSE SubSeq(ranges, 1, Len(ranges) - 1)

\* One round of merge_short_ranges: the first short interval joins the one after
\* it, the last one the one before it.
MergeShort(ranges, min) ==
  LET i == FirstShort(ranges, min) IN
  Join(ranges, IF i < Len(ranges) THEN i ELSE i - 1)

\* Half-open membership: a boundary belongs to the shot that it opens.
Within(t, r) == r.start_ms <= t /\ t < r.end_ms

\* shot_index_at: the last shot when the instant lies in none.
shot_index_at(t, ranges) ==
  IF \E i \in 1..Len(ranges) : Within(t, ranges[i])
  THEN CHOOSE i \in 1..Len(ranges) :
         Within(t, ranges[i]) /\ \A j \in 1..(i - 1) : ~Within(t, ranges[j])
  ELSE Len(ranges)

\* internal_boundary_ms: the starts of the shots but the clip's own.
internal_boundary_ms(ranges) == {ranges[i].start_ms : i \in 1..Len(ranges)} \ {0}

\* The validators of TimeRangeMs and ShotSet, and the length of the covering.
end_follows_start(r) == r.start_ms >= 0 /\ r.end_ms > r.start_ms

shots_are_contiguous(ranges) ==
  /\ ranges # << >>
  /\ \A i \in 1..Len(ranges) : end_follows_start(ranges[i])
  /\ \A i \in 1..(Len(ranges) - 1) : ranges[i].end_ms = ranges[i + 1].start_ms

total_ms(ranges) == ranges[Len(ranges)].end_ms - ranges[1].start_ms

=============================================================================
