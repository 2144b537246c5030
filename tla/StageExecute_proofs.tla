------------------------ MODULE StageExecute_proofs ------------------------
(***************************************************************************)
(* Proofs about StageExecute, for every set of workers, every lease        *)
(* length, every attempt cap and every bound: the types, and the rows.     *)
(***************************************************************************)
EXTENDS StageExecute, SequenceTheorems, TLAPS

-----------------------------------------------------------------------------
(* How a transaction changes the rows, and a step its worker's frame.      *)

\* One row is rewritten: the other rows and the numbers of attempts stand.
LEMMA RowWritten ==
  ASSUME runs \in [StageName -> Seq(StageRunRow)],
         NEW s \in StageName, NEW i \in 1..Len(runs[s]), NEW row \in StageRunRow,
         runs' = WithRow(s, i, row)
  PROVE  /\ runs' \in [StageName -> Seq(StageRunRow)]
         /\ \A t \in StageName : Len(runs'[t]) = Len(runs[t])
         /\ runs'[s][i] = row
         /\ \A t \in StageName : \A j \in 1..Len(runs[t]) :
              t # s \/ j # i => runs'[t][j] = runs[t][j]
  <1>1. runs[s] \in Seq(StageRunRow)
    OBVIOUS
  <1>2. /\ [runs[s] EXCEPT ![i] = row] \in Seq(StageRunRow)
        /\ Len([runs[s] EXCEPT ![i] = row]) = Len(runs[s])
        /\ \A j \in 1..Len(runs[s]) :
             [runs[s] EXCEPT ![i] = row][j] = IF j = i THEN row ELSE runs[s][j]
    BY <1>1, ExceptSeq
  <1>3. /\ runs'[s] = [runs[s] EXCEPT ![i] = row]
        /\ \A t \in StageName : t # s => runs'[t] = runs[t]
        /\ runs' \in [StageName -> Seq(StageRunRow)]
    BY <1>1, <1>2 DEF WithRow
  <1>4. runs'[s][i] = row
    BY <1>2, <1>3
  <1>5. ASSUME NEW t \in StageName
        PROVE  /\ Len(runs'[t]) = Len(runs[t])
               /\ \A j \in 1..Len(runs[t]) :
                    t # s \/ j # i => runs'[t][j] = runs[t][j]
    <2>1. CASE t # s
      <3>1. runs'[t] = runs[t]
        BY <1>3, <2>1, Zenon
      <3> QED
        BY <3>1, Zenon
    <2>2. CASE t = s
      <3>1. runs'[t] = [runs[s] EXCEPT ![i] = row]
        BY <1>3, <2>2, Zenon
      <3>2. Len(runs'[t]) = Len(runs[t])
        BY <1>2, <2>2, <3>1, Zenon
      <3>3. ASSUME NEW j \in 1..Len(runs[t]), j # i
            PROVE  runs'[t][j] = runs[t][j]
        <4>1. j \in 1..Len(runs[s])
          BY <2>2, Zenon
        <4>2. [runs[s] EXCEPT ![i] = row][j] = runs[s][j]
          BY <1>2, <3>3, <4>1, Zenon
        <4> QED
          BY <2>2, <3>1, <4>2, Zenon
      <3> QED
        BY <2>2, <3>2, <3>3, Zenon
    <2> QED
      BY <2>1, <2>2, Zenon
  <1> QED
    BY <1>3, <1>4, <1>5, Zenon

\* One PENDING row is appended: the earlier rows and the other stages stand.
LEMMA RowAppended ==
  ASSUME runs \in [StageName -> Seq(StageRunRow)],
         NEW s \in StageName, runs' = [runs EXCEPT ![s] = Append(@, PendingRow)]
  PROVE  /\ runs' \in [StageName -> Seq(StageRunRow)]
         /\ Len(runs'[s]) = Len(runs[s]) + 1
         /\ \A t \in StageName : t # s => runs'[t] = runs[t]
         /\ runs'[s][Len(runs[s]) + 1] = PendingRow
         /\ \A t \in StageName : \A j \in 1..Len(runs[t]) : runs'[t][j] = runs[t][j]
  <1>1. runs[s] \in Seq(StageRunRow) /\ PendingRow \in StageRunRow
    BY DEF PendingRow, StageRunRow, NoToken, StageState
  <1>2. /\ Append(runs[s], PendingRow) \in Seq(StageRunRow)
        /\ Len(Append(runs[s], PendingRow)) = Len(runs[s]) + 1
        /\ Append(runs[s], PendingRow)[Len(runs[s]) + 1] = PendingRow
        /\ \A j \in 1..Len(runs[s]) : Append(runs[s], PendingRow)[j] = runs[s][j]
    BY <1>1
  <1>3. runs'[s] = Append(runs[s], PendingRow)
    BY Zenon
  <1>4. \A t \in StageName : t # s => runs'[t] = runs[t]
    BY Zenon
  <1>5. runs' \in [StageName -> Seq(StageRunRow)]
    BY <1>2
  <1>6. ASSUME NEW t \in StageName, NEW j \in 1..Len(runs[t])
        PROVE  runs'[t][j] = runs[t][j]
    <2>1. CASE t # s
      BY <1>4, <2>1, Zenon
    <2>2. CASE t = s
      BY <1>2, <1>3, <2>2, Zenon
    <2> QED
      BY <2>1, <2>2, Zenon
  <1> QED
    BY <1>2, <1>3, <1>4, <1>5, <1>6, Zenon

\* A control step moves one worker.
LEMMA WorkerMoved ==
  ASSUME pc \in [Worker -> Pc], local \in [Worker -> Frame],
         NEW w \in Worker, NEW label \in Pc, NEW frame \in Frame,
         Step(w, label, frame)
  PROVE  /\ pc' \in [Worker -> Pc]
         /\ local' \in [Worker -> Frame]
         /\ pc'[w] = label
         /\ local'[w] = frame
         /\ \A v \in Worker : v # w => pc'[v] = pc[v] /\ local'[v] = local[v]
  BY DEF Step
-----------------------------------------------------------------------------
(* Type correctness needs what a worker's frame refers to: a known stage,  *)
(* an existing attempt, existing attempts on the list of honor_cancel.     *)

StagePc == {"check", "look", "acquire"} \cup BusyPc

FrameRefersOK(label, frame, table) ==
  /\ label \in StagePc => frame.stage \in StageName
  /\ label \in BusyPc => frame.attempt \in 1..Len(table[frame.stage])
  /\ label = "hc_cancel" =>
       \A p \in frame.todo : p[1] \in StageName /\ p[2] \in 1..Len(table[p[1]])

FramesOK == \A w \in Worker : FrameRefersOK(pc[w], local[w], runs)

TypeInv == TypeOK /\ FramesOK

\* The rows keep their type and no attempt disappears.
RunsGrow ==
  /\ runs' \in [StageName -> Seq(StageRunRow)]
  /\ \A t \in StageName : Len(runs'[t]) >= Len(runs[t])

LEMMA LenNat ==
  ASSUME TypeInv, NEW s \in StageName
  PROVE  runs[s] \in Seq(StageRunRow) /\ Len(runs[s]) \in Nat
  BY DEF TypeInv, TypeOK

\* Rows that stay as they are grow.
LEMMA RunsSame ==
  ASSUME TypeInv, runs' = runs
  PROVE  RunsGrow
  BY LenNat DEF RunsGrow, TypeInv, TypeOK

LEMMA RunsWritten ==
  ASSUME TypeInv, NEW s \in StageName, NEW i \in 1..Len(runs[s]), NEW row \in StageRunRow,
         runs' = WithRow(s, i, row)
  PROVE  RunsGrow
  BY RowWritten, LenNat DEF RunsGrow, TypeInv, TypeOK

LEMMA RunsAppended ==
  ASSUME TypeInv, NEW s \in StageName, runs' = [runs EXCEPT ![s] = Append(@, PendingRow)]
  PROVE  RunsGrow
  <1>1. /\ runs' \in [StageName -> Seq(StageRunRow)]
        /\ Len(runs'[s]) = Len(runs[s]) + 1
        /\ \A t \in StageName : t # s => runs'[t] = runs[t]
    BY RowAppended DEF TypeInv, TypeOK
  <1> QED
    BY <1>1, LenNat DEF RunsGrow

\* A step of one worker whose new frame refers to existing rows keeps the
\* frames of all.
LEMMA FramesKept ==
  ASSUME TypeInv, RunsGrow, NEW w \in Worker, NEW label \in Pc, NEW frame \in Frame,
         Step(w, label, frame), FrameRefersOK(label, frame, runs')
  PROVE  /\ pc' \in [Worker -> Pc]
         /\ local' \in [Worker -> Frame]
         /\ FramesOK'
  <1>1. /\ pc' \in [Worker -> Pc]
        /\ local' \in [Worker -> Frame]
        /\ pc'[w] = label /\ local'[w] = frame
        /\ \A v \in Worker : v # w => pc'[v] = pc[v] /\ local'[v] = local[v]
    BY WorkerMoved DEF TypeInv, TypeOK
  <1>2. ASSUME NEW v \in Worker PROVE FrameRefersOK(pc'[v], local'[v], runs')
    <2>1. CASE v = w
      BY <2>1, <1>1
    <2>2. CASE v # w
      <3>1. FrameRefersOK(pc[v], local[v], runs) /\ pc'[v] = pc[v] /\ local'[v] = local[v]
        BY <2>2, <1>1 DEF TypeInv, FramesOK
      <3>2. pc[v] \in BusyPc => pc[v] \in StagePc
        BY DEF StagePc
      <3>3. pc[v] \in BusyPc => local[v].attempt \in 1..Len(runs'[local[v].stage])
        BY <3>1, <3>2, LenNat DEF FrameRefersOK, RunsGrow
      <3>4. pc[v] = "hc_cancel" =>
              \A p \in local[v].todo : p[1] \in StageName /\ p[2] \in 1..Len(runs'[p[1]])
        BY <3>1, LenNat DEF FrameRefersOK, RunsGrow
      <3> QED
        BY <3>1, <3>3, <3>4 DEF FrameRefersOK
    <2> QED
      BY <2>1, <2>2
  <1> QED
    BY <1>1, <1>2 DEF FramesOK

\* The row a busy worker leased exists.
LEMMA LeaseExists ==
  ASSUME TypeInv, NEW w \in Worker, pc[w] \in BusyPc
  PROVE  /\ local[w].stage \in StageName
         /\ local[w].attempt \in 1..Len(runs[local[w].stage])
         /\ LeasedBy(w) = runs[local[w].stage][local[w].attempt]
         /\ LeasedBy(w) \in StageRunRow
         /\ local[w] \in Frame
  <1>1. FrameRefersOK(pc[w], local[w], runs) /\ pc[w] \in StagePc
    BY DEF TypeInv, FramesOK, StagePc
  <1>2. local[w].stage \in StageName /\ local[w].attempt \in 1..Len(runs[local[w].stage])
    BY <1>1 DEF FrameRefersOK
  <1>3. local[w] \in Frame
    BY DEF TypeInv, TypeOK
  <1> QED
    BY <1>2, <1>3, LenNat, ElementOfSeq DEF LeasedBy

-----------------------------------------------------------------------------
(* The type invariant is preserved by every step.                          *)

\* The program counters, listed: a fact to cite where a label is at stake.
LEMMA Labels ==
  /\ Pc = {"idle", "refused", "fail_job", "done", "claimed", "check", "look", "acquire",
           "start", "work", "settle", "heartbeat", "complete", "fail",
           "retry_read", "retry_insert", "hc_list", "hc_cancel"}
  /\ StagePc = {"check", "look", "acquire", "start", "work", "settle", "heartbeat",
                "complete", "fail", "retry_read", "retry_insert"}
  /\ BusyPc = {"start", "work", "settle", "heartbeat", "complete", "fail",
               "retry_read", "retry_insert"}
  BY DEF Pc, StagePc, PreparePc, BusyPc, HoldPc, RetryPc, HonorPc

LEMMA NoFrameType ==
  /\ NoFrame \in Frame
  /\ \A t \in Nat : [NoFrame EXCEPT !.moment = t] \in Frame
  /\ \A t \in Nat : \A s \in StageName : [NoFrame EXCEPT !.stage = s, !.moment = t] \in Frame
  /\ \A o \in Outcome : [NoFrame EXCEPT !.outcome = o] \in Frame
  /\ \A l \in SUBSET (StageName \X Nat) : [NoFrame EXCEPT !.todo = l] \in Frame
  BY DEF NoFrame, Frame, NoToken, Outcome

LEMMA SetAnalysisStateType ==
  ASSUME NEW current \in AnalysisState, NEW expected, NEW target \in AnalysisState
  PROVE  SetAnalysisState(current, expected, target) \in AnalysisState
  BY DEF SetAnalysisState

USE DEF tables, env

\* What is left to check of a worker's step once its label, frame and rows are.
LEMMA TypeKept ==
  ASSUME TypeInv, RunsGrow, NEW w \in Worker, NEW label \in Pc, NEW frame \in Frame,
         Step(w, label, frame), FrameRefersOK(label, frame, runs'),
         analysis' \in AnalysisState, output' \in [StageName -> Nat], issued' \in Nat,
         faults' \in Nat, UNCHANGED << clock, seen, cancels >>
  PROVE  TypeInv'
  BY FramesKept DEF TypeInv, TypeOK, RunsGrow

\* A step to a label at which the frame refers to nothing.
LEMMA TypeKeptFree ==
  ASSUME TypeInv, RunsGrow, NEW w \in Worker, NEW frame \in Frame,
         NEW label \in Pc \ (StagePc \cup {"hc_cancel"}), Step(w, label, frame),
         analysis' \in AnalysisState, output' = output, issued' = issued,
         faults' \in Nat, UNCHANGED << clock, seen, cancels >>
  PROVE  TypeInv'
  <1>1. FrameRefersOK(label, frame, runs')
    BY Labels DEF FrameRefersOK
  <1> QED
    BY <1>1, TypeKept DEF TypeInv, TypeOK

\* The call returns.
LEMMA TypeFinish ==
  ASSUME TypeInv, RunsGrow, NEW w \in Worker, NEW o \in Outcome, Finish(w, o),
         analysis' \in AnalysisState, output' = output, issued' = issued,
         faults' \in Nat, UNCHANGED << clock, seen, cancels >>
  PROVE  TypeInv'
  BY NoFrameType, TypeKeptFree, Labels DEF Finish

LEMMA TypeHonor ==
  ASSUME TypeInv, RunsGrow, NEW w \in Worker, Honor(w),
         analysis' \in AnalysisState, output' = output, issued' = issued,
         faults' \in Nat, UNCHANGED << clock, seen, cancels >>
  PROVE  TypeInv'
  BY NoFrameType, TypeKeptFree, Labels DEF Honor

\* The worker moves on with its frame, which refers to the same rows.
LEMMA TypeMoves ==
  ASSUME TypeInv, RunsGrow, NEW w \in Worker, pc[w] \in StagePc, NEW label \in Pc \ {"hc_cancel"},
         label \in BusyPc => pc[w] \in BusyPc, NEW frame \in Frame, Step(w, label, frame),
         frame.stage = local[w].stage, frame.attempt = local[w].attempt,
         analysis' \in AnalysisState, output' \in [StageName -> Nat], issued' = issued,
         faults' \in Nat, UNCHANGED << clock, seen, cancels >>
  PROVE  TypeInv'
  <1>1. FrameRefersOK(pc[w], local[w], runs)
    BY DEF TypeInv, FramesOK
  <1>2. FrameRefersOK(label, frame, runs')
    BY <1>1, LenNat DEF FrameRefersOK, RunsGrow
  <1> QED
    BY <1>2, TypeKept DEF TypeInv, TypeOK

\* The steps of the callers.
LEMMA TypeCallers ==
  ASSUME TypeInv, NEW w \in Worker,
         ClaimQueued(w) \/ CallHonor(w) \/ Proceed(w) \/ FailAnalysis(w) \/ Return(w)
  PROVE  TypeInv'
  <1>0. RunsGrow
    BY RunsSame DEF ClaimQueued, CallHonor, Proceed, FailAnalysis, Return
  <1> DEFINE f == [NoFrame EXCEPT !.moment = clock]
  <1>1. f \in Frame /\ NoFrame \in Frame
    BY NoFrameType DEF TypeInv, TypeOK
  <1>2. CASE ClaimQueued(w)
    <2>1. analysis' \in AnalysisState
      BY <1>2 DEF ClaimQueued, TypeInv, TypeOK, AnalysisState
    <2>2. Honor(w) \/ Step(w, "claimed", f)
      BY <1>2 DEF ClaimQueued
    <2>3. output' = output /\ issued' = issued /\ faults' \in Nat /\ UNCHANGED << clock, seen, cancels >>
      BY <1>2 DEF ClaimQueued, TypeInv, TypeOK
    <2> QED
      BY <1>0, <1>1, <2>1, <2>2, <2>3, TypeHonor, TypeKeptFree, Labels
  <1>3. CASE CallHonor(w)
    BY <1>0, <1>3, TypeHonor DEF CallHonor, TypeInv, TypeOK
  <1>4. CASE Proceed(w)
    BY <1>0, <1>1, <1>4, TypeKeptFree, Labels DEF Proceed, TypeInv, TypeOK
  <1>5. CASE FailAnalysis(w)
    <2>1. analysis' \in AnalysisState
      BY <1>5, SetAnalysisStateType DEF FailAnalysis, TypeInv, TypeOK, AnalysisState
    <2> QED
      BY <1>0, <1>1, <1>5, <2>1, TypeKeptFree, Labels DEF FailAnalysis, TypeInv, TypeOK
  <1>6. CASE Return(w)
    BY <1>0, <1>1, <1>6, TypeKeptFree, Labels DEF Return, TypeInv, TypeOK
  <1> QED
    BY <1>2, <1>3, <1>4, <1>5, <1>6

\* A call of run_leased_stage.
LEMMA TypeCall ==
  ASSUME TypeInv, NEW w \in Worker, NEW s \in Stages, Call(w, s)
  PROVE  TypeInv'
  <1> DEFINE t == IF pc[w] = "claimed" THEN local[w].moment ELSE clock
  <1> DEFINE f == [NoFrame EXCEPT !.stage = s, !.moment = t]
  <1>1. s \in StageName /\ t \in Nat
    BY StagesAssumption DEF TypeInv, TypeOK, Frame
  <1>2. f \in Frame /\ "check" \in Pc /\ f.stage = s
    BY <1>1, NoFrameType, Labels DEF NoFrame
  <1>3. FrameRefersOK("check", f, runs')
    BY <1>1, <1>2, Labels DEF FrameRefersOK
  <1>4. Step(w, "check", f) /\ RunsGrow
    BY RunsSame DEF Call
  <1> QED
    BY <1>2, <1>3, <1>4, TypeKept DEF Call, TypeInv, TypeOK

\* run_leased_stage up to the lease, where it gets none.
LEMMA TypePrepare ==
  ASSUME TypeInv, NEW w \in Worker, Check(w) \/ Look(w) \/ AcquireNone(w) \/ Refuse(w)
  PROVE  TypeInv'
  <1>0. RunsGrow
    BY RunsSame DEF Check, Look, AcquireNone, Refuse
  <1>1. local[w] \in Frame /\ NoFrame \in Frame
    BY NoFrameType DEF TypeInv, TypeOK
  <1>2. CASE Check(w)
    <2>1. Honor(w) \/ Step(w, "look", local[w])
      BY <1>2 DEF Check, Goto
    <2> QED
      BY <1>0, <1>1, <1>2, <2>1, TypeHonor, TypeMoves, Labels DEF Check, TypeInv, TypeOK
  <1>3. CASE Look(w)
    <2>1. Finish(w, "SKIPPED") \/ Step(w, "acquire", local[w])
      BY <1>3 DEF Look, Goto
    <2> QED
      BY <1>0, <1>1, <1>3, <2>1, TypeFinish, TypeMoves, Labels DEF Look, Outcome, TypeInv, TypeOK
  <1>4. CASE AcquireNone(w)
    BY <1>0, <1>1, <1>4, TypeKeptFree, Labels DEF AcquireNone, TypeInv, TypeOK
  <1>5. CASE Refuse(w)
    <2>1. analysis' \in AnalysisState
      BY SMTT(30), <1>5, SetAnalysisStateType DEF Refuse, TypeInv, TypeOK, AnalysisState
    <2> QED
      BY <1>0, <1>5, <2>1, TypeFinish DEF Refuse, Outcome, TypeInv, TypeOK
  <1> QED
    BY <1>2, <1>3, <1>4, <1>5

\* The lease.
LEMMA TypeAcquire ==
  ASSUME TypeInv, NEW w \in Worker, Acquire(w)
  PROVE  TypeInv'
  <1> DEFINE s == local[w].stage
             t == local[w].moment + TTL
             row == LeasedRow(issued + 1, t)
  <1>1. s \in StageName /\ t \in Nat /\ issued + 1 \in Nat /\ local[w] \in Frame
    <2>1. FrameRefersOK(pc[w], local[w], runs) /\ pc[w] = "acquire"
      BY DEF Acquire, TypeInv, FramesOK
    <2> QED
      BY <2>1, Labels, BoundsAssumption DEF FrameRefersOK, TypeInv, TypeOK, Frame
  <1>2. PICK i \in 1..Len(runs[s]) :
          /\ runs' = WithRow(s, i, row)
          /\ Step(w, "start", [local[w] EXCEPT !.attempt = i, !.token = issued + 1, !.expires = t])
    BY DEF Acquire
  <1> DEFINE f == [local[w] EXCEPT !.attempt = i, !.token = issued + 1, !.expires = t]
  <1>3. row \in StageRunRow
    BY <1>1 DEF LeasedRow, StageRunRow, StageState
  <1>4. RunsGrow
    BY <1>1, <1>2, <1>3, RunsWritten
  <1>5. i \in Nat
    BY <1>1, LenNat
  <1>6. f \in Frame /\ f.stage = s /\ f.attempt = i
    BY <1>1, <1>5 DEF Frame
  <1>7. FrameRefersOK("start", f, runs')
    BY <1>1, <1>4, <1>5, <1>6, LenNat, Labels DEF FrameRefersOK, RunsGrow
  <1> QED
    BY <1>1, <1>2, <1>4, <1>6, <1>7, TypeKept, Labels DEF Acquire, TypeInv, TypeOK

\* A compare-and-set of the row a busy worker leased, that does nothing if it fails.
LEMMA LeaseRewritten ==
  ASSUME TypeInv, NEW w \in Worker, pc[w] \in BusyPc, NEW row \in StageRunRow,
         runs' = runs \/ runs' = WithRow(local[w].stage, local[w].attempt, row)
  PROVE  RunsGrow
  BY LeaseExists, RunsSame, RunsWritten

\* The rows that start_stage, heartbeat_stage, complete_stage and fail_stage leave.
LEMMA RowTypes ==
  ASSUME NEW row \in StageRunRow
  PROVE  /\ [row EXCEPT !.state = "RUNNING"] \in StageRunRow
         /\ \A t \in Nat : [row EXCEPT !.expires = t] \in StageRunRow
         /\ [row EXCEPT !.state = "SUCCEEDED", !.token = NoToken] \in StageRunRow
         /\ \A s \in StageState : [row EXCEPT !.state = s, !.token = NoToken] \in StageRunRow
         /\ CanceledRow(row) \in StageRunRow
  BY DEF StageRunRow, StageState, NoToken, CanceledRow

LEMMA TypeStart ==
  ASSUME TypeInv, NEW w \in Worker, StartStage(w)
  PROVE  TypeInv'
  <1>1. pc[w] \in BusyPc /\ pc[w] \in StagePc
    BY SMTT(30), Labels DEF StartStage
  <1>2. RunsGrow
    BY <1>1, LeaseExists, LeaseRewritten, RowTypes DEF StartStage
  <1>3. Step(w, "work", local[w]) \/ Finish(w, "LEASE_LOST")
    BY DEF StartStage, Goto
  <1>4. local[w] \in Frame /\ "LEASE_LOST" \in Outcome
    BY DEF TypeInv, TypeOK, Outcome
  <1> QED
    BY <1>1, <1>2, <1>3, <1>4, TypeMoves, TypeFinish, Labels DEF StartStage, TypeInv, TypeOK

\* What the work of a stage writes belongs to a stage.
LEMMA WritesType ==
  ASSUME NEW s \in StageName, NEW n \in 1..Len(Writes(s))
  PROVE  Writes(s)[n] \in StageName /\ n \in Nat
  BY DEF Writes, StageName

\* The work of a stage, and how it ends.
LEMMA TypeWork ==
  ASSUME TypeInv, NEW w \in Worker,
         WriteOutput(w) \/ WorkDone(w) \/ WorkFails(w) \/ WorkCanceled(w)
  PROVE  TypeInv'
  <1>0. RunsGrow
    BY RunsSame DEF WriteOutput, WorkDone, WorkFails, WorkCanceled
  <1>1. pc[w] \in BusyPc /\ pc[w] \in StagePc
    BY Labels DEF WriteOutput, WorkDone, WorkFails, WorkCanceled
  <1>2. local[w] \in Frame /\ local[w].stage \in StageName /\ local[w].token \in Nat
    BY <1>1, LeaseExists DEF Frame
  <1>3. CASE WriteOutput(w)
    <2> DEFINE n == local[w].written + 1
               f == [local[w] EXCEPT !.written = n]
    <2>1. /\ n \in 1..Len(Writes(local[w].stage))
          /\ output' = [output EXCEPT ![Writes(local[w].stage)[n]] = local[w].token]
          /\ Step(w, "work", f)
      BY <1>3 DEF WriteOutput
    <2>2. Writes(local[w].stage)[n] \in StageName /\ n \in Nat
      BY <1>2, <2>1, WritesType
    <2>3. f \in Frame /\ f.stage = local[w].stage /\ f.attempt = local[w].attempt
      BY <1>2, <2>2 DEF Frame
    <2>4. output' \in [StageName -> Nat]
      BY <1>2, <2>1, <2>2 DEF TypeInv, TypeOK
    <2> QED
      BY <1>0, <1>1, <1>3, <2>1, <2>3, <2>4, TypeMoves, Labels DEF WriteOutput, TypeInv, TypeOK
  <1>4. CASE WorkDone(w)
    <2> DEFINE f == [local[w] EXCEPT !.written = 0]
    <2>1. f \in Frame /\ f.stage = local[w].stage /\ f.attempt = local[w].attempt
      BY <1>2 DEF Frame
    <2> QED
      BY <1>0, <1>1, <1>4, <2>1, TypeMoves, Labels DEF WorkDone, TypeInv, TypeOK
  <1>5. CASE WorkFails(w)
    <2> PICK e \in {"retryable", "terminal"} :
          Step(w, "fail", [local[w] EXCEPT !.error = e, !.written = 0])
      BY <1>5 DEF WorkFails
    <2> DEFINE f == [local[w] EXCEPT !.error = e, !.written = 0]
    <2>1. f \in Frame /\ f.stage = local[w].stage /\ f.attempt = local[w].attempt
      BY <1>2 DEF Frame
    <2> QED
      BY <1>0, <1>1, <1>5, <2>1, TypeMoves, Labels DEF WorkFails, TypeInv, TypeOK
  <1>6. CASE WorkCanceled(w)
    BY <1>0, <1>6, TypeHonor DEF WorkCanceled, TypeInv, TypeOK
  <1> QED
    BY <1>3, <1>4, <1>5, <1>6

\* Aggregate work.
LEMMA TypeAggregate ==
  ASSUME TypeInv, NEW w \in Worker, Decide(w) \/ Unreadable(w) \/ Settle(w)
  PROVE  TypeInv'
  <1>0. RunsGrow
    BY RunsSame DEF Decide, Unreadable, Settle
  <1>1. pc[w] \in BusyPc /\ pc[w] \in StagePc
    BY Labels DEF Decide, Unreadable, Settle
  <1>2. local[w] \in Frame
    BY <1>1, LeaseExists
  <1>3. CASE Decide(w) \/ Unreadable(w)
    <2>1. PICK v \in {"FAILED", "SUCCEEDED", "PARTIAL"} :
            Step(w, "settle", [local[w] EXCEPT !.verdict = v])
      BY <1>3 DEF Decide, Unreadable, Outcomes
    <2> DEFINE f == [local[w] EXCEPT !.verdict = v]
    <2>2. f \in Frame /\ f.stage = local[w].stage /\ f.attempt = local[w].attempt
      BY <1>2 DEF Frame
    <2>3. /\ analysis' \in AnalysisState /\ output' \in [StageName -> Nat] /\ issued' = issued
          /\ faults' \in Nat /\ UNCHANGED << clock, seen, cancels >>
      BY <1>3 DEF Decide, Unreadable, TypeInv, TypeOK
    <2> QED
      BY <1>0, <1>1, <2>1, <2>2, <2>3, TypeMoves, Labels
  <1>4. CASE Settle(w)
    <2>1. analysis' \in AnalysisState
      <3>1. local[w].verdict \in {"none", "SUCCEEDED", "PARTIAL", "FAILED"}
        BY <1>2 DEF Frame
      <3>2. transition_analysis("RUNNING", local[w].verdict) => local[w].verdict \in AnalysisState
        BY <3>1 DEF transition_analysis, ANALYSIS_TRANSITIONS, AnalysisState
      <3> QED
        BY <1>4, <3>2 DEF Settle, SetAnalysisState, TypeInv, TypeOK
    <2> QED
      BY <1>0, <1>1, <1>2, <1>4, <2>1, TypeMoves, Labels DEF Settle, Goto, TypeInv, TypeOK
  <1> QED
    BY <1>3, <1>4

\* After the work: the heartbeat and the completion.
LEMMA TypeComplete ==
  ASSUME TypeInv, NEW w \in Worker, Heartbeat(w) \/ Complete(w)
  PROVE  TypeInv'
  <1>1. pc[w] \in BusyPc /\ pc[w] \in StagePc
    BY Labels DEF Heartbeat, Complete
  <1>2. local[w] \in Frame /\ clock + TTL \in Nat
    BY SMTT(30), <1>1, LeaseExists, BoundsAssumption DEF TypeInv, TypeOK
  <1>3. RunsGrow
    BY <1>1, <1>2, LeaseExists, LeaseRewritten, RowTypes DEF Heartbeat, Complete
  <1>4. CASE Heartbeat(w)
    <2> DEFINE f == [local[w] EXCEPT !.expires = clock + TTL]
    <2>1. f \in Frame /\ f.stage = local[w].stage /\ f.attempt = local[w].attempt
      BY <1>2 DEF Frame
    <2>2. Step(w, "complete", f) \/ Step(w, "complete", local[w])
      BY <1>4 DEF Heartbeat, Goto
    <2> QED
      BY <1>1, <1>2, <1>3, <1>4, <2>1, <2>2, TypeMoves, Labels DEF Heartbeat, TypeInv, TypeOK
  <1>5. CASE Complete(w)
    <2>1. PICK o \in Outcome : Finish(w, o)
      BY <1>5 DEF Complete, Outcome
    <2> QED
      BY <1>3, <1>5, <2>1, TypeFinish DEF Complete, TypeInv, TypeOK
  <1> QED
    BY <1>4, <1>5

\* A failure and the retry it may allocate.
LEMMA TypeFail ==
  ASSUME TypeInv, NEW w \in Worker, Fail(w) \/ RetryRead(w) \/ RetryInsert(w) \/ FailJob(w)
  PROVE  TypeInv'
  <1>1. local[w] \in Frame /\ NoFrame \in Frame /\ "ERROR" \in Outcome /\ "RAISED" \in Outcome
    BY NoFrameType DEF TypeInv, TypeOK, Outcome
  <1>2. CASE Fail(w)
    <2>1. pc[w] \in BusyPc /\ pc[w] \in StagePc
      BY <1>2, Labels DEF Fail
    <2>2. RunsGrow
      BY Zenon, <1>2, <2>1, LeaseExists, LeaseRewritten, RowTypes DEF Fail, StageState
    <2>3. \/ Step(w, "retry_read", local[w]) \/ Step(w, "fail_job", NoFrame)
          \/ Finish(w, "ERROR")
      BY <1>2 DEF Fail, Goto
    <2> QED
      BY <1>1, <1>2, <2>1, <2>2, <2>3, TypeMoves, TypeKeptFree, TypeFinish, Labels
         DEF Fail, TypeInv, TypeOK
  <1>3. CASE RetryRead(w)
    <2> DEFINE f == [local[w] EXCEPT !.next = Len(runs[local[w].stage]) + 1]
    <2>1. pc[w] \in BusyPc /\ pc[w] \in StagePc
      BY <1>3, Labels DEF RetryRead
    <2>a. Len(runs[local[w].stage]) + 1 \in Nat
      BY <2>1, LeaseExists, LenNat
    <2>2. f \in Frame /\ f.stage = local[w].stage /\ f.attempt = local[w].attempt
      BY <1>1, <2>a DEF Frame
    <2>3. RunsGrow
      BY <1>3, RunsSame DEF RetryRead
    <2> QED
      BY <1>3, <2>1, <2>2, <2>3, TypeMoves, Labels DEF RetryRead, TypeInv, TypeOK
  <1>4. CASE RetryInsert(w)
    <2>1. local[w].stage \in StageName
      BY <1>4, LeaseExists, Labels DEF RetryInsert
    <2>2. RunsGrow
      BY <1>4, <2>1, RunsSame, RunsAppended DEF RetryInsert
    <2>3. Finish(w, "ERROR") \/ Finish(w, "RAISED")
      BY <1>4 DEF RetryInsert
    <2> QED
      BY <1>1, <1>4, <2>2, <2>3, TypeFinish DEF RetryInsert, TypeInv, TypeOK
  <1>5. CASE FailJob(w)
    <2>1. analysis' \in AnalysisState /\ RunsGrow
      BY <1>5, SetAnalysisStateType, RunsSame DEF FailJob, TypeInv, TypeOK, AnalysisState
    <2> QED
      BY <1>1, <1>5, <2>1, TypeFinish DEF FailJob, TypeInv, TypeOK
  <1> QED
    BY <1>2, <1>3, <1>4, <1>5

\* honor_cancel.
LEMMA TypeHonorCancel ==
  ASSUME TypeInv, NEW w \in Worker, HonorList(w) \/ HonorCancel(w) \/ HonorFinish(w)
  PROVE  TypeInv'
  <1>1. CASE HonorList(w)
    <2> DEFINE l == UNION {{<< s, i >> : i \in {j \in 1..Len(runs[s]) : Cancelable(runs[s][j])}}
                             : s \in StageName}
               f == [NoFrame EXCEPT !.todo = l]
    <2>1. \A p \in l : p[1] \in StageName /\ p[2] \in 1..Len(runs[p[1]])
      OBVIOUS
    <2>2. l \in SUBSET (StageName \X Nat)
      BY LenNat
    <2>3. f \in Frame /\ f.todo = l
      BY <2>2, NoFrameType DEF NoFrame
    <2>4. RunsGrow /\ runs' = runs /\ Step(w, "hc_cancel", f)
      BY <1>1, RunsSame DEF HonorList
    <2>5. FrameRefersOK("hc_cancel", f, runs')
      BY SMTT(30), <2>1, <2>3, <2>4, Labels DEF FrameRefersOK
    <2> QED
      BY <1>1, <2>3, <2>4, <2>5, TypeKept, Labels DEF HonorList, TypeInv, TypeOK
  <1>2. CASE HonorCancel(w)
    <2>1. PICK p \in local[w].todo :
            /\ runs' = runs \/ runs' = WithRow(p[1], p[2], CanceledRow(runs[p[1]][p[2]]))
            /\ Step(w, "hc_cancel", [local[w] EXCEPT !.todo = @ \ {p}])
      BY <1>2 DEF HonorCancel
    <2> DEFINE f == [local[w] EXCEPT !.todo = @ \ {p}]
    <2>2. /\ \A q \in local[w].todo : q[1] \in StageName /\ q[2] \in 1..Len(runs[q[1]])
          /\ local[w] \in Frame
      BY <1>2 DEF HonorCancel, TypeInv, TypeOK, FramesOK, FrameRefersOK
    <2>3. f \in Frame /\ f.todo \subseteq local[w].todo
      BY <2>2 DEF Frame
    <2>4. CanceledRow(runs[p[1]][p[2]]) \in StageRunRow
      BY <2>2, LenNat, ElementOfSeq, RowTypes
    <2>5. RunsGrow
      BY <2>1, <2>2, <2>4, RunsSame, RunsWritten
    <2>6. FrameRefersOK("hc_cancel", f, runs')
      <3>1. \A q \in f.todo : q[1] \in StageName /\ q[2] \in 1..Len(runs'[q[1]])
        <4> TAKE q \in f.todo
        <4>1. q[1] \in StageName /\ q[2] \in 1..Len(runs[q[1]])
          BY <2>2, <2>3
        <4>2. Len(runs[q[1]]) \in Nat /\ Len(runs'[q[1]]) >= Len(runs[q[1]])
          BY <4>1, <2>5, LenNat DEF RunsGrow
        <4>3. Len(runs'[q[1]]) \in Nat
          BY <4>1, <2>5 DEF RunsGrow
        <4> QED
          BY <4>1, <4>2, <4>3
      <3> QED
        BY <3>1, Labels DEF FrameRefersOK
    <2> QED
      BY Zenon, <1>2, <2>1, <2>3, <2>5, <2>6, TypeKept, Labels DEF HonorCancel, TypeInv, TypeOK
  <1>3. CASE HonorFinish(w)
    <2>1. analysis' \in AnalysisState /\ RunsGrow
      BY ZenonT(40), <1>3, SetAnalysisStateType, RunsSame DEF HonorFinish, TypeInv, TypeOK, AnalysisState
    <2> QED
      BY <1>3, <2>1, TypeFinish DEF HonorFinish, Outcome, TypeInv, TypeOK
  <1> QED
    BY <1>1, <1>2, <1>3

\* A worker's death and a database error.
LEMMA TypeFault ==
  ASSUME TypeInv, NEW w \in Worker, Crash(w) \/ Raise(w)
  PROVE  TypeInv'
  <1>1. RunsGrow
    BY RunsSame DEF Crash, Raise
  <1>2. /\ analysis' \in AnalysisState /\ output' = output /\ issued' = issued
        /\ faults' \in Nat /\ UNCHANGED << clock, seen, cancels >>
    BY DEF Crash, Raise, TypeInv, TypeOK
  <1>3. Step(w, "idle", NoFrame) \/ Finish(w, "RAISED")
    BY DEF Crash, Raise
  <1> QED
    BY <1>1, <1>2, <1>3, NoFrameType, TypeKeptFree, TypeFinish, Labels DEF Outcome

\* Rows that no worker's step touches: the claims and cancels of others, and time.
LEMMA TypeEnvironment ==
  ASSUME TypeInv, StartAnalysis \/ CancelRead \/ CancelWrite \/ Tick
  PROVE  TypeInv'
  <1>1. UNCHANGED << runs, pc, local, output, issued >>
    BY DEF StartAnalysis, CancelRead, CancelWrite, Tick
  <1>2. FramesOK'
    BY <1>1 DEF FramesOK, TypeInv
  <1>3. analysis' \in AnalysisState
    BY DEF StartAnalysis, CancelRead, CancelWrite, Tick, CancelTarget, TypeInv, TypeOK, AnalysisState
  <1>4. clock' \in Nat /\ seen' \in AnalysisState \cup {"none"} /\ cancels' \in Nat /\ faults' \in Nat
    BY DEF StartAnalysis, CancelRead, CancelWrite, Tick, TypeInv, TypeOK
  <1> QED
    BY <1>1, <1>2, <1>3, <1>4 DEF TypeInv, TypeOK

LEMMA TypeInit == Init => TypeInv
  <1> SUFFICES ASSUME Init PROVE TypeInv
    OBVIOUS
  <1>1. << PendingRow >> \in Seq(StageRunRow)
    BY DEF PendingRow, StageRunRow, NoToken, StageState
  <1>2. TypeOK
    BY <1>1, NoFrameType, Labels DEF Init, TypeOK, AnalysisState, NoToken
  <1>3. FramesOK
    BY Labels DEF Init, FramesOK, FrameRefersOK
  <1> QED
    BY <1>2, <1>3 DEF TypeInv

LEMMA TypeNext == TypeInv /\ [Next]_vars => TypeInv'
  <1> SUFFICES ASSUME TypeInv, [Next]_vars PROVE TypeInv'
    OBVIOUS
  <1>1. CASE UNCHANGED vars
    BY <1>1 DEF vars, TypeInv, TypeOK, FramesOK
  <1>2. CASE StartAnalysis \/ CancelRead \/ CancelWrite \/ Tick
    BY <1>2, TypeEnvironment
  <1>3. ASSUME NEW w \in Worker, WorkerStep(w) PROVE TypeInv'
    BY <1>3, TypeCallers, TypeCall, TypePrepare, TypeAcquire, TypeStart, TypeWork, TypeAggregate,
       TypeComplete, TypeFail, TypeHonorCancel DEF WorkerStep
  <1>4. ASSUME NEW w \in Worker, Fault(w) PROVE TypeInv'
    BY <1>4, TypeFault, TypeAggregate DEF Fault
  <1> QED
    BY <1>1, <1>2, <1>3, <1>4 DEF Next

\* The invariant as one formula: every worker's frame refers to rows that exist.
THEOREM TypeInvariance == Spec => []TypeInv
  BY TypeInit, TypeNext, PTL DEF Spec

\* Every variable keeps its type in every reachable state.
THEOREM TypeCorrect == Spec => []TypeOK
  <1>1. TypeInv => TypeOK
    BY DEF TypeInv
  <1> QED
    BY <1>1, TypeInvariance, PTL

-----------------------------------------------------------------------------
(* The attempt rows: every step rewrites one open attempt or opens the     *)
(* next one.  One success per stage and the write-once ledger of           *)
(* StageLedger follow from that alone, whatever the workers remember.      *)

\* Attempt i of stage s is open, and row may replace it.
MayReplace(s, i, row) ==
  /\ ~stage_is_terminal(runs[s][i].state)
  /\ row.state = "SUCCEEDED" => ~IndexRefuses(runs[s], i)
  /\ row.state # "SKIPPED"

Rewrites ==
  \E s \in StageName : \E i \in 1..Len(runs[s]) : \E row \in StageRunRow :
    runs' = WithRow(s, i, row) /\ MayReplace(s, i, row)

Opens == \E s \in StageName : runs' = [runs EXCEPT ![s] = Append(@, PendingRow)]

LEMMA OpenStates ==
  ASSUME NEW s \in StageState
  PROVE  stage_is_terminal(s) <=> s \notin {"PENDING", "LEASED", "RUNNING"}
  <1>1. STAGE_TRANSITIONS[s] =
          CASE s = "PENDING" -> {"LEASED", "SKIPPED", "CANCELED"}
            [] s = "LEASED"  -> {"RUNNING", "CANCELED", "PENDING"}
            [] s = "RUNNING" -> {"SUCCEEDED", "FAILED_RETRYABLE", "FAILED_TERMINAL", "CANCELED"}
            [] OTHER         -> {}
    BY DEF STAGE_TRANSITIONS
  <1> QED
    BY <1>1 DEF stage_is_terminal, StageState

\* The statements that rewrite a row: each WHERE clause asks for an open attempt.
LEMMA RowStatements ==
  ASSUME TypeInv, NEW w \in Worker,
         Acquire(w) \/ StartStage(w) \/ Heartbeat(w) \/ Complete(w) \/ Fail(w)
  PROVE  runs' = runs \/ Rewrites
  <1> DEFINE s == local[w].stage
             i == local[w].attempt
  <1>1. CASE Acquire(w)
    <2> DEFINE row == LeasedRow(issued + 1, local[w].moment + TTL)
    <2>1. s \in StageName /\ row \in StageRunRow
      <3>1. s \in StageName /\ issued + 1 \in Nat /\ local[w].moment + TTL \in Nat
        <4>1. FrameRefersOK(pc[w], local[w], runs) /\ pc[w] = "acquire"
          BY ZenonT(40), <1>1 DEF Acquire, TypeInv, FramesOK
        <4> QED
          BY SMTT(30), <4>1, Labels, BoundsAssumption DEF FrameRefersOK, TypeInv, TypeOK, Frame
      <3> QED
        BY <3>1 DEF LeasedRow, StageRunRow, StageState
    <2>2. PICK j \in 1..Len(runs[s]) :
            IsCandidate(runs[s], j, local[w].moment) /\ runs' = WithRow(s, j, row)
      BY <1>1 DEF Acquire
    <2>3. runs[s][j] \in StageRunRow
      BY <2>1, LenNat, ElementOfSeq
    <2>4. MayReplace(s, j, row)
      BY <2>2, <2>3, OpenStates
         DEF IsCandidate, Claimable, ActiveState, MayReplace, LeasedRow, StageRunRow
    <2> QED
      BY <2>1, <2>2, <2>4 DEF Rewrites
  <1>2. ASSUME NEW row \in StageRunRow, pc[w] \in BusyPc, runs' = WithRow(s, i, row),
               LeasedBy(w).state \in {"LEASED", "RUNNING"},
               row.state = "SUCCEEDED" => ~IndexRefuses(runs[s], i), row.state # "SKIPPED"
        PROVE  Rewrites
    <2>1. s \in StageName /\ i \in 1..Len(runs[s]) /\ LeasedBy(w) = runs[s][i]
          /\ runs[s][i] \in StageRunRow
      BY <1>2, LeaseExists
    <2>2. MayReplace(s, i, row)
      BY SMTT(30), <1>2, <2>1, OpenStates DEF MayReplace, StageRunRow
    <2> QED
      BY <1>2, <2>1, <2>2 DEF Rewrites
  <1>3. CASE StartStage(w)
    <2>1. pc[w] \in BusyPc /\ LeasedBy(w) \in StageRunRow
      BY <1>3, LeaseExists, Labels DEF StartStage
    <2> DEFINE row == [LeasedBy(w) EXCEPT !.state = "RUNNING"]
    <2>2. row \in StageRunRow /\ row.state = "RUNNING"
      BY <2>1, RowTypes DEF StageRunRow
    <2>3. runs' = runs \/ (runs' = WithRow(s, i, row) /\ LeasedBy(w).state = "LEASED")
      BY <1>3 DEF StartStage, HoldsRow
    <2> QED
      BY <1>2, <2>1, <2>2, <2>3
  <1>4. CASE Heartbeat(w)
    <2>1. pc[w] \in BusyPc /\ LeasedBy(w) \in StageRunRow /\ clock + TTL \in Nat
      BY <1>4, LeaseExists, Labels, BoundsAssumption DEF Heartbeat, TypeInv, TypeOK
    <2> DEFINE row == [LeasedBy(w) EXCEPT !.expires = clock + TTL]
    <2>2. row \in StageRunRow /\ row.state = LeasedBy(w).state
      BY <2>1, RowTypes DEF StageRunRow
    <2>3. \/ runs' = runs
          \/ runs' = WithRow(s, i, row) /\ LeasedBy(w).state \in {"LEASED", "RUNNING"}
      BY <1>4 DEF Heartbeat, MayExtend, ActiveState
    <2> QED
      BY <1>2, <2>1, <2>2, <2>3
  <1>5. CASE Complete(w)
    <2>1. pc[w] \in BusyPc /\ LeasedBy(w) \in StageRunRow
      BY <1>5, LeaseExists, Labels DEF Complete
    <2> DEFINE row == [LeasedBy(w) EXCEPT !.state = "SUCCEEDED", !.token = NoToken]
    <2>2. row \in StageRunRow /\ row.state = "SUCCEEDED"
      BY <2>1, RowTypes DEF StageRunRow
    <2>3. \/ runs' = runs
          \/ /\ runs' = WithRow(s, i, row) /\ LeasedBy(w).state = "RUNNING"
             /\ ~IndexRefuses(runs[s], i)
      BY <1>5 DEF Complete, HoldsRow
    <2> QED
      BY <1>2, <2>1, <2>2, <2>3
  <1>6. CASE Fail(w)
    <2>1. pc[w] \in BusyPc /\ LeasedBy(w) \in StageRunRow
      BY <1>6, LeaseExists, Labels DEF Fail
    <2> DEFINE end == IF IsFinal(w) THEN "FAILED_TERMINAL" ELSE "FAILED_RETRYABLE"
               row == [LeasedBy(w) EXCEPT !.state = end, !.token = NoToken]
    <2>2. row \in StageRunRow /\ row.state \notin {"SUCCEEDED", "SKIPPED"}
      <3>1. end \in StageState /\ end \notin {"SUCCEEDED", "SKIPPED"}
        BY DEF StageState
      <3> HIDE DEF end
      <3> QED
        BY <2>1, <3>1, RowTypes DEF StageRunRow
    <2>3. runs' = runs \/ (runs' = WithRow(s, i, row) /\ LeasedBy(w).state = "RUNNING")
      BY <1>6 DEF Fail, HoldsRow
    <2> QED
      BY <1>2, <2>1, <2>2, <2>3
  <1> QED
    BY <1>1, <1>3, <1>4, <1>5, <1>6

\* The same for cancel_stage.
LEMMA CancelStatement ==
  ASSUME TypeInv, NEW w \in Worker, HonorCancel(w)
  PROVE  runs' = runs \/ Rewrites
  <1>1. PICK p \in local[w].todo :
          \/ runs' = runs
          \/ /\ Cancelable(runs[p[1]][p[2]])
             /\ runs' = WithRow(p[1], p[2], CanceledRow(runs[p[1]][p[2]]))
    BY DEF HonorCancel
  <1>2. p[1] \in StageName /\ p[2] \in 1..Len(runs[p[1]])
    BY DEF HonorCancel, TypeInv, FramesOK, FrameRefersOK
  <1>3. runs[p[1]][p[2]] \in StageRunRow
    BY <1>2, LenNat, ElementOfSeq
  <1>4. CanceledRow(runs[p[1]][p[2]]) \in StageRunRow
    BY <1>3, RowTypes
  <1>5. Cancelable(runs[p[1]][p[2]]) =>
          MayReplace(p[1], p[2], CanceledRow(runs[p[1]][p[2]]))
    BY <1>3, OpenStates DEF Cancelable, MayReplace, CanceledRow, StageRunRow
  <1> QED
    BY <1>1, <1>2, <1>4, <1>5 DEF Rewrites

\* Every step of the system leaves the rows alone, rewrites an open attempt or
\* opens the next one.
LEMMA RowSteps ==
  ASSUME TypeInv, [Next]_vars
  PROVE  runs' = runs \/ Rewrites \/ Opens
  <1>1. CASE UNCHANGED vars
    BY <1>1 DEF vars
  <1>2. CASE StartAnalysis \/ CancelRead \/ CancelWrite \/ Tick
    BY <1>2 DEF StartAnalysis, CancelRead, CancelWrite, Tick
  <1>3. ASSUME NEW w \in Worker, Fault(w) PROVE runs' = runs
    BY <1>3 DEF Fault, Crash, Raise, Unreadable
  <1>4. ASSUME NEW w \in Worker, WorkerStep(w) PROVE runs' = runs \/ Rewrites \/ Opens
    <2>1. CASE Acquire(w) \/ StartStage(w) \/ Heartbeat(w) \/ Complete(w) \/ Fail(w)
      BY <2>1, RowStatements
    <2>2. CASE HonorCancel(w)
      BY <2>2, CancelStatement
    <2>3. CASE RetryInsert(w)
      BY <2>3, LeaseExists, Labels DEF RetryInsert, Opens
    <2>4. CASE \/ ClaimQueued(w) \/ CallHonor(w) \/ Proceed(w) \/ FailAnalysis(w) \/ Return(w)
               \/ \E s \in Stages : Call(w, s)
      BY <2>4 DEF ClaimQueued, CallHonor, Proceed, FailAnalysis, Return, Call
    <2>5. CASE \/ Check(w) \/ Look(w) \/ AcquireNone(w) \/ Refuse(w) \/ WriteOutput(w)
               \/ WorkDone(w) \/ WorkFails(w) \/ WorkCanceled(w) \/ Decide(w) \/ Settle(w)
      BY <2>5 DEF Check, Look, AcquireNone, Refuse, WriteOutput, WorkDone, WorkFails,
                  WorkCanceled, Decide, Settle
    <2>6. CASE RetryRead(w) \/ FailJob(w) \/ HonorList(w) \/ HonorFinish(w)
      BY <2>6 DEF RetryRead, FailJob, HonorList, HonorFinish
    <2> QED
      BY <1>4, <2>1, <2>2, <2>3, <2>4, <2>5, <2>6 DEF WorkerStep
  <1> QED
    BY <1>1, <1>2, <1>3, <1>4 DEF Next

\* What the three cases leave of the rows.
LEMMA RowsAfter ==
  ASSUME TypeInv, [Next]_vars
  PROVE  /\ \A s \in StageName : Len(runs'[s]) >= Len(runs[s])
         /\ \A s \in StageName : \A i \in 1..Len(runs[s]) :
              stage_is_terminal(runs[s][i].state) => runs'[s][i] = runs[s][i]
  <1>1. CASE runs' = runs
    BY <1>1, LenNat
  <1>2. CASE Rewrites
    <2>0. PICK s \in StageName : \E i \in 1..Len(runs[s]) : \E row \in StageRunRow :
            runs' = WithRow(s, i, row) /\ MayReplace(s, i, row)
      BY <1>2 DEF Rewrites
    <2>1. PICK i \in 1..Len(runs[s]) : \E row \in StageRunRow :
            runs' = WithRow(s, i, row) /\ MayReplace(s, i, row)
      BY <2>0
    <2> PICK row \in StageRunRow : runs' = WithRow(s, i, row) /\ MayReplace(s, i, row)
      BY <2>1
    <2>2. runs \in [StageName -> Seq(StageRunRow)]
      BY DEF TypeInv, TypeOK
    <2>3. /\ \A t \in StageName : Len(runs'[t]) = Len(runs[t])
          /\ \A t \in StageName : \A j \in 1..Len(runs[t]) :
               t # s \/ j # i => runs'[t][j] = runs[t][j]
      BY <2>1, <2>2, RowWritten
    <2> QED
      BY <2>1, <2>3, LenNat DEF MayReplace
  <1>3. CASE Opens
    <2>1. PICK s \in StageName : runs' = [runs EXCEPT ![s] = Append(@, PendingRow)]
      BY <1>3 DEF Opens
    <2>2. runs \in [StageName -> Seq(StageRunRow)]
      BY DEF TypeInv, TypeOK
    <2>3. /\ Len(runs'[s]) = Len(runs[s]) + 1
          /\ \A t \in StageName : t # s => runs'[t] = runs[t]
          /\ \A t \in StageName : \A j \in 1..Len(runs[t]) : runs'[t][j] = runs[t][j]
      BY <2>1, <2>2, RowAppended
    <2> QED
      BY <2>3, LenNat
  <1> QED
    BY <1>1, <1>2, <1>3, RowSteps

-----------------------------------------------------------------------------
(* The rows implement the ledger.                                          *)

LEMMA LedgerInit ==
  ASSUME Init PROVE Ledger!Init
  <1>1. \A s \in StageName : Len(runs[s]) = 1 /\ runs[s][1].state = "PENDING"
    BY DEF Init, PendingRow
  <1>2. ~stage_is_terminal("PENDING")
    BY OpenStates DEF StageState
  <1>3. Opened = {<< s, 1 >> : s \in StageName}
    <2>1. \A s \in StageName : {<< s, i >> : i \in 1..Len(runs[s])} = {<< s, 1 >>}
      BY <1>1
    <2>2. Opened = UNION {{<< s, 1 >>} : s \in StageName}
      BY <2>1 DEF Opened
    <2> QED
      BY <2>2
  <1>4. Closed = {}
    BY <1>1, <1>2 DEF Closed
  <1> QED
    BY <1>3, <1>4 DEF Ledger!Init

\* Every stage has its first attempt.
RowsExist == \A s \in StageName : Len(runs[s]) >= 1

LEMMA RowsExistInvariance == Spec => []RowsExist
  <1>1. Init => RowsExist
    BY DEF Init, RowsExist
  <1>2. TypeInv /\ RowsExist /\ [Next]_vars => RowsExist'
    <2> SUFFICES ASSUME TypeInv, RowsExist, [Next]_vars, NEW s \in StageName
                 PROVE  Len(runs'[s]) >= 1
      BY DEF RowsExist
    <2>1. Len(runs'[s]) >= Len(runs[s]) /\ Len(runs[s]) >= 1
      BY RowsAfter DEF RowsExist
    <2>2. TypeInv'
      BY TypeNext
    <2>3. Len(runs[s]) \in Nat /\ Len(runs'[s]) \in Nat
      BY <2>2, LenNat DEF TypeInv, TypeOK
    <2> QED
      BY <2>1, <2>3
  <1> QED
    BY <1>1, <1>2, TypeInvariance, PTL DEF Spec

\* The pairs and triples of the ledger, one membership at a time.
LEMMA OpenedIs == \A s, i : << s, i >> \in Opened <=> s \in StageName /\ i \in 1..Len(runs[s])
  BY DEF Opened

LEMMA ClosedIs ==
  \A e : e \in Closed <=>
    \E s \in StageName : \E i \in 1..Len(runs[s]) :
      stage_is_terminal(runs[s][i].state) /\ e = << s, i, runs[s][i].state >>
  BY DEF Closed

LEMMA LedgerNext ==
  ASSUME TypeInv, RowsExist, [Next]_vars
  PROVE  [Ledger!Next]_<< Opened, Closed >>
  <1>1. runs \in [StageName -> Seq(StageRunRow)]
    BY DEF TypeInv, TypeOK
  <1>2. CASE runs' = runs
    BY <1>2 DEF Opened, Closed
  <1>3. CASE Rewrites
    <2>0. PICK s \in StageName : \E i \in 1..Len(runs[s]) : \E row \in StageRunRow :
            runs' = WithRow(s, i, row) /\ MayReplace(s, i, row)
      BY <1>3 DEF Rewrites
    <2>1. PICK i \in 1..Len(runs[s]) : \E row \in StageRunRow :
            runs' = WithRow(s, i, row) /\ MayReplace(s, i, row)
      BY <2>0
    <2> PICK row \in StageRunRow : runs' = WithRow(s, i, row) /\ MayReplace(s, i, row)
      BY <2>1
    <2>2. /\ \A t \in StageName : Len(runs'[t]) = Len(runs[t])
          /\ runs'[s][i] = row
          /\ \A t \in StageName : \A j \in 1..Len(runs[t]) :
               t # s \/ j # i => runs'[t][j] = runs[t][j]
      BY <1>1, RowWritten
    <2>3. Opened' = Opened
      BY <2>2 DEF Opened
    <2>4. ~stage_is_terminal(runs[s][i].state)
      BY DEF MayReplace
    <2>5. CASE ~stage_is_terminal(row.state)
      <3>1. \A t \in StageName :
              {j \in 1..Len(runs'[t]) : stage_is_terminal(runs'[t][j].state)}
                = {j \in 1..Len(runs[t]) : stage_is_terminal(runs[t][j].state)}
        BY <2>2, <2>4, <2>5
      <3>2. ASSUME NEW t \in StageName
            PROVE  {<< t, j, runs'[t][j].state >> :
                      j \in {n \in 1..Len(runs'[t]) : stage_is_terminal(runs'[t][n].state)}}
                     = {<< t, j, runs[t][j].state >> :
                          j \in {n \in 1..Len(runs[t]) : stage_is_terminal(runs[t][n].state)}}
        BY SMTT(30), <2>2, <2>4, <2>5, <3>1
      <3>3. Closed' = Closed
        BY SMTT(30), <3>2 DEF Closed
      <3> QED
        BY <2>3, <3>3
    <2>6. CASE stage_is_terminal(row.state)
      <3> DEFINE o == row.state
      <3>1. Closed' = Closed \cup {<< s, i, o >>}
        <4>1. ASSUME NEW e PROVE e \in Closed' <=> e \in Closed \/ e = << s, i, o >>
          <5>1. e \in Closed' <=>
                  \E t \in StageName : \E j \in 1..Len(runs'[t]) :
                    stage_is_terminal(runs'[t][j].state) /\ e = << t, j, runs'[t][j].state >>
            BY DEF Closed
          <5>2. e \in Closed' => e \in Closed \/ e = << s, i, o >>
            BY <2>2, <5>1, ClosedIs
          <5>3. e \in Closed => e \in Closed'
            BY <2>2, <2>4, <5>1, ClosedIs
          <5>4. << s, i, o >> \in Closed'
            <6>1. i \in 1..Len(runs'[s]) /\ runs'[s][i].state = o
              BY <2>2
            <6> QED
              BY <2>6, <6>1 DEF Closed
          <5> QED
            BY <5>2, <5>3, <5>4
        <4> QED
          BY <4>1
      <3>2. \A e \in Closed : ~(e[1] = s /\ e[2] = i)
        BY <2>4 DEF Closed
      <3>3. o = "SUCCEEDED" => \A e \in Closed : ~(e[1] = s /\ e[3] = o)
        BY DEF Closed, MayReplace, IndexRefuses
      <3>4. o \in ClosingState /\ << s, i >> \in Opened
        BY <2>6, OpenedIs DEF ClosingState, StageRunRow
      <3> QED
        BY <2>3, <3>1, <3>2, <3>3, <3>4 DEF Ledger!Next, Ledger!Close
    <2> QED
      BY <2>5, <2>6
  <1>4. CASE Opens
    <2>1. PICK s \in StageName : runs' = [runs EXCEPT ![s] = Append(@, PendingRow)]
      BY <1>4 DEF Opens
    <2>2. /\ Len(runs'[s]) = Len(runs[s]) + 1
          /\ \A t \in StageName : t # s => runs'[t] = runs[t]
          /\ runs'[s][Len(runs[s]) + 1] = PendingRow
          /\ \A t \in StageName : \A j \in 1..Len(runs[t]) : runs'[t][j] = runs[t][j]
      BY <1>1, <2>1, RowAppended
    <2> DEFINE n == Len(runs[s])
    <2>3. n \in Nat /\ n >= 1
      BY LenNat DEF RowsExist
    <2>4. << s, n >> \in Opened /\ << s, n + 1 >> \notin Opened
      BY <2>3, OpenedIs
    <2>5. Opened' = Opened \cup {<< s, n + 1 >>}
      <3>1. ASSUME NEW e PROVE e \in Opened' <=> e \in Opened \/ e = << s, n + 1 >>
        <4>1. e \in Opened' <=> \E t \in StageName : \E j \in 1..Len(runs'[t]) : e = << t, j >>
          BY DEF Opened
        <4>2. e \in Opened <=> \E t \in StageName : \E j \in 1..Len(runs[t]) : e = << t, j >>
          BY DEF Opened
        <4>3. 1..Len(runs'[s]) = 1..n \cup {n + 1}
          BY <2>2, <2>3
        <4> QED
          BY <2>2, <4>1, <4>2, <4>3
      <3> QED
        BY <3>1
    <2>6. Closed' = Closed
      <3>1. ~stage_is_terminal(PendingRow.state)
        BY OpenStates DEF PendingRow, StageState
      <3>2. ASSUME NEW e PROVE e \in Closed' <=> e \in Closed
        <4>1. e \in Closed' <=>
                \E t \in StageName : \E j \in 1..Len(runs'[t]) :
                  stage_is_terminal(runs'[t][j].state) /\ e = << t, j, runs'[t][j].state >>
          BY DEF Closed
        <4>2. 1..Len(runs'[s]) = 1..n \cup {n + 1}
          BY <2>2, <2>3
        <4>3. e \in Closed' => e \in Closed
          BY SMTT(30), <2>2, <3>1, <4>1, <4>2, ClosedIs
        <4>4. e \in Closed => e \in Closed'
          BY SMTT(30), <2>2, <4>1, <4>2, ClosedIs
        <4> QED
          BY <4>3, <4>4
      <3> QED
        BY <3>2
    <2> QED
      BY <2>4, <2>5, <2>6 DEF Ledger!Next, Ledger!Open
  <1> QED
    BY <1>2, <1>3, <1>4, RowSteps

\* The rows of the detailed system implement the write-once ledger of StageLedger:
\* attempts open in order, and each is closed once, with an outcome that stands.
THEOREM LedgerKept == Spec => KeepsLedger
  <1>1. Init => Ledger!Init
    BY LedgerInit
  <1>2. TypeInv /\ RowsExist /\ [Next]_vars => [Ledger!Next]_<< Opened, Closed >>
    BY LedgerNext
  <1> QED
    BY <1>1, <1>2, TypeInvariance, RowsExistInvariance, PTL DEF Spec, KeepsLedger, Ledger!Spec

-----------------------------------------------------------------------------
(* No attempt is ever SKIPPED: the state is in the table and nothing writes it. *)

NoSkips == \A s \in StageName : \A i \in 1..Len(runs[s]) : runs[s][i].state # "SKIPPED"

LEMMA NoSkipsNext == TypeInv /\ NoSkips /\ [Next]_vars => NoSkips'
  <1> SUFFICES ASSUME TypeInv, NoSkips, [Next]_vars,
                      NEW t \in StageName, NEW j \in 1..Len(runs'[t])
               PROVE  runs'[t][j].state # "SKIPPED"
    BY DEF NoSkips
  <1>1. runs \in [StageName -> Seq(StageRunRow)]
    BY DEF TypeInv, TypeOK
  <1>2. CASE runs' = runs
    BY <1>2 DEF NoSkips
  <1>3. CASE Rewrites
    <2>0. PICK s \in StageName : \E i \in 1..Len(runs[s]) : \E row \in StageRunRow :
            runs' = WithRow(s, i, row) /\ MayReplace(s, i, row)
      BY <1>3 DEF Rewrites
    <2>1. PICK i \in 1..Len(runs[s]) : \E row \in StageRunRow :
            runs' = WithRow(s, i, row) /\ MayReplace(s, i, row)
      BY <2>0
    <2> PICK row \in StageRunRow : runs' = WithRow(s, i, row) /\ MayReplace(s, i, row)
      BY <2>1
    <2>2. /\ Len(runs'[t]) = Len(runs[t])
          /\ runs'[s][i] = row
          /\ \A n \in 1..Len(runs[t]) : t # s \/ n # i => runs'[t][n] = runs[t][n]
      BY <1>1, RowWritten
    <2> QED
      BY <2>2 DEF NoSkips, MayReplace
  <1>4. CASE Opens
    <2>1. PICK s \in StageName : runs' = [runs EXCEPT ![s] = Append(@, PendingRow)]
      BY <1>4 DEF Opens
    <2>2. /\ Len(runs'[s]) = Len(runs[s]) + 1
          /\ t # s => runs'[t] = runs[t]
          /\ runs'[s][Len(runs[s]) + 1].state = "PENDING"
          /\ \A n \in 1..Len(runs[t]) : runs'[t][n] = runs[t][n]
      BY <1>1, <2>1, RowAppended DEF PendingRow
    <2>3. j \in 1..Len(runs[t]) \/ (t = s /\ j = Len(runs[s]) + 1)
      BY <2>2, LenNat
    <2> QED
      BY <2>2, <2>3 DEF NoSkips
  <1> QED
    BY <1>2, <1>3, <1>4, RowSteps

LEMMA NoSkipsInvariance == Spec => []NoSkips
  <1>1. Init => NoSkips
    BY DEF Init, NoSkips, PendingRow
  <1> QED
    BY <1>1, NoSkipsNext, TypeInvariance, PTL DEF Spec

=============================================================================
