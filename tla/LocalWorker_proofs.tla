------------------------- MODULE LocalWorker_proofs -------------------------
(***************************************************************************)
(* The local workers only ever take steps of the shared stage path, so     *)
(* what is proved of StageExecute holds of them; and they take the stages  *)
(* in the order of the pipeline.                                           *)
(***************************************************************************)
EXTENDS LocalWorker, StageLease_proofs

USE DEF tables, env

\* A worker that has claimed an analysis is at one of its stages.
AtStage ==
  /\ at \in [Worker -> 0..3]
  /\ \A w \in Worker : pc[w] = "claimed" => at[w] \in 1..3

LEMMA PipelineStages ==
  /\ Len(PIPELINE_STAGES) = 3
  /\ \A n \in 1..3 : PIPELINE_STAGES[n] \in Stages
  BY LocalStagesAssumption DEF PIPELINE_STAGES, StageName

\* Inside run_leased_stage and honor_cancel a worker never comes back to the claim.
LEMMA StageStepLeaves ==
  ASSUME TypeInv, NEW w \in Worker, StageStep(w)
  PROVE  /\ WorkerStep(w)
         /\ at' = at
         /\ \A v \in Worker : pc'[v] = "claimed" => pc[v] = "claimed"
  <1>1. WorkerStep(w) /\ at' = at
    BY DEF StageStep, WorkerStep, Stay
  <1>2. \E label \in Pc \ {"claimed"} : \E frame : Step(w, label, frame)
    <2>0. {"look", "acquire", "start", "work", "settle", "heartbeat", "complete", "fail",
           "retry_read", "retry_insert", "refused", "fail_job", "hc_list", "hc_cancel", "done"}
            \subseteq Pc \ {"claimed"}
      BY Labels
    <2>1. CASE Check(w) \/ Look(w) \/ AcquireNone(w) \/ Refuse(w) \/ StartStage(w)
      BY <2>0, <2>1 DEF Check, Look, AcquireNone, Refuse, StartStage, Honor, Finish, Goto
    <2>2. CASE Acquire(w)
      BY <2>0, <2>2 DEF Acquire
    <2>3. CASE WriteOutput(w) \/ WorkDone(w) \/ WorkFails(w) \/ WorkCanceled(w)
      BY <2>0, <2>3 DEF WriteOutput, WorkDone, WorkFails, WorkCanceled, Honor
    <2>4. CASE Decide(w) \/ Settle(w)
      <3>1. Settle(w) => Step(w, "heartbeat", local[w])
        BY DEF Settle, Goto
      <3>2. Decide(w) => \E v : Step(w, "settle", [local[w] EXCEPT !.verdict = v])
        BY DEF Decide
      <3> QED
        BY <2>0, <2>4, <3>1, <3>2
    <2>5. CASE Heartbeat(w) \/ Complete(w) \/ Fail(w) \/ RetryRead(w) \/ RetryInsert(w) \/ FailJob(w)
      BY <2>0, <2>5 DEF Heartbeat, Complete, Fail, RetryRead, RetryInsert, FailJob, Finish, Goto
    <2>6. CASE HonorList(w) \/ HonorCancel(w) \/ HonorFinish(w)
      BY <2>0, <2>6 DEF HonorList, HonorCancel, HonorFinish, Finish
    <2> QED
      BY <2>1, <2>2, <2>3, <2>4, <2>5, <2>6 DEF StageStep
  <1>3. \A v \in Worker : pc'[v] = "claimed" => pc[v] = "claimed"
    BY <1>2 DEF Step, TypeInv, TypeOK
  <1> QED
    BY <1>1, <1>3

\* Every step of the local workers is one of StageExecute, and keeps AtStage.
LEMMA LocalSteps ==
  ASSUME TypeInv, AtStage, [LocalNext]_localVars
  PROVE  [Next]_vars /\ AtStage'
  <1>1. CASE UNCHANGED localVars
    BY <1>1 DEF localVars, vars, AtStage
  <1>2. CASE Environment
    <2>1. UNCHANGED << at, pc >>
      BY <1>2 DEF Environment, Stay, CancelRead, CancelWrite, Tick
    <2> QED
      BY <1>2, <2>1 DEF Environment, Next, AtStage
  <1>3. ASSUME NEW w \in Worker, LocalFault(w) PROVE Next /\ AtStage'
    <2>1. Fault(w)
      BY <1>3 DEF LocalFault, Fault
    <2>2. \/ pc' = [pc EXCEPT ![w] = "idle"] /\ at' = [at EXCEPT ![w] = 0]
          \/ pc' \in {[pc EXCEPT ![w] = "done"], [pc EXCEPT ![w] = "settle"]} /\ at' = at
      BY <1>3 DEF LocalFault, Crash, Raise, Unreadable, Finish, Step, Enter, Stay
    <2>3. AtStage'
      BY <2>2 DEF AtStage, TypeInv, TypeOK
    <2> QED
      BY <2>1, <2>3 DEF Next
  <1>4. ASSUME NEW w \in Worker, LocalStep(w) PROVE WorkerStep(w) /\ AtStage'
    <2>1. CASE Claim(w)
      <3>1. pc' \in {[pc EXCEPT ![w] = "claimed"], [pc EXCEPT ![w] = "hc_list"]}
            /\ at' = [at EXCEPT ![w] = 1]
        BY <2>1 DEF Claim, ClaimQueued, Honor, Step, Enter
      <3> QED
        BY <2>1, <3>1 DEF Claim, WorkerStep, AtStage, TypeInv, TypeOK
    <2>2. CASE RunNamedStage(w)
      <3>1. pc' = [pc EXCEPT ![w] = "check"] /\ at' = at
        BY <2>2 DEF RunNamedStage, Call, Step, Stay
      <3>2. PIPELINE_STAGES[at[w]] \in Stages
        BY <2>2, PipelineStages DEF RunNamedStage, AtStage
      <3> QED
        BY <2>2, <3>1, <3>2 DEF RunNamedStage, WorkerStep, AtStage, TypeInv, TypeOK
    <2>3. CASE CancelBetween(w)
      <3>1. pc' = [pc EXCEPT ![w] = "hc_list"] /\ at' = [at EXCEPT ![w] = 0]
        BY <2>3 DEF CancelBetween, CallHonor, Honor, Step, Enter
      <3> QED
        BY <2>3, <3>1 DEF CancelBetween, WorkerStep, AtStage, TypeInv, TypeOK
    <2>4. CASE NextStage(w)
      <3>1. pc' = [pc EXCEPT ![w] = "claimed"] /\ at' = [at EXCEPT ![w] = at[w] + 1]
            /\ at[w] \in 1..2
        BY <2>4, PipelineStages DEF NextStage, Proceed, Step, Enter
      <3> QED
        BY <2>4, <3>1 DEF NextStage, WorkerStep, AtStage, TypeInv, TypeOK
    <2>5. CASE Leave(w) \/ CatchIngestError(w)
      <3>1. pc' = [pc EXCEPT ![w] = "idle"] /\ at' = [at EXCEPT ![w] = 0]
        BY <2>5 DEF Leave, CatchIngestError, Return, FailAnalysis, Step, Enter
      <3> QED
        BY <2>5, <3>1 DEF Leave, CatchIngestError, WorkerStep, AtStage, TypeInv, TypeOK
    <2>6. CASE StageStep(w)
      BY <2>6, StageStepLeaves DEF AtStage
    <2> QED
      BY <1>4, <2>1, <2>2, <2>3, <2>4, <2>5, <2>6 DEF LocalStep
  <1> QED
    BY <1>1, <1>2, <1>3, <1>4 DEF LocalNext, Next

\* The local workers implement the shared stage path (_process_claimed): every
\* behaviour of theirs is one of StageExecute.
THEOREM LocalRunsTheSharedPath == LocalSpec => Spec
  <1>1. LocalInit => Init /\ AtStage
    BY DEF LocalInit, Init, AtStage
  <1>2. TypeInv /\ AtStage /\ [LocalNext]_localVars => TypeInv' /\ AtStage' /\ [Next]_vars
    BY LocalSteps, TypeNext
  <1> QED
    BY <1>1, <1>2, TypeInit, PTL DEF LocalSpec, Spec

\* So the rows the local workers leave are a write-once ledger, ...
COROLLARY LocalKeepsLedger == LocalSpec => KeepsLedger
  BY LocalRunsTheSharedPath, LedgerKept, PTL

\* ... and the analyses they end as successes have results.
COROLLARY LocalSuccessHasResults == LocalSpec => []SuccessHasResults
  BY LocalRunsTheSharedPath, SuccessHasResultsInvariance, PTL

\* No local worker undoes an accepted cancel.
COROLLARY LocalCancelStands == LocalSpec => CancelStands
  BY LocalRunsTheSharedPath, CancelStandsInvariance, PTL

\* A lease that one of the local workers was granted is honored until it expires.
COROLLARY LocalLeaseHonored == LocalSpec => []LeaseHonored
  BY LocalRunsTheSharedPath, LeaseHonoredInvariance, PTL

\* Without overrun, one of the local workers at a time runs a stage or adds its retry, and
\* what the stages that succeeded have written stays.
COROLLARY LocalWorkExclusive ==
  ASSUME ~Overrun
  PROVE  LocalSpec => []WorkExclusive /\ []RetriesInOrder /\ StaleOutputIsOrphan
  <1>1. Spec => []WorkExclusive /\ []RetriesInOrder /\ StaleOutputIsOrphan
    BY WorkExclusiveInvariance, RetriesInOrderInvariance, SettledOutputStands, PTL
  <1> QED
    BY <1>1, LocalRunsTheSharedPath, PTL

-----------------------------------------------------------------------------
(* The stages in the pipeline's order: what a worker has behind it when it *)
(* comes to stage n.  A success stands (SucceededStands), so what a worker *)
(* has once seen to succeed another one cannot undo.                       *)

\* The stages up to the n-th have succeeded.
Through(n) == \A i \in 1..3 : i <= n => Succeeded(PIPELINE_STAGES[i])

OrderOK(label, frame, n) ==
  /\ label = "claimed" => Through(n - 1)
  /\ label \in StagePc => n \in 1..3 /\ frame.stage = PIPELINE_STAGES[n] /\ Through(n - 1)
  /\ label = "done" /\ frame.outcome \in {"SUCCEEDED", "SKIPPED"} => Through(n)

OrderInv == \A w \in Worker : OrderOK(pc[w], local[w], at[w])

LEMMA PipelineOrder ==
  /\ \A n \in 1..3 : PIPELINE_STAGES[n] \in StageName
  /\ \A n, m \in 1..3 : PIPELINE_STAGES[n] = PIPELINE_STAGES[m] => n = m
  BY DEF PIPELINE_STAGES, StageName

LEMMA OrderInvOrders == AtStage /\ OrderInv => StagesInOrder
  <1> SUFFICES ASSUME AtStage, OrderInv, NEW w \in Worker, NEW i \in 1..3, NEW j \in 1..3,
                      pc[w] \in BusyPc, local[w].stage = PIPELINE_STAGES[j], i < j
               PROVE  Succeeded(PIPELINE_STAGES[i])
    BY PipelineStages DEF StagesInOrder
  <1>1. at[w] \in 1..3 /\ local[w].stage = PIPELINE_STAGES[at[w]] /\ Through(at[w] - 1)
    BY Labels DEF OrderInv, OrderOK
  <1>2. at[w] = j
    BY <1>1, PipelineOrder
  <1> QED
    BY <1>1, <1>2 DEF Through

LEMMA ThroughStands ==
  ASSUME TypeInv, [Next]_vars, NEW n \in Int, Through(n)
  PROVE  Through(n)'
  BY SucceededStands, PipelineOrder DEF Through

\* The step of one worker: the others have what they had.
LEMMA OrderStep ==
  ASSUME TypeInv, AtStage, OrderInv, [Next]_vars, NEW w \in Worker, NEW label, NEW frame,
         NEW n \in 0..3, Step(w, label, frame), at' = [at EXCEPT ![w] = n],
         OrderOK(label, frame, n)'
  PROVE  OrderInv'
  <1> SUFFICES ASSUME NEW v \in Worker PROVE OrderOK(pc[v], local[v], at[v])'
    BY DEF OrderInv
  <1>1. CASE v = w
    <2>1. pc'[v] = label /\ local'[v] = frame /\ at'[v] = n
      BY <1>1 DEF Step, TypeInv, TypeOK, AtStage
    <2> QED
      BY <2>1 DEF OrderOK
  <1>2. CASE v # w
    <2>1. pc'[v] = pc[v] /\ local'[v] = local[v] /\ at'[v] = at[v] /\ at[v] \in 0..3
      BY <1>2 DEF Step, TypeInv, TypeOK, AtStage
    <2>2. \A m \in Int : Through(m) => Through(m)'
      BY ThroughStands
    <2>3. OrderOK(pc[v], local[v], at[v])
      BY DEF OrderInv
    <2>4. /\ Through(at[v]) => Through(at[v]) /\ at[v] \in Int /\ at[v] - 1 \in Int
      BY <2>1
    <2> QED
      BY <2>1, <2>2, <2>3, <2>4 DEF OrderOK
  <1> QED
    BY <1>1, <1>2

\* How a step inside run_leased_stage or honor_cancel ends: at the same stage, out
\* of it with no success to report, or over a success of the stage.
Ends(label, frame) ==
  /\ label \notin StagePc \cup {"claimed"}
  /\ ~(label = "done" /\ frame.outcome \in {"SUCCEEDED", "SKIPPED"})

LEMMA StageStepEnds ==
  ASSUME TypeInv, NEW w \in Worker, StageStep(w) \/ Raise(w) \/ Unreadable(w)
  PROVE  \E label, frame :
           /\ Step(w, label, frame)
           /\ \/ pc[w] \in StagePc /\ label \in StagePc /\ frame.stage = local[w].stage
              \/ Ends(label, frame)
              \/ pc[w] \in StagePc /\ label = "done"
                 /\ \E s \in StageName : s = local[w].stage /\ Succeeded(s)'
  <1>0. local[w] \in Frame
    BY DEF TypeInv, TypeOK
  <1>1. ASSUME NEW o \in {"CANCELED", "LEASE_LOST", "ERROR", "RAISED"}, Finish(w, o)
        PROVE  \E frame : Step(w, "done", frame) /\ Ends("done", frame)
    BY <1>1, Labels DEF Finish, Ends, NoFrame
  <1>2. ASSUME NEW label \in {"refused", "fail_job", "hc_list", "hc_cancel"}, NEW frame,
               Step(w, label, frame)
        PROVE  Ends(label, frame)
    BY Labels DEF Ends
  <1>3. CASE Check(w) \/ AcquireNone(w) \/ Refuse(w) \/ StartStage(w)
    BY <1>1, <1>2, <1>3, Labels DEF Check, AcquireNone, Refuse, StartStage, Honor, Goto
  <1>4. CASE Look(w)
    <2>1. CASE LatestState(runs[local[w].stage]) = "SUCCEEDED"
      <3>0. local[w].stage \in StageName /\ pc[w] \in StagePc
        BY <1>4, Labels DEF Look, TypeInv, FramesOK, FrameRefersOK
      <3> PICK s \in StageName : s = local[w].stage
        BY <3>0
      <3>2. runs[s] \in Seq(StageRunRow) /\ Len(runs[s]) \in Nat
        BY LenNat
      <3>3. runs[s] # << >> /\ runs[s][Len(runs[s])].state = "SUCCEEDED"
        BY <2>1 DEF LatestState
      <3>4. Len(runs[s]) \in 1..Len(runs[s])
        BY <3>2, <3>3, EmptySeq
      <3>5. Succeeded(s)'
        BY <1>4, <3>3, <3>4 DEF Look, Succeeded
      <3> QED
        BY <1>4, <2>1, <3>0, <3>5 DEF Look, Finish
    <2>2. CASE LatestState(runs[local[w].stage]) # "SUCCEEDED"
      BY <1>4, <2>2, Labels DEF Look, Goto
    <2> QED
      BY <2>1, <2>2
  <1>5. CASE Acquire(w)
    <2>1. PICK i : Step(w, "start", [local[w] EXCEPT !.attempt = i, !.token = issued + 1,
                                                     !.expires = local[w].moment + TTL])
      BY <1>5 DEF Acquire
    <2> DEFINE f == [local[w] EXCEPT !.attempt = i, !.token = issued + 1,
                                     !.expires = local[w].moment + TTL]
    <2>2. f.stage = local[w].stage /\ pc[w] \in StagePc /\ "start" \in StagePc
      BY <1>0, <1>5, Labels DEF Acquire, Frame
    <2> QED
      BY <2>1, <2>2
  <1>6. CASE WorkCanceled(w) \/ HonorList(w) \/ HonorCancel(w) \/ HonorFinish(w) \/ FailJob(w)
             \/ Raise(w)
    BY <1>1, <1>2, <1>6 DEF WorkCanceled, HonorList, HonorCancel, HonorFinish, FailJob, Raise, Honor
  <1>7. CASE WriteOutput(w) \/ WorkDone(w) \/ WorkFails(w) \/ Decide(w) \/ Unreadable(w)
             \/ RetryRead(w) \/ Settle(w)
    <2>1. pc[w] \in StagePc /\ {"work", "heartbeat", "fail", "settle", "retry_insert"} \subseteq StagePc
      BY <1>7, Labels DEF WriteOutput, WorkDone, WorkFails, Decide, Unreadable, RetryRead, Settle
    <2>2. CASE WriteOutput(w)
      BY <1>0, <2>1, <2>2 DEF WriteOutput, Frame
    <2>3. CASE WorkDone(w)
      BY <1>0, <2>1, <2>3 DEF WorkDone, Frame
    <2>4. CASE WorkFails(w)
      <3>1. PICK e : Step(w, "fail", [local[w] EXCEPT !.error = e, !.written = 0])
        BY <2>4 DEF WorkFails
      <3>2. [local[w] EXCEPT !.error = e, !.written = 0].stage = local[w].stage
        BY <1>0 DEF Frame
      <3> QED
        BY <2>1, <3>1, <3>2
    <2>5. CASE Decide(w)
      <3>1. PICK v : Step(w, "settle", [local[w] EXCEPT !.verdict = v])
        BY <2>5 DEF Decide
      <3>2. [local[w] EXCEPT !.verdict = v].stage = local[w].stage
        BY <1>0 DEF Frame
      <3> QED
        BY <2>1, <3>1, <3>2
    <2>6. CASE Unreadable(w)
      BY <1>0, <2>1, <2>6 DEF Unreadable, Frame
    <2>7. CASE RetryRead(w)
      BY <1>0, <2>1, <2>7 DEF RetryRead, Frame
    <2>8. CASE Settle(w)
      BY <2>1, <2>8 DEF Settle, Goto
    <2> QED
      BY <1>7, <2>2, <2>3, <2>4, <2>5, <2>6, <2>7, <2>8
  <1>8. CASE Heartbeat(w)
    <2>1. pc[w] \in StagePc /\ "complete" \in StagePc
      BY <1>8, Labels DEF Heartbeat
    <2>2. [local[w] EXCEPT !.expires = clock + TTL].stage = local[w].stage
      BY <1>0 DEF Frame
    <2>3. Step(w, "complete", [local[w] EXCEPT !.expires = clock + TTL]) \/ Step(w, "complete", local[w])
      BY <1>8 DEF Heartbeat, Goto
    <2> QED
      BY <2>1, <2>2, <2>3
  <1>9. CASE Complete(w)
    <2>1. CASE Finish(w, "LEASE_LOST") \/ Finish(w, "RAISED")
      BY <1>1, <2>1
    <2>2. CASE ~(Finish(w, "LEASE_LOST") \/ Finish(w, "RAISED"))
      <3> DEFINE i == local[w].attempt
                 row == [LeasedBy(w) EXCEPT !.state = "SUCCEEDED", !.token = NoToken]
      <3>1. pc[w] \in StagePc /\ pc[w] \in BusyPc
        BY <1>9, Labels DEF Complete
      <3> PICK s \in StageName : s = local[w].stage
        BY <3>1, LeaseExists
      <3>2. i \in 1..Len(runs[s]) /\ LeasedBy(w) \in StageRunRow
        BY <3>1, LeaseExists
      <3>3. runs' = WithRow(s, i, row) /\ Finish(w, "SUCCEEDED")
        BY <1>9, <2>2 DEF Complete
      <3>4. row \in StageRunRow /\ row.state = "SUCCEEDED"
        BY <3>2, RowTypes DEF StageRunRow
      <3> HIDE DEF row
      <3>5. Len(runs'[s]) = Len(runs[s]) /\ runs'[s][i] = row
        BY <3>2, <3>3, <3>4, RowWritten DEF TypeInv, TypeOK
      <3>6. Succeeded(s)'
        BY <3>2, <3>4, <3>5 DEF Succeeded
      <3> QED
        BY <3>1, <3>3, <3>6 DEF Finish
    <2> QED
      BY <2>1, <2>2
  <1>10. CASE Fail(w)
    <2>1. pc[w] \in StagePc /\ "retry_read" \in StagePc
      BY <1>10, Labels DEF Fail
    <2>2. Step(w, "retry_read", local[w]) \/ Step(w, "fail_job", NoFrame) \/ Finish(w, "ERROR")
      BY <1>10 DEF Fail, Goto
    <2> QED
      BY <1>1, <1>2, <2>1, <2>2
  <1>11. CASE RetryInsert(w)
    BY <1>1, <1>11 DEF RetryInsert
  <1> QED
    BY <1>3, <1>4, <1>5, <1>6, <1>7, <1>8, <1>9, <1>10, <1>11 DEF StageStep

LEMMA OrderNext ==
  ASSUME TypeInv, AtStage, OrderInv, [LocalNext]_localVars
  PROVE  OrderInv'
  <1>0. [Next]_vars /\ \A m \in Int : Through(m) => Through(m)'
    BY LocalSteps, ThroughStands
  <1>1. CASE UNCHANGED << pc, local, at >>
    <2>1. ASSUME NEW w \in Worker PROVE OrderOK(pc[w], local[w], at[w])'
      <3>1. at[w] \in Int /\ at[w] - 1 \in Int /\ OrderOK(pc[w], local[w], at[w])
        BY DEF OrderInv, AtStage
      <3> QED
        BY <1>0, <1>1, <3>1 DEF OrderOK
    <2> QED
      BY <2>1 DEF OrderInv
  <1>2. CASE Environment \/ UNCHANGED localVars
    BY <1>1, <1>2 DEF Environment, Stay, CancelRead, CancelWrite, Tick, localVars, vars
  <1>3. ASSUME NEW w \in Worker, StageStep(w) \/ Raise(w) \/ Unreadable(w), Stay PROVE OrderInv'
    <2> PICK n \in 0..3 : n = at[w]
      BY DEF AtStage
    <2>1. at' = [at EXCEPT ![w] = n]
      BY <1>3 DEF Stay, AtStage
    <2>2. PICK label, frame :
            /\ Step(w, label, frame)
            /\ \/ pc[w] \in StagePc /\ label \in StagePc /\ frame.stage = local[w].stage
               \/ Ends(label, frame)
               \/ pc[w] \in StagePc /\ label = "done"
                  /\ \E s \in StageName : s = local[w].stage /\ Succeeded(s)'
      BY <1>3, StageStepEnds
    <2>3. pc[w] \in StagePc =>
            n \in 1..3 /\ local[w].stage = PIPELINE_STAGES[n] /\ Through(n - 1)'
      BY <1>0 DEF OrderInv, OrderOK
    <2>4. OrderOK(label, frame, n)'
      <3>1. CASE pc[w] \in StagePc /\ label \in StagePc /\ frame.stage = local[w].stage
        BY <2>3, <3>1, Labels DEF OrderOK
      <3>2. CASE Ends(label, frame)
        BY <3>2 DEF Ends, OrderOK
      <3>3. CASE pc[w] \in StagePc /\ label = "done"
                 /\ \E s \in StageName : s = local[w].stage /\ Succeeded(s)'
        <4>1. Succeeded(PIPELINE_STAGES[n])' /\ n \in 1..3 /\ Through(n - 1)'
          BY <2>3, <3>3
        <4>2. Through(n)'
          BY <4>1 DEF Through
        <4> QED
          BY <3>3, <4>2, Labels DEF OrderOK
      <3> QED
        BY <2>2, <3>1, <3>2, <3>3
    <2> QED
      BY <1>0, <2>1, <2>2, <2>4, OrderStep
  <1>4. ASSUME NEW w \in Worker, LocalFault(w) PROVE OrderInv'
    <2>1. CASE Crash(w) /\ Enter(w, 0)
      <3>1. OrderOK("idle", NoFrame, 0)'
        BY Labels DEF OrderOK
      <3>2. Step(w, "idle", NoFrame) /\ at' = [at EXCEPT ![w] = 0] /\ 0 \in 0..3
        BY <2>1 DEF Crash, Enter
      <3> QED
        BY <1>0, <3>1, <3>2, OrderStep
    <2>2. CASE (Raise(w) \/ Unreadable(w)) /\ Stay
      BY <1>3, <2>2
    <2> QED
      BY <1>4, <2>1, <2>2 DEF LocalFault
  <1>5. ASSUME NEW w \in Worker, LocalStep(w) PROVE OrderInv'
    <2>1. CASE Claim(w)
      <3>1. PICK label, frame : label \in {"claimed", "hc_list"} /\ Step(w, label, frame)
        BY <2>1 DEF Claim, ClaimQueued, Honor
      <3>2. Through(0)'
        BY DEF Through
      <3>3. OrderOK(label, frame, 1)'
        BY <3>1, <3>2, Labels DEF OrderOK
      <3>4. at' = [at EXCEPT ![w] = 1] /\ 1 \in 0..3
        BY <2>1 DEF Claim, Enter
      <3> QED
        BY <1>0, <3>1, <3>3, <3>4, OrderStep
    <2>2. CASE RunNamedStage(w)
      <3> PICK n \in 1..3 : n = at[w]
        BY <2>2 DEF RunNamedStage, AtStage
      <3>1. at' = [at EXCEPT ![w] = n] /\ pc[w] = "claimed"
        BY <2>2 DEF RunNamedStage, Stay, AtStage
      <3>2. PICK t : Step(w, "check", [NoFrame EXCEPT !.stage = PIPELINE_STAGES[n], !.moment = t])
        BY <2>2 DEF RunNamedStage, Call
      <3> DEFINE f == [NoFrame EXCEPT !.stage = PIPELINE_STAGES[n], !.moment = t]
      <3>3. f.stage = PIPELINE_STAGES[n]
        BY DEF NoFrame
      <3>4. Through(n - 1)'
        BY <1>0, <3>1 DEF OrderInv, OrderOK
      <3> HIDE DEF f
      <3>5. OrderOK("check", f, n)'
        BY <3>3, <3>4 DEF OrderOK
      <3>6. Step(w, "check", f) /\ n \in 0..3
        BY <3>2 DEF f
      <3> QED
        BY <1>0, <3>1, <3>5, <3>6, OrderStep
    <2>3. CASE CancelBetween(w) \/ Leave(w) \/ CatchIngestError(w)
      <3>1. PICK label \in {"hc_list", "idle"} : Step(w, label, NoFrame)
        BY <2>3 DEF CancelBetween, CallHonor, Honor, Leave, Return, CatchIngestError, FailAnalysis
      <3>2. OrderOK(label, NoFrame, 0)'
        BY Labels DEF OrderOK
      <3> QED
        BY <1>0, <2>3, <3>1, <3>2, OrderStep DEF CancelBetween, Leave, CatchIngestError, Enter
    <2>4. CASE NextStage(w)
      <3> PICK n \in 1..2 : n = at[w]
        BY <2>4, PipelineStages DEF NextStage
      <3>1. PICK frame : Step(w, "claimed", frame)
        BY <2>4 DEF NextStage, Proceed
      <3>2. Through(n)'
        BY <1>0, <2>4 DEF NextStage, Proceed, OrderInv, OrderOK
      <3>3. OrderOK("claimed", frame, n + 1)'
        BY <3>2, Labels DEF OrderOK
      <3>4. at' = [at EXCEPT ![w] = n + 1] /\ n + 1 \in 0..3
        BY <2>4 DEF NextStage, Enter
      <3> QED
        BY <1>0, <3>1, <3>3, <3>4, OrderStep
    <2>5. CASE StageStep(w)
      BY <1>3, <2>5 DEF StageStep
    <2> QED
      BY <1>5, <2>1, <2>2, <2>3, <2>4, <2>5 DEF LocalStep
  <1> QED
    BY <1>2, <1>4, <1>5 DEF LocalNext

\* No local worker leases, works on or retries a stage before every earlier stage of
\* the pipeline has succeeded, whoever ran those and however often they were taken
\* over (process_once, _process_claimed, run_leased_stage).
THEOREM StagesInOrderInvariance == LocalSpec => []StagesInOrder
  <1>1. LocalInit => Init /\ AtStage /\ OrderInv
    <2> SUFFICES ASSUME LocalInit PROVE Init /\ AtStage /\ OrderInv
      OBVIOUS
    <2>1. \A w \in Worker : pc[w] = "idle"
      BY DEF LocalInit, Init
    <2> QED
      BY <2>1, Labels DEF LocalInit, Init, AtStage, OrderInv, OrderOK
  <1>2. TypeInv /\ AtStage /\ OrderInv /\ [LocalNext]_localVars
          => TypeInv' /\ AtStage' /\ OrderInv'
    BY LocalSteps, TypeNext, OrderNext
  <1> QED
    BY <1>1, <1>2, TypeInit, OrderInvOrders, PTL DEF LocalSpec

=============================================================================
