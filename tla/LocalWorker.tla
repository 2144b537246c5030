----------------------------- MODULE LocalWorker -----------------------------
(***************************************************************************)
(* The local poll workers (worker/runner.py): each loops over process_once *)
(* which claims the analysis and runs sampling, report and aggregate in    *)
(* turn through run_leased_stage.  Every step is a step of StageExecute;   *)
(* this module says which, in what order, and adds the program counter of  *)
(* _process_claimed.                                                       *)
(***************************************************************************)
EXTENDS StageExecute

CONSTANT CrashBy  \* no fault later than this: the clock can still expire its lease

ASSUME CrashByAssumption == CrashBy \in Nat
ASSUME LocalStagesAssumption == Stages = StageName  \* a poller runs every stage

VARIABLE at  \* the number of the stage each worker is at, 0 outside process_once

localVars == << vars, at >>

LocalInit == Init /\ at = [w \in Worker |-> 0]

Stay == at' = at
Enter(w, n) == at' = [at EXCEPT ![w] = n]

\* Deviation: an analysis is claimed only while it is new or canceled.
ClaimNeverAgain(w) == analysis \in {"QUEUED", "CANCEL_REQUESTED"} /\ ClaimQueued(w) /\ Enter(w, 1)

\* claim_queued returned the analysis; its state decides between the stages and
\* honor_cancel.
Claim(w) == ClaimQueued(w) /\ Enter(w, 1)

\* _run_named_stage.  Between two stages should_cancel is read first.
RunNamedStage(w) ==
  /\ pc[w] = "claimed"
  /\ at[w] > 1 => analysis # "CANCEL_REQUESTED"
  /\ Call(w, PIPELINE_STAGES[at[w]])
  /\ Stay

\* should_cancel between two stages, and the honor_cancel it leads to.
CancelBetween(w) ==
  /\ pc[w] = "claimed"
  /\ at[w] > 1
  /\ CallHonor(w)
  /\ Enter(w, 0)

\* _run_named_stage returned True.
NextStage(w) ==
  /\ at[w] \in 1..Len(PIPELINE_STAGES) - 1
  /\ Proceed(w)
  /\ Enter(w, at[w] + 1)

\* process_once is over: a stage was canceled, lost its lease or raised, the
\* analysis was canceled, or aggregate has run (its outcome is not looked at).
\* An AdapterError leaves run_worker too: the process ends, and starts again.
Leave(w) ==
  /\ pc[w] = "done"
  /\ \/ local[w].outcome \in {"CANCELED", "LEASE_LOST", "RAISED"}
     \/ local[w].outcome # "ERROR" /\ at[w] = Len(PIPELINE_STAGES)
  /\ Return(w)
  /\ Enter(w, 0)

\* The IngestError handler of _process_claimed.
CatchIngestError(w) == FailAnalysis(w) /\ Enter(w, 0)

\* Inside run_leased_stage or honor_cancel.
StageStep(w) ==
  /\ \/ Check(w) \/ Look(w) \/ Acquire(w) \/ AcquireNone(w) \/ Refuse(w) \/ StartStage(w)
     \/ WriteOutput(w) \/ WorkDone(w) \/ WorkFails(w) \/ WorkCanceled(w) \/ Decide(w) \/ Settle(w)
     \/ Heartbeat(w) \/ Complete(w) \/ Fail(w) \/ RetryRead(w) \/ RetryInsert(w) \/ FailJob(w)
     \/ HonorList(w) \/ HonorCancel(w) \/ HonorFinish(w)
  /\ Stay

\* A fault takes the worker out of process_once, unless run_leased_stage catches
\* it (an unreadable report).
LocalFault(w) ==
  /\ clock <= CrashBy
  /\ \/ Crash(w) /\ Enter(w, 0)
     \/ (Raise(w) \/ Unreadable(w)) /\ Stay

-----------------------------------------------------------------------------
LocalStep(w) ==
  \/ Claim(w) \/ RunNamedStage(w) \/ CancelBetween(w) \/ NextStage(w) \/ Leave(w)
  \/ CatchIngestError(w) \/ StageStep(w)

Environment == (CancelRead \/ CancelWrite \/ Tick) /\ Stay

LocalNext == Environment \/ \E w \in Worker : LocalStep(w) \/ LocalFault(w)

\* A worker that can take a step takes one, and time passes.  Nothing is assumed
\* of faults or of the clients.
LocalSpec ==
  /\ LocalInit /\ [][LocalNext]_localVars
  /\ \A w \in Worker : WF_localVars(LocalStep(w))
  /\ WF_localVars(Tick /\ Stay)

-----------------------------------------------------------------------------
\* Through a worker's death, a lost lease, a second poller and a cancel at any
\* moment, an analysis that was claimed reaches a terminal state: claim_queued
\* takes it again until it does.
ClaimedSettles ==
  analysis \in {"RUNNING", "CANCEL_REQUESTED"} ~> analysis_is_terminal(analysis)

=============================================================================
