---------------------------- MODULE StageExecute ----------------------------
(***************************************************************************)
(* run_leased_stage and honor_cancel (application/stage_execute.py) run by *)
(* concurrent workers over the PostgreSQL rows of one analysis, with the   *)
(* claims and the cancel requests that move the analysis row beside them.  *)
(* One action is one repository transaction or one piece of stage work;    *)
(* what a worker remembers between two of them is its record in local.     *)
(* The local poll worker and the Celery tasks both run this path: modules  *)
(* LocalWorker and CeleryDispatch restrict who calls it and when.          *)
(***************************************************************************)
EXTENDS JobRepository

CONSTANTS
  Worker,       \* worker processes
  Stages,       \* the stages that workers are asked to run
  MaxAttempts,  \* settings.stage_retry_max_attempts
  TTL,          \* settings.lease_ttl_ms, in clock units
  Overrun,      \* TRUE: work may outlast the lease that covers it
  MaxTime,      \* bound on the clock
  MaxTokens,    \* bound on the leases ever granted
  MaxCancels,   \* bound on the cancel requests of clients
  MaxFaults     \* bound on crashes, database errors, uncaught errors and unreadable files

ASSUME StagesAssumption == Stages \subseteq StageName
ASSUME BoundsAssumption ==
  /\ MaxAttempts \in Nat \ {0}
  /\ TTL \in Nat \ {0}
  /\ Overrun \in BOOLEAN
  /\ MaxTime \in Nat /\ MaxTokens \in Nat /\ MaxCancels \in Nat /\ MaxFaults \in Nat

VARIABLES
  analysis,  \* analyses.state
  runs,      \* stage_runs: the attempts of each stage
  output,    \* the lease under which each stage's artifacts were last written
  clock,     \* the time every process reads
  issued,    \* the number of lease tokens issued so far
  pc,        \* where each worker is
  local,     \* what each worker remembers
  seen,      \* the state a cancel request has read and not yet acted on
  cancels,   \* cancel requests started
  faults     \* failures of the environment so far

vars == << analysis, runs, output, clock, issued, pc, local, seen, cancels, faults >>
tables == << analysis, runs, output >>
env == << clock, seen, cancels, faults >>

-----------------------------------------------------------------------------
Outcome == {"NONE", "SUCCEEDED", "SKIPPED", "CANCELED", "LEASE_LOST", "ERROR", "RAISED"}

\* What a worker holds in its frame: the stage, the time it captured, its lease,
\* how many artifacts it has written, the class of the error its work raised,
\* the outcome persist_report_outcome decided, the attempt number it will insert,
\* the attempts honor_cancel has listed, and the result of the call.
Frame ==
  [stage : StageName \cup {"none"}, moment : Nat, attempt : Nat, token : Nat,
   expires : Nat, written : Nat, error : {"none", "retryable", "terminal"},
   verdict : {"none", "SUCCEEDED", "PARTIAL", "FAILED"},
   next : Nat, todo : SUBSET (StageName \X Nat), outcome : Outcome]

NoFrame ==
  [stage |-> "none", moment |-> 0, attempt |-> 0, token |-> NoToken,
   expires |-> 0, written |-> 0, error |-> "none", verdict |-> "none",
   next |-> 0, todo |-> {}, outcome |-> "NONE"]

\* Before the claim; holding the lease; allocating the retry; canceling.
PreparePc == {"claimed", "check", "look", "acquire"}
HoldPc == {"start", "work", "settle", "heartbeat", "complete", "fail"}
RetryPc == {"retry_read", "retry_insert"}
BusyPc == HoldPc \cup RetryPc
HonorPc == {"hc_list", "hc_cancel"}
Pc == {"idle", "refused", "fail_job", "done"} \cup PreparePc \cup BusyPc \cup HonorPc

\* A control step: the worker moves and changes some of its frame.
Step(w, label, frame) ==
  /\ pc' = [pc EXCEPT ![w] = label]
  /\ local' = [local EXCEPT ![w] = frame]

Goto(w, label) == Step(w, label, local[w])

\* The call ends: its outcome is all that is left of its frame.
Finish(w, outcome) == Step(w, "done", [NoFrame EXCEPT !.outcome = outcome])

\* honor_cancel is entered; nothing of the frame is used from here on.
Honor(w) == Step(w, "hc_list", NoFrame)

\* The rows after attempt i of stage s becomes row.
WithRow(s, i, row) == [runs EXCEPT ![s] = [@ EXCEPT ![i] = row]]

\* The row a worker leased, as it now is.
LeasedBy(w) == runs[local[w].stage][local[w].attempt]

-----------------------------------------------------------------------------
\* A QUEUED analysis whose three attempt-1 rows are in place.
Init ==
  /\ analysis = "QUEUED"
  /\ runs = [s \in StageName |-> << PendingRow >>]
  /\ output = [s \in StageName |-> NoToken]
  /\ clock = 0
  /\ issued = 0
  /\ pc = [w \in Worker |-> "idle"]
  /\ local = [w \in Worker |-> NoFrame]
  /\ seen = "none"
  /\ cancels = 0
  /\ faults = 0

-----------------------------------------------------------------------------
(* What callers do around the shared path.                                 *)

\* execute_orchestrate: the compare-and-set QUEUED -> RUNNING.
StartAnalysis ==
  /\ analysis = "QUEUED"
  /\ analysis' = "RUNNING"
  /\ UNCHANGED << runs, output, issued, pc, local, env >>

\* process_once: now is captured, then claim_queued takes a QUEUED row, or a
\* RUNNING or CANCEL_REQUESTED one that no unexpired lease covers.  A claimed
\* CANCEL_REQUESTED analysis goes to honor_cancel on the state the claim returned.
ClaimQueued(w) ==
  /\ pc[w] = "idle"
  /\ \/ analysis = "QUEUED"
     \/ analysis \in {"RUNNING", "CANCEL_REQUESTED"} /\ ~ActiveLease(runs, clock)
  /\ analysis' = IF analysis = "QUEUED" THEN "RUNNING" ELSE analysis
  /\ IF analysis = "CANCEL_REQUESTED" THEN Honor(w)
     ELSE Step(w, "claimed", [NoFrame EXCEPT !.moment = clock])
  /\ UNCHANGED << runs, output, issued, env >>

\* run_leased_stage is called.  A claimed analysis passes the time it was
\* claimed at, a task the time it starts at.  A stage command exists only once
\* the analysis has left QUEUED.
Call(w, s) ==
  /\ pc[w] \in {"idle", "claimed"}
  /\ analysis # "QUEUED"
  /\ Step(w, "check",
          [NoFrame EXCEPT !.stage = s,
                          !.moment = IF pc[w] = "claimed" THEN local[w].moment ELSE clock])
  /\ UNCHANGED << tables, issued, env >>

\* The caller sees CANCEL_REQUESTED and calls honor_cancel itself.
CallHonor(w) ==
  /\ pc[w] \in {"idle", "claimed"}
  /\ analysis = "CANCEL_REQUESTED"
  /\ Honor(w)
  /\ UNCHANGED << tables, issued, env >>

\* Deviation: the poll worker goes on after a lease it did not get.
ProceedWithoutLease(w) ==
  /\ pc[w] = "done"
  /\ local[w].outcome \in {"SUCCEEDED", "SKIPPED", "LEASE_LOST"}
  /\ Step(w, "claimed", [NoFrame EXCEPT !.moment = clock])
  /\ UNCHANGED << tables, issued, env >>

\* The poll worker goes on to its next stage and captures the time for it.
Proceed(w) ==
  /\ pc[w] = "done"
  /\ local[w].outcome \in {"SUCCEEDED", "SKIPPED"}
  /\ Step(w, "claimed", [NoFrame EXCEPT !.moment = clock])
  /\ UNCHANGED << tables, issued, env >>

\* The caller catches the IngestError and fails the analysis.
FailAnalysis(w) ==
  /\ pc[w] = "done"
  /\ local[w].outcome = "ERROR"
  /\ analysis' = SetAnalysisState(analysis, "RUNNING", "FAILED")
  /\ Step(w, "idle", NoFrame)
  /\ UNCHANGED << runs, output, issued, env >>

\* The caller has nothing left to do.
Return(w) ==
  /\ pc[w] \in {"done", "claimed"}
  /\ Step(w, "idle", NoFrame)
  /\ UNCHANGED << tables, issued, env >>

-----------------------------------------------------------------------------
(* _run_leased_stage, one transaction at a time.                           *)

\* should_cancel: read the analysis row.
Check(w) ==
  /\ pc[w] = "check"
  /\ IF analysis = "CANCEL_REQUESTED" THEN Honor(w) ELSE Goto(w, "look")
  /\ UNCHANGED << tables, issued, env >>

\* list_stage_runs: skip a stage whose latest attempt has succeeded.
Look(w) ==
  /\ pc[w] = "look"
  /\ IF LatestState(runs[local[w].stage]) = "SUCCEEDED"
     THEN Finish(w, "SKIPPED")
     ELSE Goto(w, "acquire")
  /\ UNCHANGED << tables, issued, env >>

\* acquire_stage finds a claimable row: a fresh token, and an expiry counted
\* from the time the caller captured.
Acquire(w) ==
  LET s == local[w].stage  t == local[w].moment + TTL IN
  /\ pc[w] = "acquire"
  /\ issued < MaxTokens
  /\ \E i \in 1..Len(runs[s]) :
       /\ IsCandidate(runs[s], i, local[w].moment)
       /\ runs' = WithRow(s, i, LeasedRow(issued + 1, t))
       /\ Step(w, "start", [local[w] EXCEPT !.attempt = i,
                                            !.token = issued + 1,
                                            !.expires = t])
  /\ issued' = issued + 1
  /\ UNCHANGED << analysis, output, env >>

\* acquire_stage finds none.
AcquireNone(w) ==
  /\ pc[w] = "acquire"
  /\ \A i \in 1..Len(runs[local[w].stage]) :
       ~Claimable(runs[local[w].stage][i], local[w].moment)
  /\ Step(w, "refused", NoFrame)
  /\ UNCHANGED << tables, issued, env >>

\* No lease: the analysis is failed, whoever is running the stage.
Refuse(w) ==
  /\ pc[w] = "refused"
  /\ analysis' = SetAnalysisState(analysis, "RUNNING", "FAILED")
  /\ Finish(w, "LEASE_LOST")
  /\ UNCHANGED << runs, output, issued, env >>

\* start_stage: LEASED -> RUNNING under the token.
StartStage(w) ==
  /\ pc[w] = "start"
  /\ IF HoldsRow(LeasedBy(w), local[w].token, "LEASED")
     THEN /\ runs' = WithRow(local[w].stage, local[w].attempt,
                             [LeasedBy(w) EXCEPT !.state = "RUNNING"])
          /\ Goto(w, "work")
     ELSE /\ runs' = runs
          /\ Finish(w, "LEASE_LOST")
  /\ UNCHANGED << analysis, output, issued, env >>

\* The stages whose artifacts a stage's work writes, in order: the report runs
\* sampling once more before it writes its own.
Writes(s) ==
  CASE s = "sampling" -> << "sampling" >>
    [] s = "report"   -> << "sampling", "report" >>
    [] OTHER          -> << >>

\* The artifacts of one of them replace the ones under its storage keys.
WriteOutput(w) ==
  LET n == local[w].written + 1 IN
  /\ pc[w] = "work"
  /\ n \in 1..Len(Writes(local[w].stage))
  /\ output' = [output EXCEPT ![Writes(local[w].stage)[n]] = local[w].token]
  /\ Step(w, "work", [local[w] EXCEPT !.written = n])
  /\ UNCHANGED << analysis, runs, issued, env >>

\* Sampling or report work ends, with all of its artifacts written.
WorkDone(w) ==
  /\ pc[w] = "work"
  /\ local[w].stage # "aggregate"
  /\ local[w].written = Len(Writes(local[w].stage))
  /\ Step(w, "heartbeat", [local[w] EXCEPT !.written = 0])
  /\ UNCHANGED << tables, issued, env >>

\* Sampling or report work raises a retryable or a final IngestError, whatever it
\* has written.
WorkFails(w) ==
  /\ pc[w] = "work"
  /\ local[w].stage # "aggregate"
  /\ \E e \in {"retryable", "terminal"} :
       Step(w, "fail", [local[w] EXCEPT !.error = e, !.written = 0])
  /\ UNCHANGED << tables, issued, env >>

\* The cancel hook inside sampling or report work sees CANCEL_REQUESTED.  It is not
\* called again once the work has come to its last artifacts.
WorkCanceled(w) ==
  /\ pc[w] = "work"
  /\ local[w].written < Len(Writes(local[w].stage))
  /\ analysis = "CANCEL_REQUESTED"
  /\ Honor(w)
  /\ UNCHANGED << tables, issued, env >>

\* decide_analysis_outcome: FAILED unless both required stages succeeded in
\* their latest attempt; the availability of the optional pillars chooses
\* between SUCCEEDED and PARTIAL.
Outcomes ==
  IF LatestState(runs["sampling"]) = "SUCCEEDED" /\ LatestState(runs["report"]) = "SUCCEEDED"
  THEN {"SUCCEEDED", "PARTIAL"}
  ELSE {"FAILED"}

\* Aggregate work, up to its decision: a missing report artifact fails the
\* analysis, otherwise the stage rows and the report decide.
Decide(w) ==
  /\ pc[w] = "work"
  /\ local[w].stage = "aggregate"
  /\ \E v \in IF output["report"] = NoToken THEN {"FAILED"} ELSE Outcomes :
       Step(w, "settle", [local[w] EXCEPT !.verdict = v])
  /\ UNCHANGED << tables, issued, env >>

\* Aggregate work ends with the compare-and-set of the analysis, result unread.
Settle(w) ==
  /\ pc[w] = "settle"
  /\ analysis' = SetAnalysisState(analysis, "RUNNING", local[w].verdict)
  /\ Goto(w, "heartbeat")
  /\ UNCHANGED << runs, output, issued, env >>

\* heartbeat_stage, once, after the work; its result is not read.
Heartbeat(w) ==
  LET t == clock + TTL IN
  /\ pc[w] = "heartbeat"
  /\ IF MayExtend(LeasedBy(w), local[w].token)
     THEN /\ runs' = WithRow(local[w].stage, local[w].attempt,
                             [LeasedBy(w) EXCEPT !.expires = t])
          /\ Step(w, "complete", [local[w] EXCEPT !.expires = t])
     ELSE /\ runs' = runs
          /\ Goto(w, "complete")
  /\ UNCHANGED << analysis, output, issued, env >>

\* complete_stage: RUNNING -> SUCCEEDED under the token, unless the unique
\* index refuses a second success, which surfaces as an AdapterError.
Complete(w) ==
  /\ pc[w] = "complete"
  /\ IF ~HoldsRow(LeasedBy(w), local[w].token, "RUNNING")
     THEN runs' = runs /\ Finish(w, "LEASE_LOST")
     ELSE IF IndexRefuses(runs[local[w].stage], local[w].attempt)
     THEN runs' = runs /\ Finish(w, "RAISED")
     ELSE /\ runs' = WithRow(local[w].stage, local[w].attempt,
                             [LeasedBy(w) EXCEPT !.state = "SUCCEEDED", !.token = NoToken])
          /\ Finish(w, "SUCCEEDED")
  /\ UNCHANGED << analysis, output, issued, env >>

\* Deviation: one attempt more than the cap.
IsFinalPastCap(w) == local[w].error = "terminal" \/ local[w].attempt > MaxAttempts

\* A failure is final when its error is, or at the attempt cap.
IsFinal(w) == local[w].error = "terminal" \/ local[w].attempt >= MaxAttempts

\* fail_stage under the token, result unread; then a retry attempt, the failure
\* of the analysis, or the error alone.
Fail(w) ==
  /\ pc[w] = "fail"
  /\ runs' = IF HoldsRow(LeasedBy(w), local[w].token, "RUNNING")
             THEN WithRow(local[w].stage, local[w].attempt,
                          [LeasedBy(w) EXCEPT
                             !.state = IF IsFinal(w) THEN "FAILED_TERMINAL"
                                       ELSE "FAILED_RETRYABLE",
                             !.token = NoToken])
             ELSE runs
  /\ IF ~IsFinal(w) THEN Goto(w, "retry_read")
     ELSE IF local[w].error = "retryable" THEN Step(w, "fail_job", NoFrame)
     ELSE Finish(w, "ERROR")
  /\ UNCHANGED << analysis, output, issued, env >>

\* insert_retry_attempt reads the highest attempt number ...
RetryRead(w) ==
  /\ pc[w] = "retry_read"
  /\ Step(w, "retry_insert", [local[w] EXCEPT !.next = Len(runs[local[w].stage]) + 1])
  /\ UNCHANGED << tables, issued, env >>

\* ... and inserts the next one as PENDING; another insert in between makes the
\* unique constraint refuse it.
RetryInsert(w) ==
  LET s == local[w].stage IN
  /\ pc[w] = "retry_insert"
  /\ IF local[w].next = Len(runs[s]) + 1
     THEN /\ runs' = [runs EXCEPT ![s] = Append(@, PendingRow)]
          /\ Finish(w, "ERROR")
     ELSE /\ runs' = runs
          /\ Finish(w, "RAISED")
  /\ UNCHANGED << analysis, output, issued, env >>

\* The attempt cap is reached on a retryable error: the analysis is failed.
FailJob(w) ==
  /\ pc[w] = "fail_job"
  /\ analysis' = SetAnalysisState(analysis, "RUNNING", "FAILED")
  /\ Finish(w, "ERROR")
  /\ UNCHANGED << runs, output, issued, env >>

-----------------------------------------------------------------------------
(* honor_cancel.                                                           *)

\* list_stage_runs: the attempts that are still active.
HonorList(w) ==
  /\ pc[w] = "hc_list"
  /\ Step(w, "hc_cancel",
          [NoFrame EXCEPT !.todo =
             UNION {{<< s, i >> : i \in {j \in 1..Len(runs[s]) : Cancelable(runs[s][j])}}
                      : s \in StageName}])
  /\ UNCHANGED << tables, issued, env >>

\* cancel_stage on one of them; the order of the list is left open.
HonorCancel(w) ==
  /\ pc[w] = "hc_cancel"
  /\ \E p \in local[w].todo :
       /\ runs' = IF Cancelable(runs[p[1]][p[2]])
                  THEN WithRow(p[1], p[2], CanceledRow(runs[p[1]][p[2]]))
                  ELSE runs
       /\ Step(w, "hc_cancel", [local[w] EXCEPT !.todo = @ \ {p}])
  /\ UNCHANGED << analysis, output, issued, env >>

\* The two compare-and-sets that end honor_cancel.  The first changes nothing
\* unless the row is RUNNING, so the pair is taken as one step.
HonorFinish(w) ==
  /\ pc[w] = "hc_cancel"
  /\ local[w].todo = {}
  /\ analysis' = SetAnalysisState(SetAnalysisState(analysis, "RUNNING", "CANCEL_REQUESTED"),
                                  "CANCEL_REQUESTED", "CANCELED")
  /\ Finish(w, "CANCELED")
  /\ UNCHANGED << runs, output, issued, env >>

-----------------------------------------------------------------------------
(* The environment: clients, time, failures.                               *)

\* request_cancel reads the row, without a lock ...
CancelRead ==
  /\ seen = "none"
  /\ cancels < MaxCancels
  /\ seen' = analysis
  /\ cancels' = cancels + 1
  /\ UNCHANGED << tables, issued, pc, local, clock, faults >>

\* ... and writes what that state calls for, whatever the row now holds.
CancelWrite ==
  /\ seen # "none"
  /\ analysis' = IF CancelTarget(seen) = "KEEP" THEN analysis ELSE CancelTarget(seen)
  /\ seen' = "none"
  /\ UNCHANGED << runs, output, issued, pc, local, clock, cancels, faults >>

\* Time passes.  Without Overrun it waits for the workers whose lease would
\* expire: the lease is longer than the work it covers.
Tick ==
  /\ clock < MaxTime
  /\ Overrun \/ \A w \in Worker :
       /\ pc[w] \in PreparePc => clock < local[w].moment + TTL
       /\ pc[w] \in HoldPc => clock < local[w].expires
  /\ clock' = clock + 1
  /\ UNCHANGED << tables, issued, pc, local, seen, cancels, faults >>

\* A worker dies, wherever it is, and comes back knowing nothing.
Crash(w) ==
  /\ faults < MaxFaults
  /\ Step(w, "idle", NoFrame)
  /\ faults' = faults + 1
  /\ UNCHANGED << tables, issued, clock, seen, cancels >>

\* A repository call raises an AdapterError, or the work something that is not an
\* IngestError: nothing on this path catches either (the AdapterErrors that the work
\* of sampling and report meets are wrapped: WorkFails).
Raise(w) ==
  /\ pc[w] \in Pc \ {"idle", "done", "claimed"}
  /\ faults < MaxFaults
  /\ Finish(w, "RAISED")
  /\ faults' = faults + 1
  /\ UNCHANGED << tables, issued, clock, seen, cancels >>

\* The report's artifact row is there but the file cannot be read or parsed:
\* persist_report_outcome catches it and fails the analysis.
Unreadable(w) ==
  /\ pc[w] = "work"
  /\ local[w].stage = "aggregate"
  /\ output["report"] # NoToken
  /\ faults < MaxFaults
  /\ Step(w, "settle", [local[w] EXCEPT !.verdict = "FAILED"])
  /\ faults' = faults + 1
  /\ UNCHANGED << tables, issued, clock, seen, cancels >>

-----------------------------------------------------------------------------
WorkerStep(w) ==
  \/ ClaimQueued(w) \/ CallHonor(w) \/ Proceed(w) \/ FailAnalysis(w) \/ Return(w)
  \/ \E s \in Stages : Call(w, s)
  \/ Check(w) \/ Look(w) \/ Acquire(w) \/ AcquireNone(w) \/ Refuse(w) \/ StartStage(w)
  \/ WriteOutput(w) \/ WorkDone(w) \/ WorkFails(w) \/ WorkCanceled(w) \/ Decide(w) \/ Settle(w)
  \/ Heartbeat(w) \/ Complete(w) \/ Fail(w) \/ RetryRead(w) \/ RetryInsert(w) \/ FailJob(w)
  \/ HonorList(w) \/ HonorCancel(w) \/ HonorFinish(w)

Fault(w) == Crash(w) \/ Raise(w) \/ Unreadable(w)

Next ==
  \/ StartAnalysis \/ CancelRead \/ CancelWrite \/ Tick
  \/ \E w \in Worker : WorkerStep(w) \/ Fault(w)

Spec == Init /\ [][Next]_vars

-----------------------------------------------------------------------------
TypeOK ==
  /\ analysis \in AnalysisState
  /\ runs \in [StageName -> Seq(StageRunRow)]
  /\ output \in [StageName -> Nat]
  /\ clock \in Nat
  /\ issued \in Nat
  /\ pc \in [Worker -> Pc]
  /\ local \in [Worker -> Frame]
  /\ seen \in AnalysisState \cup {"none"}
  /\ cancels \in Nat
  /\ faults \in Nat

\* A lease is honored until it expires (acquire_stage, _cas_stage,
\* heartbeat_stage): while the expiry a worker was granted has not passed, the
\* row carries that worker's token and the state its next compare-and-set
\* expects, unless a cancel has closed the attempt.
LeaseHonored ==
  \A w \in Worker :
    pc[w] \in HoldPc /\ clock <= local[w].expires =>
      \/ /\ LeasedBy(w).token = local[w].token
         /\ LeasedBy(w).state = IF pc[w] = "start" THEN "LEASED" ELSE "RUNNING"
      \/ LeasedBy(w).state = "CANCELED"

Succeeded(s) == \E i \in 1..Len(runs[s]) : runs[s][i].state = "SUCCEEDED"

\* Whoever aggregates, and whatever stale workers, cancels and retries did before or do later,
\* an analysis ends SUCCEEDED or PARTIAL only over a report that was written and
\* required stages that have succeeded (decide_analysis_outcome,
\* persist_report_outcome): what GET report serves exists.
SuccessHasResults ==
  analysis \in {"SUCCEEDED", "PARTIAL"} =>
    /\ output["report"] # NoToken
    /\ \A s \in {"sampling", "report"} : Succeeded(s)

\* The ledger the rows stand for: which attempts exist, and how the ended ones
\* ended.  Leases, workers and time are hidden.
Opened == UNION {{<< s, i >> : i \in 1..Len(runs[s])} : s \in StageName}
Closed ==
  UNION {{<< s, i, runs[s][i].state >> :
            i \in {j \in 1..Len(runs[s]) : stage_is_terminal(runs[s][j].state)}} : s \in StageName}
ClosingState == {s \in StageState : stage_is_terminal(s)}

Ledger == INSTANCE StageLedger
            WITH Stage <- StageName, Closing <- ClosingState,
                 opened <- Opened, closed <- Closed

\* Through stale workers, reclaimed leases, late cancels and crashes, the rows
\* stay a write-once ledger: no attempt is lost or reopened, and no stage
\* succeeds twice (the repository behind run_leased_stage and honor_cancel).
KeepsLedger == Ledger!Spec

\* A cancel that was accepted is never lost: no worker that claims, completes,
\* fails or aggregates afterwards, on whatever it has read before, makes the
\* analysis run again or gives it a result (request_cancel, set_analysis_state,
\* claim_queued, honor_cancel).
Withdrawn == {"CANCEL_REQUESTED", "CANCELED"}
CancelKept == analysis \in Withdrawn => analysis' \in Withdrawn

CancelStands == [][CancelKept]_vars

-----------------------------------------------------------------------------
(* What holds when no work outlasts its lease (Overrun = FALSE).           *)

\* One worker at a time runs a stage or allocates its retry, through crashes,
\* reclaimed leases, cancels and retries.
WorkExclusive ==
  \A w, v \in Worker :
    pc[w] \in BusyPc /\ pc[v] \in BusyPc /\ local[w].stage = local[v].stage => w = v

\* Every attempt but the latest has failed retryably or was canceled, and there
\* are no more attempts than stage_retry_max_attempts.
RetriesInOrder ==
  \A s \in StageName :
    /\ \A i \in 1..Len(runs[s]) - 1 : runs[s][i].state \in {"FAILED_RETRYABLE", "CANCELED"}
    /\ Len(runs[s]) <= MaxAttempts

\* Once every stage that writes some artifacts has succeeded, they are the ones the
\* successful attempts left: a stale worker cannot replace them.
Writers(s) == {t \in StageName : \E n \in 1..Len(Writes(t)) : Writes(t)[n] = s}

OutputSettled ==
  \A s \in StageName :
    (\A t \in Writers(s) : Succeeded(t)) => output'[s] = output[s]

StaleOutputIsOrphan == [][OutputSettled]_vars

-----------------------------------------------------------------------------
(* What the callers add: each runs the stages in the pipeline's order.      *)

\* No worker leases, works on or retries a stage before every earlier stage of
\* the pipeline has succeeded, however often the work is redelivered, reclaimed
\* or taken over (process_once, next_runnable_stage).
StagesInOrder ==
  \A w \in Worker : \A i, j \in 1..Len(PIPELINE_STAGES) :
    pc[w] \in BusyPc /\ local[w].stage = PIPELINE_STAGES[j] /\ i < j =>
      Succeeded(PIPELINE_STAGES[i])

=============================================================================
