--------------------------- MODULE CeleryDispatch ---------------------------
(***************************************************************************)
(* The Celery tasks (worker/dispatch.py) over a broker that delivers each  *)
(* command at least once.  A task is acknowledged when it returns or when  *)
(* it raises (task_acks_late, task_acks_on_failure_or_timeout), and goes   *)
(* back to the queue when its worker is lost.  run_leased_stage and        *)
(* honor_cancel are StageExecute's; this module adds the queue and what a  *)
(* task does around them.                                                  *)
(***************************************************************************)
EXTENDS StageExecute

CONSTANT MaxCopies  \* bound on the extra copies of commands

ASSUME MaxCopiesAssumption == MaxCopies \in Nat
ASSUME CeleryStagesAssumption == Stages = StageName  \* every stage has a command

VARIABLES
  queue,  \* how many copies of each command the broker holds
  task,   \* the command each worker has taken and not acknowledged
  copies  \* extra copies so far

celeryVars == << vars, queue, task, copies >>

Command == {"orchestrate"} \cup StageName

\* Where a task is: the steps of execute_orchestrate, the stage task before and
\* after run_leased_stage, and the point where only the acknowledgement is left.
TaskPc == {"load", "claim", "reload", "check", "next", "stage", "call", "follow", "fail", "ack"}

NoTask == [cmd |-> "none", at |-> "none", state |-> "none"]
Task == [cmd : Command, at : TaskPc, state : AnalysisState \cup {"none"}] \cup {NoTask}

\* create_analysis has enqueued the orchestrate command.
CeleryInit ==
  /\ Init
  /\ queue = [c \in Command |-> IF c = "orchestrate" THEN 1 ELSE 0]
  /\ task = [w \in Worker |-> NoTask]
  /\ copies = 0

-----------------------------------------------------------------------------
Sent(c) == [queue EXCEPT ![c] = @ + 1]

At(w, point) == task' = [task EXCEPT ![w].at = point]

\* A step that leaves the rows and the shared path alone.
Outside == UNCHANGED vars
KeepQueue == UNCHANGED << queue, copies >>

\* The stage has nothing left to do in the latest attempt rows.
Passed(s) == LatestState(runs[s]) \in {"SUCCEEDED", "SKIPPED"}

\* Deviation: the schedule skips a stage that another worker has in flight.
next_stage_past_inflight ==
  LET open == {n \in 1..Len(PIPELINE_STAGES) :
                 LatestState(runs[PIPELINE_STAGES[n]]) \in {"MISSING", "PENDING", "FAILED_RETRYABLE"}}
  IN IF open = {} THEN "none"
     ELSE PIPELINE_STAGES[CHOOSE n \in open : \A m \in open : n <= m]

\* The first stage that has not passed, if it is missing, pending or retryable;
\* a stage in flight or failed for good stops the pipeline.
next_runnable_stage ==
  LET open == {n \in 1..Len(PIPELINE_STAGES) : ~Passed(PIPELINE_STAGES[n])}
      first == PIPELINE_STAGES[CHOOSE n \in open : \A m \in open : n <= m]
  IN IF open # {} /\ LatestState(runs[first]) \in {"MISSING", "PENDING", "FAILED_RETRYABLE"}
     THEN first ELSE "none"

\* Send the command of the next stage, if there is one.
SendNext ==
  queue' = IF next_runnable_stage = "none" THEN queue ELSE Sent(next_runnable_stage)

-----------------------------------------------------------------------------
\* The broker hands a command to a free worker.
Receive(w, c) ==
  /\ task[w] = NoTask /\ queue[c] > 0
  /\ queue' = [queue EXCEPT ![c] = @ - 1]
  /\ task' = [task EXCEPT ![w] =
       [cmd |-> c, at |-> IF c = "orchestrate" THEN "load" ELSE "stage", state |-> "none"]]
  /\ copies' = copies
  /\ Outside

\* The task is over and acknowledged.
Ack(w) ==
  /\ task[w].at = "ack"
  /\ task' = [task EXCEPT ![w] = NoTask]
  /\ KeepQueue /\ Outside

-----------------------------------------------------------------------------
(* execute_orchestrate.                                                    *)

\* load_job.
OrchestrateLoad(w) ==
  /\ task[w].at \in {"load", "reload"}
  /\ task' = [task EXCEPT ![w].at = IF task[w].at = "load" /\ analysis = "QUEUED"
                                    THEN "claim" ELSE "check",
                          ![w].state = analysis]
  /\ KeepQueue /\ Outside

\* The compare-and-set QUEUED -> RUNNING; the row is then read again.
OrchestrateClaim(w) ==
  /\ task[w].at = "claim"
  /\ analysis' = SetAnalysisState(analysis, "QUEUED", "RUNNING")
  /\ At(w, "reload")
  /\ KeepQueue /\ UNCHANGED << runs, output, issued, pc, local, env >>

\* should_cancel reads the row afresh; the terminal test looks at the row loaded.
OrchestrateCheck(w) ==
  /\ task[w].at = "check"
  /\ IF analysis = "CANCEL_REQUESTED"
     THEN CallHonor(w) /\ At(w, "call")
     ELSE /\ At(w, IF analysis_is_terminal(task[w].state) THEN "ack" ELSE "next")
          /\ Outside
  /\ KeepQueue

\* list_stage_runs, next_runnable_stage and _send; the same for _enqueue_next.
OrchestrateNext(w) ==
  /\ task[w].at \in {"next", "follow"}
  /\ SendNext
  /\ At(w, "ack")
  /\ copies' = copies
  /\ Outside

-----------------------------------------------------------------------------
(* execute_stage_payload.                                                  *)

\* should_cancel, then honor_cancel or run_leased_stage.
StageTask(w) ==
  /\ task[w].at = "stage"
  /\ IF analysis = "CANCEL_REQUESTED" THEN CallHonor(w) ELSE Call(w, task[w].cmd)
  /\ At(w, "call")
  /\ KeepQueue

\* Inside run_leased_stage or honor_cancel.
StageStep(w) ==
  /\ task[w].at = "call"
  /\ \/ Check(w) \/ Look(w) \/ Acquire(w) \/ AcquireNone(w) \/ Refuse(w) \/ StartStage(w)
     \/ WriteOutput(w) \/ WorkDone(w) \/ WorkFails(w) \/ WorkCanceled(w) \/ Decide(w) \/ Settle(w)
     \/ Heartbeat(w) \/ Complete(w) \/ Fail(w) \/ RetryRead(w) \/ RetryInsert(w) \/ FailJob(w)
     \/ HonorList(w) \/ HonorCancel(w) \/ HonorFinish(w)
  /\ task' = task /\ KeepQueue

\* Only a success enqueues the next stage; a skipped, canceled or lost one does not.
StageReturned(w) ==
  /\ task[w].at = "call"
  /\ pc[w] = "done" /\ local[w].outcome \in {"SUCCEEDED", "SKIPPED", "CANCELED", "LEASE_LOST"}
  /\ Return(w)
  /\ At(w, IF local[w].outcome = "SUCCEEDED" THEN "follow" ELSE "ack")
  /\ KeepQueue

\* Deviation: a stage that raised leaves the analysis to its retry, sent or not.
ResendNothing(w) ==
  /\ task[w].at = "call"
  /\ pc[w] = "done" /\ local[w].outcome = "ERROR"
  /\ Return(w)
  /\ At(w, "ack")
  /\ KeepQueue

\* _handle_stage_error: any retryable attempt of the stage, the newest or not,
\* sends the stage's command again.
ResendStage(w) ==
  /\ task[w].at = "call"
  /\ pc[w] = "done" /\ local[w].outcome = "ERROR"
  /\ IF \E i \in 1..Len(runs[task[w].cmd]) : runs[task[w].cmd][i].state = "FAILED_RETRYABLE"
     THEN Return(w) /\ queue' = Sent(task[w].cmd) /\ At(w, "ack")
     ELSE Outside /\ queue' = queue /\ At(w, "fail")
  /\ copies' = copies

\* _handle_stage_error: none; the analysis is failed.
FailTask(w) ==
  /\ task[w].at = "fail"
  /\ FailAnalysis(w)
  /\ At(w, "ack")
  /\ KeepQueue

-----------------------------------------------------------------------------
(* Delivery and failure.                                                   *)

\* An AdapterError leaves run_leased_stage and the task: Celery acknowledges the
\* command of a task that raised, and it is gone.
TaskRaised(w) ==
  /\ task[w].at = "call"
  /\ pc[w] = "done" /\ local[w].outcome = "RAISED"
  /\ Return(w)
  /\ task' = [task EXCEPT ![w] = NoTask]
  /\ KeepQueue

\* The worker is lost, and the command goes back.
LoseWorker(w) ==
  /\ task[w] # NoTask
  /\ Crash(w)
  /\ queue' = Sent(task[w].cmd)
  /\ task' = [task EXCEPT ![w] = NoTask]
  /\ copies' = copies

\* An AdapterError outside run_leased_stage: the same, without the command.
TaskError(w) ==
  /\ task[w].at \in TaskPc \ {"call", "ack"}
  /\ Crash(w)
  /\ task' = [task EXCEPT ![w] = NoTask]
  /\ KeepQueue

\* A fault inside run_leased_stage or honor_cancel.
CallFault(w) ==
  /\ task[w].at = "call"
  /\ Raise(w) \/ Unreadable(w)
  /\ task' = task /\ KeepQueue

\* A second copy: the visibility timeout of an unacknowledged command, or another
\* POST that saw the analysis QUEUED.
Duplicate(c) ==
  /\ copies < MaxCopies
  /\ c = "orchestrate" \/ \E w \in Worker : task[w].cmd = c
  /\ queue' = Sent(c)
  /\ copies' = copies + 1
  /\ task' = task
  /\ Outside

-----------------------------------------------------------------------------
TaskStep(w) ==
  \/ Ack(w) \/ OrchestrateLoad(w) \/ OrchestrateClaim(w) \/ OrchestrateCheck(w)
  \/ OrchestrateNext(w) \/ StageTask(w) \/ StageStep(w) \/ StageReturned(w)
  \/ ResendStage(w) \/ FailTask(w) \/ TaskRaised(w)

Environment == (CancelRead \/ CancelWrite \/ Tick) /\ UNCHANGED << queue, task, copies >>

\* What happens while the database and the files answer.
Answered ==
  \/ Environment
  \/ \E c \in Command : Duplicate(c)
  \/ \E w \in Worker :
       \/ TaskStep(w) \/ LoseWorker(w)
       \/ \E c \in Command : Receive(w, c)

CeleryNext == Answered \/ \E w \in Worker : TaskError(w) \/ CallFault(w)

\* A task that can take a step takes one, and a command in the queue is delivered
\* in the end.  Nothing is assumed of faults, copies, clients or time.
Fairness ==
  /\ \A w \in Worker : WF_celeryVars(TaskStep(w))
  /\ \A c \in Command : WF_celeryVars(\E w \in Worker : Receive(w, c))

CelerySpec == CeleryInit /\ [][CeleryNext]_celeryVars /\ Fairness

\* The same where the only faults are lost workers.
WorkerLossSpec == CeleryInit /\ [][Answered]_celeryVars /\ Fairness

-----------------------------------------------------------------------------
CeleryTypeOK ==
  /\ queue \in [Command -> Nat]
  /\ task \in [Worker -> Task]
  /\ copies \in Nat
  /\ \A w \in Worker : task[w] = NoTask => pc[w] = "idle"

\* Whatever the deliveries, a stage command is in the queue or in a worker's hands
\* only once every earlier stage has succeeded in the rows (next_runnable_stage).
CommandsInOrder ==
  \A i, j \in 1..Len(PIPELINE_STAGES) :
    LET c == PIPELINE_STAGES[j]
    IN i < j /\ (queue[c] > 0 \/ \E w \in Worker : task[w].cmd = c) =>
         Succeeded(PIPELINE_STAGES[i])

\* A RUNNING analysis reaches another state: it resumes after a worker's loss, or
\* its failure is reported.
RunningSettles == analysis = "RUNNING" ~> analysis # "RUNNING"

\* A delivery never fails an analysis whose sampling or report attempt is running
\* under a lease that has not expired.
RunningWorkStands ==
  [][analysis # "FAILED" /\ analysis' = "FAILED" =>
       \A s \in {"sampling", "report"} : \A i \in 1..Len(runs[s]) :
         ~(runs[s][i].state = "RUNNING" /\ runs[s][i].expires >= clock)]_celeryVars

=============================================================================
