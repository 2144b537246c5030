------------------------ MODULE CeleryDispatch_proofs ------------------------
(***************************************************************************)
(* The Celery tasks only ever take steps of the shared stage path, so what *)
(* is proved of StageExecute holds of them; and their commands are sent in *)
(* the order of the pipeline.                                              *)
(***************************************************************************)
EXTENDS CeleryDispatch, StageLease_proofs

USE DEF tables, env

\* A task outside the shared path leaves its worker idle there, and a stage task
\* carries the command of a stage.
TaskInv ==
  /\ queue \in [Command -> Nat]
  /\ task \in [Worker -> Task]
  /\ copies \in Nat
  /\ \A w \in Worker :
       /\ task[w].at \notin {"call", "fail"} => pc[w] = "idle"
       /\ task[w].at = "stage" => task[w].cmd \in StageName

LEMMA TaskInvType == TaskInv => CeleryTypeOK
  BY DEF TaskInv, CeleryTypeOK, NoTask

\* A task in progress.
LEMMA TaskType ==
  ASSUME TaskInv, NEW w \in Worker, task[w].at # "none"
  PROVE  /\ task[w] \in [cmd : Command, at : TaskPc, state : AnalysisState \cup {"none"}]
         /\ task[w].cmd \in Command /\ task[w].at \in TaskPc
         /\ task[w].state \in AnalysisState \cup {"none"}
         /\ \A p \in TaskPc : [task[w] EXCEPT !.at = p] \in Task
         /\ \A p \in TaskPc : \A a \in AnalysisState : [task[w] EXCEPT !.at = p, !.state = a] \in Task
  <1>1. task[w] \in Task /\ task[w] # NoTask
    BY DEF TaskInv, NoTask
  <1>2. task[w] \in [cmd : Command, at : TaskPc, state : AnalysisState \cup {"none"}]
    BY <1>1 DEF Task
  <1> QED
    BY <1>2 DEF Task

LEMMA SentType ==
  ASSUME TaskInv, NEW c
  PROVE  Sent(c) \in [Command -> Nat]
  <1>1. queue \in [Command -> Nat]
    BY DEF TaskInv
  <1>2. Sent(c) = [d \in Command |-> IF d = c THEN queue[d] + 1 ELSE queue[d]]
    BY <1>1 DEF Sent
  <1>3. \A d \in Command : queue[d] \in Nat /\ queue[d] + 1 \in Nat
    BY <1>1
  <1> QED
    BY <1>2, <1>3

\* What a step of one task has to show.
LEMMA TaskMoved ==
  ASSUME TaskInv, TypeInv, NEW w \in Worker, NEW t \in Task, task' = [task EXCEPT ![w] = t],
         queue' \in [Command -> Nat], copies' = copies,
         \A v \in Worker \ {w} : pc'[v] = pc[v],
         t.at \notin {"call", "fail"} => pc'[w] = "idle",
         t.at = "stage" => t.cmd \in StageName
  PROVE  TaskInv'
  BY DEF TaskInv

\* A step of one worker of the shared path, as seen from its task.
LEMMA PathMoves ==
  ASSUME TypeInv, NEW w \in Worker, NEW label, NEW frame, Step(w, label, frame)
  PROVE  pc'[w] = label /\ \A v \in Worker \ {w} : pc'[v] = pc[v]
  BY DEF Step, TypeInv, TypeOK

-----------------------------------------------------------------------------
(* Every step is one of StageExecute, and keeps TaskInv.                   *)

\* The broker hands a command over, or copies one.
LEMMA DeliverySteps ==
  ASSUME TypeInv, TaskInv,
         \/ \E w \in Worker : \E c \in Command : Receive(w, c)
         \/ \E c \in Command : Duplicate(c)
  PROVE  UNCHANGED vars /\ TaskInv'
  <1>1. ASSUME NEW c \in Command, Duplicate(c) PROVE UNCHANGED vars /\ TaskInv'
    <2>1. UNCHANGED << vars, task >> /\ queue' = Sent(c) /\ copies' \in Nat
      BY <1>1 DEF Duplicate, Outside, TaskInv
    <2> QED
      BY <2>1, SentType DEF TaskInv, vars
  <1>2. ASSUME NEW w \in Worker, NEW c \in Command, Receive(w, c) PROVE UNCHANGED vars /\ TaskInv'
    <2> DEFINE t == [cmd |-> c, at |-> IF c = "orchestrate" THEN "load" ELSE "stage",
                     state |-> "none"]
    <2>1. /\ UNCHANGED vars /\ task' = [task EXCEPT ![w] = t] /\ copies' = copies
          /\ queue' = [queue EXCEPT ![c] = @ - 1] /\ queue[c] > 0 /\ task[w] = NoTask
      BY <1>2 DEF Receive, Outside
    <2>2. t \in Task /\ (t.at = "stage" => t.cmd \in StageName) /\ t.at \notin {"call", "fail"}
      BY DEF Task, TaskPc, Command
    <2>3. queue' \in [Command -> Nat]
      BY <2>1 DEF TaskInv
    <2>4. pc' = pc /\ pc[w] = "idle"
      BY <2>1 DEF vars, TaskInv, NoTask
    <2> HIDE DEF t
    <2> QED
      BY <2>1, <2>2, <2>3, <2>4, TaskMoved
  <1> QED
    BY <1>1, <1>2

\* execute_orchestrate.
LEMMA OrchestrateSteps ==
  ASSUME TypeInv, TaskInv, NEW w \in Worker,
         \/ Ack(w) \/ OrchestrateLoad(w) \/ OrchestrateClaim(w) \/ OrchestrateCheck(w)
         \/ OrchestrateNext(w)
  PROVE  [Next]_vars /\ TaskInv'
  <1>0. queue \in [Command -> Nat] /\ NoTask \in Task /\ NoTask.at = "none" /\ analysis \in AnalysisState
    BY DEF TaskInv, Task, NoTask, TypeInv, TypeOK
  <1>1. task[w].at \in {"ack", "load", "reload", "claim", "check", "next", "follow"}
    BY DEF Ack, OrchestrateLoad, OrchestrateClaim, OrchestrateCheck, OrchestrateNext
  <1>2. pc[w] = "idle" /\ \A p \in TaskPc : [task[w] EXCEPT !.at = p] \in Task
    BY <1>1, TaskType DEF TaskInv
  <1>3. ASSUME NEW p \in TaskPc \ {"stage"}, At(w, p), queue' \in [Command -> Nat], copies' = copies,
               \A v \in Worker \ {w} : pc'[v] = pc[v], p \notin {"call", "fail"} => pc'[w] = "idle"
        PROVE  TaskInv'
    <2> DEFINE t == [task[w] EXCEPT !.at = p]
    <2>1. t \in Task /\ t.at = p /\ task' = [task EXCEPT ![w] = t]
      BY <1>1, <1>2, <1>3, TaskType DEF At, TaskInv, Task, NoTask
    <2> HIDE DEF t
    <2> QED
      BY <1>3, <2>1, TaskMoved
  <1>4. CASE Ack(w)
    <2>1. UNCHANGED vars /\ task' = [task EXCEPT ![w] = NoTask] /\ UNCHANGED << queue, copies >>
      BY <1>4 DEF Ack, Outside, KeepQueue
    <2>2. pc' = pc
      BY <2>1 DEF vars
    <2> QED
      BY <1>0, <1>2, <2>1, <2>2, TaskMoved
  <1>5. CASE OrchestrateLoad(w)
    <2> DEFINE p == IF task[w].at = "load" /\ analysis = "QUEUED" THEN "claim" ELSE "check"
               t == [task[w] EXCEPT !.at = p, !.state = analysis]
    <2>1. UNCHANGED vars /\ task' = [task EXCEPT ![w].at = p, ![w].state = analysis]
          /\ UNCHANGED << queue, copies >>
      BY <1>5 DEF OrchestrateLoad, Outside, KeepQueue
    <2>2. p \in {"claim", "check"} /\ p \in TaskPc
      BY DEF TaskPc
    <2>3. t \in Task
      BY <1>0, <1>1, <2>2, TaskType
    <2>4. t.at = p
      <3>1. task[w] \in [cmd : Command, at : TaskPc, state : AnalysisState \cup {"none"}]
        BY <1>1, TaskType
      <3> HIDE DEF p
      <3> QED
        BY <3>1
    <2>5. task' = [task EXCEPT ![w] = t]
      BY <2>1 DEF TaskInv
    <2>6. pc' = pc
      BY <2>1 DEF vars
    <2> HIDE DEF t, p
    <2> QED
      BY <1>0, <1>2, <2>1, <2>2, <2>3, <2>4, <2>5, <2>6, TaskMoved
  <1>6. CASE OrchestrateClaim(w)
    <2>1. /\ analysis' = SetAnalysisState(analysis, "QUEUED", "RUNNING") /\ At(w, "reload")
          /\ UNCHANGED << queue, copies, runs, output, issued, pc, local, env >>
      BY <1>6 DEF OrchestrateClaim, KeepQueue
    <2>2. StartAnalysis \/ UNCHANGED vars
      BY <2>1 DEF SetAnalysisState, StartAnalysis, vars
    <2> QED
      BY <1>0, <1>2, <1>3, <2>1, <2>2 DEF Next, TaskPc
  <1>7. CASE OrchestrateCheck(w)
    <2>1. CASE analysis = "CANCEL_REQUESTED"
      <3>1. CallHonor(w) /\ At(w, "call") /\ UNCHANGED << queue, copies >>
        BY <1>7, <2>1 DEF OrchestrateCheck, KeepQueue
      <3>2. \A v \in Worker \ {w} : pc'[v] = pc[v]
        BY <3>1, PathMoves DEF CallHonor, Honor
      <3> QED
        BY <1>0, <1>3, <3>1, <3>2 DEF Next, WorkerStep, TaskPc
    <2>2. CASE analysis # "CANCEL_REQUESTED"
      <3>1. UNCHANGED << vars, queue, copies >> /\ (At(w, "ack") \/ At(w, "next"))
        BY <1>7, <2>2 DEF OrchestrateCheck, KeepQueue, Outside
      <3>2. pc' = pc
        BY <3>1 DEF vars
      <3> QED
        BY <1>0, <1>2, <1>3, <3>1, <3>2 DEF TaskPc
    <2> QED
      BY <2>1, <2>2
  <1>8. CASE OrchestrateNext(w)
    <2>1. UNCHANGED << vars, copies >> /\ At(w, "ack") /\ (queue' = queue \/ \E c : queue' = Sent(c))
      BY <1>8 DEF OrchestrateNext, SendNext, Outside
    <2>2. pc' = pc
      BY <2>1 DEF vars
    <2>3. queue' \in [Command -> Nat]
      BY <1>0, <2>1, SentType
    <2> QED
      BY <1>2, <1>3, <2>1, <2>2, <2>3 DEF TaskPc
  <1> QED
    BY <1>4, <1>5, <1>6, <1>7, <1>8

\* execute_stage_payload.
LEMMA StageTaskSteps ==
  ASSUME TypeInv, TaskInv, NEW w \in Worker,
         \/ StageTask(w) \/ StageStep(w) \/ StageReturned(w) \/ ResendStage(w) \/ FailTask(w)
         \/ TaskRaised(w)
  PROVE  [Next]_vars /\ TaskInv'
  <1>0. queue \in [Command -> Nat] /\ NoTask \in Task /\ NoTask.at = "none"
    BY DEF TaskInv, Task, NoTask
  <1>1. task[w].at \in {"stage", "call", "fail"}
    BY DEF StageTask, StageStep, StageReturned, ResendStage, FailTask, TaskRaised
  <1>3. ASSUME NEW p \in TaskPc \ {"stage"}, At(w, p), queue' \in [Command -> Nat], copies' = copies,
               \A v \in Worker \ {w} : pc'[v] = pc[v], p \notin {"call", "fail"} => pc'[w] = "idle"
        PROVE  TaskInv'
    <2> DEFINE t == [task[w] EXCEPT !.at = p]
    <2>1. t \in Task /\ t.at = p /\ task' = [task EXCEPT ![w] = t]
      BY <1>1, <1>3, TaskType DEF At, TaskInv, Task, NoTask
    <2> HIDE DEF t
    <2> QED
      BY <1>3, <2>1, TaskMoved
  <1>4. CASE StageTask(w)
    <2>1. task[w].cmd \in Stages /\ At(w, "call") /\ UNCHANGED << queue, copies >>
      BY <1>4, CeleryStagesAssumption DEF StageTask, TaskInv, KeepQueue
    <2>2. WorkerStep(w)
      BY <1>4, <2>1 DEF StageTask, WorkerStep
    <2>3. \E label, frame : Step(w, label, frame)
      BY <1>4 DEF StageTask, CallHonor, Honor, Call
    <2>4. \A v \in Worker \ {w} : pc'[v] = pc[v]
      BY <2>3, PathMoves
    <2> QED
      BY <1>0, <1>3, <2>1, <2>2, <2>4 DEF Next, TaskPc
  <1>5. CASE StageStep(w)
    <2>1. WorkerStep(w) /\ UNCHANGED << queue, copies, task >> /\ task[w].at = "call"
      BY <1>5 DEF StageStep, WorkerStep, KeepQueue
    <2>2. \E label, frame : Step(w, label, frame)
      <3>1. CASE Check(w) \/ Look(w) \/ AcquireNone(w) \/ Refuse(w) \/ StartStage(w)
        BY SMTT(30), <3>1 DEF Check, Look, AcquireNone, Refuse, StartStage, Honor, Finish, Goto
      <3>2. CASE Acquire(w) \/ WriteOutput(w) \/ WorkDone(w) \/ WorkFails(w) \/ WorkCanceled(w)
        BY <3>2 DEF Acquire, WriteOutput, WorkDone, WorkFails, WorkCanceled, Honor
      <3>3. CASE Decide(w) \/ Settle(w)
        BY <3>3 DEF Decide, Settle, Goto
      <3>4. CASE Heartbeat(w) \/ Complete(w) \/ Fail(w) \/ RetryRead(w) \/ RetryInsert(w) \/ FailJob(w)
        BY <3>4 DEF Heartbeat, Complete, Fail, RetryRead, RetryInsert, FailJob, Finish, Goto
      <3>5. CASE HonorList(w) \/ HonorCancel(w) \/ HonorFinish(w)
        BY <3>5 DEF HonorList, HonorCancel, HonorFinish, Finish
      <3> QED
        BY <1>5, <3>1, <3>2, <3>3, <3>4, <3>5 DEF StageStep
    <2>3. \A v \in Worker \ {w} : pc'[v] = pc[v]
      BY <2>2, PathMoves
    <2>4. TaskInv'
      BY <2>1, <2>3 DEF TaskInv
    <2> QED
      BY <2>1, <2>4 DEF Next
  <1>6. CASE StageReturned(w)
    <2>1. Return(w) /\ UNCHANGED << queue, copies >> /\ (At(w, "follow") \/ At(w, "ack"))
      BY <1>6 DEF StageReturned, KeepQueue
    <2>2. pc'[w] = "idle" /\ \A v \in Worker \ {w} : pc'[v] = pc[v]
      BY <2>1, PathMoves DEF Return
    <2> QED
      BY <1>0, <1>3, <2>1, <2>2 DEF Next, WorkerStep, TaskPc
  <1>7. CASE ResendStage(w)
    <2>1. CASE Return(w) /\ queue' = Sent(task[w].cmd) /\ At(w, "ack")
      <3>1. pc'[w] = "idle" /\ \A v \in Worker \ {w} : pc'[v] = pc[v]
        BY <2>1, PathMoves DEF Return
      <3>2. queue' \in [Command -> Nat] /\ copies' = copies
        BY <1>7, <2>1, SentType DEF ResendStage
      <3> QED
        BY <1>3, <2>1, <3>1, <3>2 DEF Next, WorkerStep, TaskPc
    <2>2. CASE Outside /\ queue' = queue /\ At(w, "fail")
      <3>1. pc' = pc /\ UNCHANGED vars
        BY <2>2 DEF Outside, vars
      <3> QED
        BY <1>0, <1>3, <1>7, <2>2, <3>1 DEF ResendStage, TaskPc
    <2> QED
      BY <1>7, <2>1, <2>2 DEF ResendStage
  <1>8. CASE FailTask(w)
    <2>1. FailAnalysis(w) /\ UNCHANGED << queue, copies >> /\ At(w, "ack")
      BY <1>8 DEF FailTask, KeepQueue
    <2>2. pc'[w] = "idle" /\ \A v \in Worker \ {w} : pc'[v] = pc[v]
      BY <2>1, PathMoves DEF FailAnalysis
    <2> QED
      BY <1>0, <1>3, <2>1, <2>2 DEF Next, WorkerStep, TaskPc
  <1>9. CASE TaskRaised(w)
    <2>1. Return(w) /\ UNCHANGED << queue, copies >> /\ task' = [task EXCEPT ![w] = NoTask]
      BY <1>9 DEF TaskRaised, KeepQueue
    <2>2. pc'[w] = "idle" /\ \A v \in Worker \ {w} : pc'[v] = pc[v]
      BY <2>1, PathMoves DEF Return
    <2> QED
      BY <1>0, <2>1, <2>2, TaskMoved DEF Next, WorkerStep
  <1> QED
    BY <1>4, <1>5, <1>6, <1>7, <1>8, <1>9

\* A lost worker, and database errors.
LEMMA FaultSteps ==
  ASSUME TypeInv, TaskInv, NEW w \in Worker, LoseWorker(w) \/ TaskError(w) \/ CallFault(w)
  PROVE  Next /\ TaskInv'
  <1>0. queue \in [Command -> Nat] /\ NoTask \in Task /\ NoTask.at = "none"
    BY DEF TaskInv, Task, NoTask
  <1>1. CASE LoseWorker(w) \/ TaskError(w)
    <2>1. Crash(w) /\ task' = [task EXCEPT ![w] = NoTask] /\ copies' = copies
          /\ (queue' = queue \/ queue' = Sent(task[w].cmd))
      BY <1>1 DEF LoseWorker, TaskError, KeepQueue
    <2>2. pc'[w] = "idle" /\ \A v \in Worker \ {w} : pc'[v] = pc[v]
      BY <2>1, PathMoves DEF Crash
    <2>3. queue' \in [Command -> Nat]
      BY <1>0, <2>1, SentType
    <2> QED
      BY <1>0, <2>1, <2>2, <2>3, TaskMoved DEF Next, Fault
  <1>2. CASE CallFault(w)
    <2>1. (Raise(w) \/ Unreadable(w)) /\ UNCHANGED << queue, copies, task >> /\ task[w].at = "call"
      BY <1>2 DEF CallFault, KeepQueue
    <2>2. \A v \in Worker \ {w} : pc'[v] = pc[v]
      BY <2>1, PathMoves DEF Raise, Unreadable, Finish
    <2>3. TaskInv'
      BY <2>1, <2>2 DEF TaskInv
    <2> QED
      BY <2>1, <2>3 DEF Next, Fault
  <1> QED
    BY <1>1, <1>2

LEMMA CelerySteps ==
  ASSUME TypeInv, TaskInv, [CeleryNext]_celeryVars
  PROVE  [Next]_vars /\ TaskInv'
  <1>1. CASE UNCHANGED celeryVars
    BY <1>1 DEF celeryVars, vars, TaskInv
  <1>2. CASE Environment
    <2>1. UNCHANGED << queue, task, copies, pc >>
      BY <1>2 DEF Environment, CancelRead, CancelWrite, Tick
    <2> QED
      BY <1>2, <2>1 DEF Environment, Next, TaskInv
  <1>3. CASE \/ \E w \in Worker : \E c \in Command : Receive(w, c)
             \/ \E c \in Command : Duplicate(c)
    BY <1>3, DeliverySteps
  <1>4. ASSUME NEW w \in Worker, TaskStep(w) PROVE [Next]_vars /\ TaskInv'
    BY <1>4, OrchestrateSteps, StageTaskSteps DEF TaskStep
  <1>5. ASSUME NEW w \in Worker, LoseWorker(w) \/ TaskError(w) \/ CallFault(w)
        PROVE  [Next]_vars /\ TaskInv'
    BY <1>5, FaultSteps
  <1> QED
    BY <1>1, <1>2, <1>3, <1>4, <1>5 DEF CeleryNext, Answered

LEMMA TaskInvInit == CeleryInit => TaskInv
  BY DEF CeleryInit, Init, TaskInv, Task, NoTask, Command

\* Tasks, commands and copies keep their type, and a task that has ended has left
\* nothing behind in the shared path.
THEOREM CeleryTypeCorrect == CelerySpec => []CeleryTypeOK
  <1>1. TypeInv /\ TaskInv /\ [CeleryNext]_celeryVars => TypeInv' /\ TaskInv'
    BY CelerySteps, TypeNext
  <1>2. CeleryInit => TypeInv /\ TaskInv
    BY TaskInvInit, TypeInit DEF CeleryInit
  <1> QED
    BY <1>1, <1>2, TaskInvType, PTL DEF CelerySpec

\* The tasks implement the shared stage path (execute_orchestrate,
\* execute_stage_payload): every behaviour of theirs is one of StageExecute.
THEOREM CeleryRunsTheSharedPath == CelerySpec => Spec
  <1>1. TypeInv /\ TaskInv /\ [CeleryNext]_celeryVars => TypeInv' /\ TaskInv' /\ [Next]_vars
    BY CelerySteps, TypeNext
  <1>2. CeleryInit => Init /\ TypeInv /\ TaskInv
    BY TaskInvInit, TypeInit DEF CeleryInit
  <1> QED
    BY <1>1, <1>2, PTL DEF CelerySpec, Spec

\* So the rows the tasks leave are a write-once ledger, ...
COROLLARY CeleryKeepsLedger == CelerySpec => KeepsLedger
  BY CeleryRunsTheSharedPath, LedgerKept, PTL

\* ... and the analyses they end as successes have results.
COROLLARY CelerySuccessHasResults == CelerySpec => []SuccessHasResults
  BY CeleryRunsTheSharedPath, SuccessHasResultsInvariance, PTL

\* No task undoes an accepted cancel.
COROLLARY CeleryCancelStands == CelerySpec => CancelStands
  BY CeleryRunsTheSharedPath, CancelStandsInvariance, PTL

\* A lease that one of the tasks was granted is honored until it expires.
COROLLARY CeleryLeaseHonored == CelerySpec => []LeaseHonored
  BY CeleryRunsTheSharedPath, LeaseHonoredInvariance, PTL

\* Without overrun, one of the tasks at a time runs a stage or adds its retry, and
\* what the stages that succeeded have written stays.
COROLLARY CeleryWorkExclusive ==
  ASSUME ~Overrun
  PROVE  CelerySpec => []WorkExclusive /\ []RetriesInOrder /\ StaleOutputIsOrphan
  <1>1. Spec => []WorkExclusive /\ []RetriesInOrder /\ StaleOutputIsOrphan
    BY WorkExclusiveInvariance, RetriesInOrderInvariance, SettledOutputStands, PTL
  <1> QED
    BY <1>1, CeleryRunsTheSharedPath, PTL

-----------------------------------------------------------------------------
(* Commands are sent in the order of the pipeline.                         *)

\* A command is queued or in a worker's hands.
Present(c) == queue[c] > 0 \/ \E w \in Worker : task[w].cmd = c

EarlierDone(c) ==
  \A i, j \in 1..3 : i < j /\ PIPELINE_STAGES[j] = c => Succeeded(PIPELINE_STAGES[i])

OrderInv == \A c \in StageName : Present(c) => EarlierDone(c)

LEMMA Pipeline ==
  /\ Len(PIPELINE_STAGES) = 3
  /\ PIPELINE_STAGES[1] = "sampling" /\ PIPELINE_STAGES[2] = "report"
  /\ PIPELINE_STAGES[3] = "aggregate"
  /\ \A n \in 1..3 : PIPELINE_STAGES[n] \in StageName
  BY DEF PIPELINE_STAGES, StageName

LEMMA OrderInvIsOrder == TaskInv /\ OrderInv => CommandsInOrder
  BY Pipeline DEF OrderInv, Present, EarlierDone, CommandsInOrder

\* The stage the schedule chooses comes after stages that have succeeded.
LEMMA NextStageInOrder ==
  ASSUME TypeInv, NoSkips, next_runnable_stage # "none"
  PROVE  EarlierDone(next_runnable_stage)
  <1> DEFINE open == {n \in 1..3 : ~Passed(PIPELINE_STAGES[n])}
             m == CHOOSE n \in open : \A k \in open : n <= k
  <1>1. open # {} /\ next_runnable_stage = PIPELINE_STAGES[m]
    BY Pipeline DEF next_runnable_stage
  <1>2. m \in open /\ \A k \in open : m <= k
    <2>1. \E n \in open : \A k \in open : n <= k
      <3>1. CASE 1 \in open
        BY <3>1
      <3>2. CASE 1 \notin open /\ 2 \in open
        BY <3>2
      <3>3. CASE 1 \notin open /\ 2 \notin open
        BY <1>1, <3>3
      <3> QED
        BY <3>1, <3>2, <3>3
    <2> HIDE DEF open
    <2> QED
      BY <2>1
  <1> HIDE DEF m
  <1> SUFFICES ASSUME NEW i \in 1..3, NEW j \in 1..3, i < j,
                      PIPELINE_STAGES[j] = next_runnable_stage
               PROVE  Succeeded(PIPELINE_STAGES[i])
    BY DEF EarlierDone
  <1>3. j = m
    BY <1>1, <1>2, Pipeline
  <1>4. Passed(PIPELINE_STAGES[i])
    BY <1>2, <1>3
  <1> DEFINE s == PIPELINE_STAGES[i]
  <1>5. s \in StageName
    BY Pipeline
  <1>6. runs[s] \in Seq(StageRunRow) /\ Len(runs[s]) \in Nat
    BY <1>5, LenNat
  <1>7. runs[s] # << >> /\ runs[s][Len(runs[s])].state \in {"SUCCEEDED", "SKIPPED"}
    BY <1>4 DEF Passed, LatestState
  <1>8. Len(runs[s]) \in 1..Len(runs[s])
    BY <1>6, <1>7, EmptySeq
  <1>9. runs[s][Len(runs[s])].state = "SUCCEEDED"
    BY <1>5, <1>7, <1>8 DEF NoSkips
  <1> HIDE DEF s
  <1>10. Succeeded(s)
    BY <1>8, <1>9 DEF Succeeded
  <1> QED
    BY <1>10 DEF s

\* A command appears only when the schedule has chosen it: a retry, a loss or a copy
\* sends one that was there.
LEMMA CommandsAppear ==
  ASSUME TaskInv, [CeleryNext]_celeryVars, NEW c \in StageName, Present(c)'
  PROVE  Present(c) \/ (c = next_runnable_stage /\ c # "none")
  <1>0. c \in Command /\ queue \in [Command -> Nat] /\ task \in [Worker -> Task]
    BY DEF Command, TaskInv
  <1>1. ASSUME UNCHANGED << queue, task >> PROVE Present(c)
    BY <1>1 DEF Present
  <1>2. ASSUME NEW w \in Worker, NEW d, queue' = [queue EXCEPT ![d] = @ - 1],
               queue[d] > 0, d \in Command, NEW t, t.cmd = d, task' = [task EXCEPT ![w] = t]
        PROVE  Present(c)
    BY <1>0, <1>2 DEF Present
  <1>3. ASSUME NEW w \in Worker, NEW t, task' = [task EXCEPT ![w] = t],
               t.cmd \in {task[w].cmd, "none"},
               queue' = queue \/ queue' = Sent(task[w].cmd)
        PROVE  Present(c)
    <2>1. c # "none"
      BY DEF StageName
    <2>2. queue'[c] > 0 => Present(c)
      BY <1>0, <1>3 DEF Present, Sent
    <2>3. \A v \in Worker : task'[v].cmd = c => task[v].cmd = c
      BY <1>0, <1>3, <2>1
    <2> QED
      BY <2>2, <2>3 DEF Present
  <1>4. NoTask.cmd = "none"
    BY DEF NoTask
  <1>5. ASSUME NEW w \in Worker, NEW p, At(w, p) PROVE
          \E t : task' = [task EXCEPT ![w] = t] /\ t.cmd = task[w].cmd
    <2> DEFINE t == [task[w] EXCEPT !.at = p]
    <2>1. t.cmd = task[w].cmd
      BY <1>0 DEF Task, NoTask
    <2>2. task' = [task EXCEPT ![w] = t]
      BY <1>0, <1>5 DEF At
    <2> QED
      BY <2>1, <2>2
  <1>6. ASSUME NEW w \in Worker, NEW d \in Command, Receive(w, d) PROVE Present(c)
    <2> DEFINE t == [cmd |-> d, at |-> IF d = "orchestrate" THEN "load" ELSE "stage",
                     state |-> "none"]
    <2>1. queue' = [queue EXCEPT ![d] = @ - 1] /\ queue[d] > 0 /\ task' = [task EXCEPT ![w] = t]
      BY <1>6 DEF Receive
    <2>2. t.cmd = d
      OBVIOUS
    <2> HIDE DEF t
    <2> QED
      BY <1>2, <2>1, <2>2
  <1>7. ASSUME NEW d \in Command, Duplicate(d) PROVE Present(c)
    <2>1. queue' = Sent(d) /\ task' = task /\ (d = "orchestrate" \/ \E w \in Worker : task[w].cmd = d)
      BY <1>7 DEF Duplicate
    <2>2. c # "orchestrate"
      BY DEF StageName
    <2> QED
      BY <1>0, <2>1, <2>2 DEF Present, Sent
  <1>8. ASSUME NEW w \in Worker, OrchestrateNext(w)
        PROVE  Present(c) \/ (c = next_runnable_stage /\ c # "none")
    <2>1. At(w, "ack") /\ queue' = IF next_runnable_stage = "none" THEN queue ELSE Sent(next_runnable_stage)
      BY <1>8 DEF OrchestrateNext, SendNext
    <2>2. \A v \in Worker : task'[v].cmd = task[v].cmd
      BY <1>0, <1>5, <2>1
    <2>3. c # "none"
      BY DEF StageName
    <2>4. queue'[c] > 0 => queue[c] > 0 \/ c = next_runnable_stage
      BY <1>0, <2>1 DEF Sent
    <2> QED
      BY <2>2, <2>3, <2>4 DEF Present
  <1>9. ASSUME NEW w \in Worker, TaskStep(w), ~OrchestrateNext(w) PROVE Present(c)
    <2>1. CASE Ack(w) \/ TaskRaised(w)
      BY <1>3, <1>4, <2>1 DEF Ack, TaskRaised, KeepQueue
    <2>2. CASE OrchestrateLoad(w)
      <3> DEFINE p == IF task[w].at = "load" /\ analysis = "QUEUED" THEN "claim" ELSE "check"
                 t == [task[w] EXCEPT !.at = p, !.state = analysis]
      <3>1. task' = [task EXCEPT ![w].at = p, ![w].state = analysis] /\ queue' = queue
        BY <2>2 DEF OrchestrateLoad, KeepQueue
      <3>2. t.cmd = task[w].cmd
        <4> HIDE DEF p
        <4> QED
          BY <1>0 DEF Task, NoTask
      <3>3. task' = [task EXCEPT ![w] = t]
        BY <1>0, <3>1
      <3> HIDE DEF t
      <3> QED
        BY <1>3, <3>1, <3>2, <3>3
    <2>3. CASE OrchestrateClaim(w) \/ OrchestrateCheck(w) \/ StageTask(w) \/ StageReturned(w) \/ FailTask(w)
      <3>1. queue' = queue /\ \E p : At(w, p)
        BY <2>3 DEF OrchestrateClaim, OrchestrateCheck, StageTask, StageReturned, FailTask, KeepQueue
      <3> QED
        BY <1>3, <1>5, <3>1
    <2>4. CASE StageStep(w)
      BY <1>1, <2>4 DEF StageStep, KeepQueue
    <2>5. CASE ResendStage(w)
      <3>1. (queue' = queue \/ queue' = Sent(task[w].cmd)) /\ \E p : At(w, p)
        BY <2>5 DEF ResendStage
      <3> QED
        BY <1>3, <1>5, <3>1
    <2> QED
      BY <1>9, <2>1, <2>2, <2>3, <2>4, <2>5 DEF TaskStep
  <1>10. ASSUME NEW w \in Worker, LoseWorker(w) \/ TaskError(w) PROVE Present(c)
    BY <1>3, <1>4, <1>10 DEF LoseWorker, TaskError, KeepQueue
  <1>11. ASSUME NEW w \in Worker, CallFault(w) PROVE Present(c)
    BY <1>1, <1>11 DEF CallFault, KeepQueue
  <1>12. CASE Environment \/ UNCHANGED celeryVars
    BY <1>1, <1>12 DEF Environment, celeryVars
  <1> QED
    BY <1>6, <1>7, <1>8, <1>9, <1>10, <1>11, <1>12 DEF CeleryNext, Answered

LEMMA OrderNext ==
  ASSUME TypeInv, TaskInv, NoSkips, OrderInv, [CeleryNext]_celeryVars
  PROVE  OrderInv'
  <1>1. [Next]_vars
    BY CelerySteps
  <1> SUFFICES ASSUME NEW c \in StageName, Present(c)' PROVE EarlierDone(c)'
    BY DEF OrderInv
  <1>2. EarlierDone(c)
    BY CommandsAppear, NextStageInOrder DEF OrderInv
  <1>3. \A s \in StageName : Succeeded(s) => Succeeded(s)'
    BY <1>1, SucceededStands
  <1> QED
    BY <1>2, <1>3, Pipeline DEF EarlierDone

LEMMA OrderInit == CeleryInit => OrderInv
  BY DEF CeleryInit, OrderInv, Present, NoTask, Command, StageName

\* A stage's command is never in the queue or in a worker's hands before every
\* earlier stage has succeeded, whatever is redelivered, retried or lost.
THEOREM CommandsInOrderInvariance == CelerySpec => []CommandsInOrder
  <1>1. TypeInv /\ TaskInv /\ NoSkips /\ OrderInv /\ [CeleryNext]_celeryVars
          => TypeInv' /\ TaskInv' /\ NoSkips' /\ OrderInv'
    BY CelerySteps, TypeNext, NoSkipsNext, OrderNext
  <1>2. CeleryInit => TypeInv /\ TaskInv /\ NoSkips /\ OrderInv
    BY TaskInvInit, TypeInit, OrderInit DEF CeleryInit, Init, NoSkips, PendingRow
  <1> QED
    BY <1>1, <1>2, OrderInvIsOrder, PTL DEF CelerySpec

=============================================================================
