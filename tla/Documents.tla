------------------------------ MODULE Documents ------------------------------
(***************************************************************************)
(* What one analysis leaves for its readers, while it is being produced:   *)
(* the report and timeline files, their artifacts rows, the shots, the     *)
(* report summary, the state and progress of the analysis.  The report     *)
(* stage (application/report.py) replaces each file and records its row    *)
(* and the aggregate stage (application/aggregation.py) reads them back    *)
(* and publishes them, one transaction or file operation at a time.        *)
(*                                                                         *)
(* A document is named by the run of the report stage that made it.        *)
(* StageExecute says how a lease is taken and lost; here a stage has a     *)
(* holder, who may die or be overtaken.                                    *)
(***************************************************************************)
EXTENDS JobStates, Integers

CONSTANTS Worker,     \* the processes that run stages
          Partial,    \* the runs whose report lacks an optional pillar
          MaxCancels, \* bound on cancel requests
          MaxFaults   \* bound on crashes, failures, overtakes and late commands

ASSUME DocumentsAssumption ==
  /\ "nobody" \notin Worker
  /\ Partial \subseteq Nat
  /\ MaxCancels \in Nat
  /\ MaxFaults \in Nat

VARIABLES analysis,    \* the row: its state, and its progress in percent
          stage,       \* the state of the newest attempt of each stage
          holder,      \* the worker whose lease that attempt carries
          files,       \* the run whose document is stored under each key
          artifacts,   \* the id in each key's row: the run that inserted it
          shots,       \* the run whose shots the rows are
          summary,     \* the report summary row
          pc, local,   \* what each worker is at, and the frame of its call
          made,        \* the number of report runs begun
          aggregated,  \* whether a call of aggregate has returned
          canceling,   \* whether a cancel request has read RUNNING
          cancels, faults,
          overrun      \* whether a live worker has lost its lease

docVars == << analysis, stage, holder, files, artifacts, shots, summary, pc, local, made,
              aggregated, canceling, cancels, faults, overrun >>
rowVars == << stage, holder, cancels, canceling, overrun, made, aggregated >>
storeVars == << files, artifacts, shots, summary >>

LateStage == {"report", "aggregate"}  \* sampling has succeeded already
Key == {"timeline", "report"}
None == 0                             \* no file, row or run
Nobody == "nobody"

\* A summary: the run whose figures and availability it holds, and the ids of
\* the two artifacts it names.
NoSummary == [of |-> None, report |-> None, timeline |-> None]
Frame(s, run) == [stage |-> s, key |-> "timeline", run |-> run, found |-> NoSummary]
NoFrame == Frame("report", None)

ReportPc == {"measure", "unlink", "put", "record"}
AggregatePc == {"find", "shots", "summary", "settle"}
WorkPc == ReportPc \cup AggregatePc \cup {"complete"}

\* Deviation: the outcome is settled before the summary is saved.
SettleFirst == << "find", "shots", "settle", "summary", "complete" >>

\* The order of persist_report_outcome.
AggregateSteps == << "find", "shots", "summary", "settle", "complete" >>

After(p) == AggregateSteps[1 + CHOOSE i \in 1..4 : AggregateSteps[i] = p]

\* progress_from_stages, with STAGE_PROGRESS_WEIGHTS in percent.
Completed == {s \in LateStage : stage[s] = "SUCCEEDED"}
progress_from_stages(done) ==
  40 + (IF "report" \in done THEN 50 ELSE 0) + (IF "aggregate" \in done THEN 10 ELSE 0)

-----------------------------------------------------------------------------
DocInit ==
  /\ analysis = [state |-> "RUNNING", progress |-> 0]
  /\ stage = [s \in LateStage |-> "PENDING"]
  /\ holder = [s \in LateStage |-> Nobody]
  /\ files = [k \in Key |-> None]
  /\ artifacts = [k \in Key |-> None]
  /\ shots = None
  /\ summary = NoSummary
  /\ pc = [w \in Worker |-> "idle"]
  /\ local = [w \in Worker |-> NoFrame]
  /\ made = 0
  /\ aggregated = FALSE
  /\ canceling = FALSE
  /\ cancels = 0
  /\ faults = 0
  /\ overrun = FALSE

Goto(w, p) == pc' = [pc EXCEPT ![w] = p]

\* The frame of a call is dropped when it returns.
Back(w) == Goto(w, "idle") /\ local' = [local EXCEPT ![w] = NoFrame]

Fault == faults < MaxFaults /\ faults' = faults + 1
NoFault == faults' = faults

\* set_analysis_state(expected=RUNNING, ...).
SetFromRunning(state, progress) ==
  analysis' = IF analysis.state = "RUNNING"
              THEN [state |-> state, progress |-> progress] ELSE analysis

Holds(w) == stage[local[w].stage] = "RUNNING" /\ holder[local[w].stage] = w

\* A worker that is alive and works on the stage it holds.
Held(s) == holder[s] # Nobody /\ pc[holder[s]] # "idle" /\ local[holder[s]].stage = s

\* A command or a poller comes to stage s only once the stages before it have
\* succeeded (CommandsInOrder, StagesInOrder).
InOrder(s) == s = "aggregate" => stage["report"] = "SUCCEEDED"

-----------------------------------------------------------------------------
(* run_leased_stage around the work.                                       *)

Begin(w, s) ==
  /\ holder' = [holder EXCEPT ![s] = w]
  /\ stage' = [stage EXCEPT ![s] = "RUNNING"]
  /\ Goto(w, IF s = "report" THEN "measure" ELSE "find")
  /\ made' = IF s = "report" THEN made + 1 ELSE made
  /\ local' = [local EXCEPT ![w] = Frame(s, IF s = "report" THEN made + 1 ELSE None)]
  /\ UNCHANGED << analysis, storeVars, aggregated, canceling, cancels >>

\* A pending attempt, or one whose worker has died and whose lease ran out.
Take(w, s) ==
  /\ pc[w] = "idle"
  /\ analysis.state # "CANCEL_REQUESTED"
  /\ InOrder(s)
  /\ \/ stage[s] = "PENDING"
     \/ stage[s] = "RUNNING" /\ ~Held(s)
  /\ Begin(w, s)
  /\ NoFault
  /\ UNCHANGED overrun

\* The same when the holder lives but has outlasted its lease: from here two
\* workers are at one stage.
Overtake(w, s) ==
  /\ pc[w] = "idle"
  /\ analysis.state # "CANCEL_REQUESTED"
  /\ stage[s] = "RUNNING" /\ Held(s)
  /\ Begin(w, s)
  /\ Fault
  /\ overrun' = TRUE

\* A repeated command, or a second poller, that gets no lease.
Refused(w, s) ==
  /\ pc[w] = "idle"
  /\ analysis.state # "CANCEL_REQUESTED"
  /\ InOrder(s)
  /\ stage[s] \notin {"PENDING", "SUCCEEDED"}
  /\ SetFromRunning("FAILED", analysis.progress)
  /\ aggregated' = (aggregated \/ s = "aggregate")
  /\ Fault
  /\ UNCHANGED << stage, holder, cancels, canceling, overrun, made, storeVars, pc, local >>

\* honor_cancel: from should_cancel before a stage, or from the cancel check the
\* measurements make.  A local worker that was about to aggregate returns from it
\* as from any other call.
HonorCancel(w) ==
  /\ pc[w] \in {"idle", "measure"}
  /\ analysis.state = "CANCEL_REQUESTED"
  /\ analysis' = [analysis EXCEPT !.state = "CANCELED"]
  /\ stage' = [s \in LateStage |->
                 IF stage[s] \in {"PENDING", "RUNNING"} THEN "CANCELED" ELSE stage[s]]
  /\ holder' = [s \in LateStage |-> Nobody]
  /\ Back(w)
  /\ NoFault
  /\ aggregated' = (aggregated \/ InOrder("aggregate"))
  /\ UNCHANGED << storeVars, made, canceling, cancels, overrun >>

\* complete_stage, which only the holder's token passes.
Complete(w) ==
  /\ pc[w] = "complete"
  /\ IF Holds(w) THEN /\ stage' = [stage EXCEPT ![local[w].stage] = "SUCCEEDED"]
                      /\ holder' = [holder EXCEPT ![local[w].stage] = Nobody]
                 ELSE UNCHANGED << stage, holder >>
  /\ aggregated' = (aggregated \/ local[w].stage = "aggregate")
  /\ Back(w)
  /\ NoFault
  /\ UNCHANGED << analysis, storeVars, made, canceling, cancels, overrun >>

\* fail_stage with a terminal error; the caller fails the analysis, whether the
\* lease was still held or not.
FailTerminal(w) ==
  /\ IF Holds(w) THEN /\ stage' = [stage EXCEPT ![local[w].stage] = "FAILED_TERMINAL"]
                      /\ holder' = [holder EXCEPT ![local[w].stage] = Nobody]
                 ELSE UNCHANGED << stage, holder >>
  /\ SetFromRunning("FAILED", analysis.progress)
  /\ Back(w)
  /\ UNCHANGED << storeVars, made, aggregated, canceling, cancels, overrun >>

\* An adapter fails in the report stage: for good, or so that a next attempt is
\* inserted (Celery; the local worker fails the analysis).  A retry by a worker
\* that has lost its lease is in StageExecute only.
WorkFails(w) ==
  /\ pc[w] \in ReportPc
  /\ Fault
  /\ \/ FailTerminal(w)
     \/ /\ Holds(w)
        /\ stage' = [stage EXCEPT !["report"] = "PENDING"]
        /\ holder' = [holder EXCEPT !["report"] = Nobody]
        /\ Back(w)
        /\ UNCHANGED << analysis, storeVars, made, aggregated, canceling, cancels, overrun >>

-----------------------------------------------------------------------------
(* The report stage.                                                       *)

InReport(w, p) == pc[w] = p /\ NoFault /\ UNCHANGED << rowVars, analysis, shots, summary >>

\* Sampling and the measurements, with their cancel checks.
Measure(w) ==
  /\ InReport(w, "measure")
  /\ analysis.state # "CANCEL_REQUESTED"
  /\ Goto(w, "unlink")
  /\ UNCHANGED << local, files, artifacts >>

\* Deviation: a document that is there already is taken for this one.
UnlinkNothing(w) ==
  /\ InReport(w, "unlink")
  /\ Goto(w, IF files[local[w].key] = None THEN "put" ELSE "record")
  /\ UNCHANGED << local, files, artifacts >>

\* put_replaceable: the old document is unlinked first.
Unlink(w) ==
  /\ InReport(w, "unlink")
  /\ files' = [files EXCEPT ![local[w].key] = None]
  /\ Goto(w, "put")
  /\ UNCHANGED << local, artifacts >>

\* put_bytes, and the rename of commit.
Put(w) ==
  /\ InReport(w, "put")
  /\ files[local[w].key] = None
  /\ files' = [files EXCEPT ![local[w].key] = local[w].run]
  /\ Goto(w, "record")
  /\ UNCHANGED << local, artifacts >>

\* Another worker has stored its document since the unlink: commit finds another
\* checksum, an error that is not retryable.
Mismatch(w) ==
  /\ pc[w] = "put"
  /\ files[local[w].key] # None
  /\ FailTerminal(w)
  /\ NoFault

\* Deviation: on a conflict the row gets the new id.
upsert_artifact(id, run) == run

\* The row a worker leaves: on a conflict of the storage key the old one stays,
\* with its id.
insert_artifact(id, run) == IF id = None THEN run ELSE id

Record(w) ==
  /\ InReport(w, "record")
  /\ artifacts' = [artifacts EXCEPT ![local[w].key] = insert_artifact(@, local[w].run)]
  /\ IF local[w].key = "timeline"
     THEN Goto(w, "unlink") /\ local' = [local EXCEPT ![w].key = "report"]
     ELSE Goto(w, "complete") /\ UNCHANGED local
  /\ UNCHANGED files

-----------------------------------------------------------------------------
(* The aggregate stage: persist_report_outcome.                            *)

InAggregate(w, p) == pc[w] = p /\ NoFault /\ UNCHANGED << rowVars, files, artifacts >>

\* The row and the file of the report, then the row of the timeline.
Find(w) ==
  /\ InAggregate(w, "find")
  /\ artifacts["report"] # None /\ files["report"] # None
  /\ local' = [local EXCEPT ![w].run = files["report"],
                            ![w].found = [of |-> files["report"], report |-> artifacts["report"],
                                          timeline |-> artifacts["timeline"]]]
  /\ Goto(w, After("find"))
  /\ UNCHANGED << analysis, shots, summary >>

\* ARTIFACT_MISSING, or SCHEMA_INVALID for a file that is being replaced.
FindNothing(w) ==
  /\ InAggregate(w, "find")
  /\ artifacts["report"] = None \/ files["report"] = None
  /\ SetFromRunning("FAILED", progress_from_stages(Completed))
  /\ Goto(w, "complete")
  /\ UNCHANGED << local, shots, summary >>

SaveShots(w) ==
  /\ InAggregate(w, "shots")
  /\ shots' = local[w].run
  /\ Goto(w, After("shots"))
  /\ UNCHANGED << local, analysis, summary >>

\* save_report_summary, an upsert.
SaveSummary(w) ==
  /\ InAggregate(w, "summary")
  /\ summary' = local[w].found
  /\ Goto(w, After("summary"))
  /\ UNCHANGED << local, analysis, shots >>

\* Deviation: the availability is written as the state.
OutcomeOfPillars(run) == IF run \in Partial THEN "PARTIAL" ELSE "COMPLETE"

\* decide_analysis_outcome: the required stages have succeeded.
Outcome(run) == IF run \in Partial THEN "PARTIAL" ELSE "SUCCEEDED"

\* Deviation: the state is written without the progress.
SettleStateOnly(w) ==
  /\ InAggregate(w, "settle")
  /\ SetFromRunning(Outcome(local[w].run), analysis.progress)
  /\ Goto(w, After("settle"))
  /\ UNCHANGED << local, shots, summary >>

Settle(w) ==
  /\ InAggregate(w, "settle")
  /\ SetFromRunning(Outcome(local[w].run), 100)
  /\ Goto(w, After("settle"))
  /\ UNCHANGED << local, shots, summary >>

-----------------------------------------------------------------------------
(* Clients and faults.                                                     *)

\* request_cancel reads the row and writes what that read calls for.
CancelRead ==
  /\ ~canceling /\ cancels < MaxCancels /\ analysis.state = "RUNNING"
  /\ canceling' = TRUE
  /\ cancels' = cancels + 1
  /\ UNCHANGED << analysis, stage, holder, storeVars, pc, local, made, aggregated, faults, overrun >>

CancelWrite ==
  /\ canceling
  /\ canceling' = FALSE
  /\ analysis' = [analysis EXCEPT !.state = "CANCEL_REQUESTED"]
  /\ UNCHANGED << stage, holder, storeVars, pc, local, made, aggregated, cancels, faults, overrun >>

\* A worker dies and leaves its lease behind.
Crash(w) ==
  /\ pc[w] # "idle"
  /\ Back(w)
  /\ Fault
  /\ UNCHANGED << rowVars, analysis, storeVars >>

DocStep(w) ==
  \/ \E s \in LateStage : Take(w, s)
  \/ HonorCancel(w) \/ Complete(w)
  \/ Measure(w) \/ Unlink(w) \/ Put(w) \/ Mismatch(w) \/ Record(w)
  \/ Find(w) \/ FindNothing(w) \/ SaveShots(w) \/ SaveSummary(w) \/ Settle(w)

DocFault(w) ==
  \/ \E s \in LateStage : Overtake(w, s) \/ Refused(w, s)
  \/ WorkFails(w) \/ Crash(w)

DocNext == CancelRead \/ CancelWrite \/ \E w \in Worker : DocStep(w) \/ DocFault(w)

=============================================================================
