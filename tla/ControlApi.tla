----------------------------- MODULE ControlApi -----------------------------
(***************************************************************************)
(* The HTTP control plane (api/routes.py) with the use cases behind it:    *)
(* upload (module Ingest), create (quota.py, analyze.py, enqueue.py),      *)
(* cancel and report, by concurrent requests over several analyses, beside *)
(* the workers that take the analyses the requests create.  An analysis is *)
(* identified by its video and its configuration.  Its run is seen only as *)
(* far as a request can tell, and by one worker at a time: StageExecute    *)
(* has the rest.                                                           *)
(***************************************************************************)
EXTENDS Ingest, JobRepository, FiniteSets

CONSTANTS
  Config,       \* analysis configurations
  Default,      \* AnalysisConfig()
  NoConfig,     \* the empty config_json of a new row
  Celery,       \* TRUE: execution_backend is celery; FALSE: local
  MaxInflight   \* settings.max_inflight_analyses

ASSUME ApiAssumption ==
  /\ Default \in Config
  /\ NoConfig \notin Config
  /\ Celery \in BOOLEAN
  /\ MaxInflight \in Nat

VARIABLES
  analyses,  \* the analyses row of each identity, with what hangs on it
  worker,    \* how far the run of each analysis has come
  reports,   \* the analyses whose report file is in the store
  commands,  \* the orchestrate commands queued
  dropped    \* history: the analyses whose last command a task that raised has used up

apiVars == << analyses, worker, reports, commands, dropped >>
allVars == << ingestVars, apiVars >>

\* make_analysis_key: one pipeline version.
Key == Content \X Config

\* The analysis row: its state ("none": no row), its config_json, whether its
\* stage rows and its report summary exist.
Row == [state : AnalysisState \cup {"none"}, config : Config \cup {NoConfig},
        stages : BOOLEAN, summary : BOOLEAN]

\* What the handler of a request holds: the identity it is about, the state it has
\* read, whether it found the row, and the video that answers an upload.
Frame == [content : Content \cup {None}, config : Config \cup {NoConfig},
          seen : AnalysisState \cup {"none"}, reused : BOOLEAN,
          video : Uploader \cup {None}]

NoRow == [state |-> "none", config |-> NoConfig, stages |-> FALSE, summary |-> FALSE]

Inflight == {k \in Key : analyses[k].state \in {"QUEUED", "RUNNING", "CANCEL_REQUESTED"}}

Progress == {"none", "claimed", "loaded", "writing", "written", "summarized", "done"}

\* The run of an analysis: how far it is, and the configuration the job was loaded with.
Run == [at : Progress, config : Config \cup {NoConfig}]

ApiPc == {"quota", "count", "lookup", "insert", "record", "ensure", "enqueue",
          "cancel", "read_report"}
EndPc == {"answered", "refused", "dead", "accepted", "canceled", "served", "missing"}
Pc == {"new"} \cup UploadPc \cup ApiPc \cup EndPc

KeyOf(r) == << req[r].content, req[r].config >>

-----------------------------------------------------------------------------
\* Nothing but, for some of the valid media, the video of an earlier upload.
Init ==
  /\ pc = [r \in Request |-> "new"]
  /\ req = [r \in Request |->
       [content |-> None, config |-> NoConfig, seen |-> "none", reused |-> FALSE,
        video |-> None]]
  /\ ephemeral = {}
  /\ \E known \in SUBSET Valid :
       /\ canonical = [original |-> known, probe |-> IF known = {} THEN {} ELSE {Earlier}]
       /\ videos = [c \in Content |-> IF c \in known THEN Earlier ELSE None]
  /\ artifacts = canonical
  /\ faults = 0
  /\ analyses = [k \in Key |-> NoRow]
  /\ worker = [k \in Key |-> [at |-> "none", config |-> NoConfig]]
  /\ reports = {}
  /\ commands = {}
  /\ dropped = {}

-----------------------------------------------------------------------------
(* POST /analyses.                                                         *)

Ends(r, label) ==
  /\ Goto(r, label)
  /\ UNCHANGED << req, ephemeral, store, faults >>

\* create_analysis: get_video finds the video.
PostAnalysis(r, k) ==
  /\ pc[r] = "new"
  /\ videos[k[1]] # None
  /\ Goto(r, "quota")
  /\ req' = [req EXCEPT ![r].content = k[1], ![r].config = k[2]]
  /\ UNCHANGED << ephemeral, store, faults, apiVars >>

\* enforce_inflight_quota: an existing identity is let through.
QuotaKey(r) ==
  /\ pc[r] = "quota"
  /\ Ends(r, IF analyses[KeyOf(r)].state # "none" THEN "lookup" ELSE "count")
  /\ UNCHANGED apiVars

\* enforce_inflight_quota: count_inflight.
QuotaCount(r) ==
  /\ pc[r] = "count"
  /\ Ends(r, IF Cardinality(Inflight) < MaxInflight THEN "lookup" ELSE "refused")
  /\ UNCHANGED apiVars

\* CreateAnalysis: the row of the identity is there and its state is read, or not.
Lookup(r) ==
  /\ pc[r] = "lookup"
  /\ LET row == analyses[KeyOf(r)] IN
       /\ Goto(r, IF row.state # "none" THEN "record" ELSE "insert")
       /\ req' = [req EXCEPT ![r].seen = row.state, ![r].reused = row.state # "none"]
  /\ UNCHANGED << ephemeral, store, faults, apiVars >>

\* insert_analysis: a QUEUED row, or the row that another request has inserted.
InsertAnalysis(r) ==
  /\ pc[r] = "insert"
  /\ LET k == KeyOf(r)
         free == analyses[k].state = "none"
         row == IF free THEN [NoRow EXCEPT !.state = "QUEUED"] ELSE analyses[k]
     IN /\ analyses' = [analyses EXCEPT ![k] = row]
        /\ req' = [req EXCEPT ![r].seen = row.state, ![r].reused = ~free]
  /\ Goto(r, "record")
  /\ UNCHANGED << ephemeral, store, faults, worker, reports, commands, dropped >>

\* Deviation: the configuration is recorded with a new row only.
RecordConfigUnlessReused(r) ==
  /\ pc[r] = "record"
  /\ analyses' = [analyses EXCEPT ![KeyOf(r)].config =
                    IF req[r].reused THEN @ ELSE req[r].config]
  /\ Ends(r, "ensure")
  /\ UNCHANGED << worker, reports, commands, dropped >>

\* record_config, whether the row is new or not.
RecordConfig(r) ==
  /\ pc[r] = "record"
  /\ analyses' = [analyses EXCEPT ![KeyOf(r)].config = req[r].config]
  /\ Ends(r, "ensure")
  /\ UNCHANGED << worker, reports, commands, dropped >>

\* Deviation: stage rows are inserted with a new row only.
EnsureStagesUnlessReused(r) ==
  /\ pc[r] = "ensure"
  /\ analyses' = [analyses EXCEPT ![KeyOf(r)].stages = @ \/ ~req[r].reused]
  /\ Ends(r, "enqueue")
  /\ UNCHANGED << worker, reports, commands, dropped >>

\* ensure_pending_stages.
EnsureStages(r) ==
  /\ pc[r] = "ensure"
  /\ analyses' = [analyses EXCEPT ![KeyOf(r)].stages = TRUE]
  /\ Ends(r, "enqueue")
  /\ UNCHANGED << worker, reports, commands, dropped >>

\* enqueue_command.
Send(k) == commands' = commands \cup {k} /\ dropped' = dropped \ {k}

\* Deviation: a command for a new row only.
EnqueueUnlessReused(r) ==
  /\ pc[r] = "enqueue"
  /\ IF Celery /\ req[r].seen = "QUEUED" /\ ~req[r].reused
     THEN Send(KeyOf(r)) ELSE UNCHANGED << commands, dropped >>
  /\ Ends(r, "accepted")
  /\ UNCHANGED << analyses, worker, reports >>

\* maybe_enqueue_analysis: a command when the state read was QUEUED; then 202.
Enqueue(r) ==
  /\ pc[r] = "enqueue"
  /\ IF Celery /\ req[r].seen = "QUEUED" THEN Send(KeyOf(r)) ELSE UNCHANGED << commands, dropped >>
  /\ Ends(r, "accepted")
  /\ UNCHANGED << analyses, worker, reports >>

-----------------------------------------------------------------------------
(* POST /analyses/{id}/cancel and GET /analyses/{id}/report.               *)

\* request_cancel reads the row ...
CancelRead(r, k) ==
  /\ pc[r] = "new"
  /\ analyses[k].state # "none"
  /\ Goto(r, "cancel")
  /\ req' = [req EXCEPT ![r].content = k[1], ![r].config = k[2],
                        ![r].seen = analyses[k].state]
  /\ UNCHANGED << ephemeral, store, faults, apiVars >>

\* ... and writes the state that the one it read calls for.
CancelWrite(r) ==
  /\ pc[r] = "cancel"
  /\ LET target == CancelTarget(req[r].seen) IN
       analyses' = [analyses EXCEPT ![KeyOf(r)].state =
                      IF target = "KEEP" THEN @ ELSE target]
  /\ Ends(r, "canceled")
  /\ UNCHANGED << worker, reports, commands, dropped >>

\* get_report: only for a SUCCEEDED or PARTIAL analysis.
GetReport(r, k) ==
  /\ pc[r] = "new"
  /\ analyses[k].state # "none"
  /\ Goto(r, IF analyses[k].state \in {"SUCCEEDED", "PARTIAL"} THEN "read_report"
             ELSE "refused")
  /\ req' = [req EXCEPT ![r].content = k[1], ![r].config = k[2]]
  /\ UNCHANGED << ephemeral, store, faults, apiVars >>

\* get_report: the summary, then the file.  Of the two only the file can go, and
\* it is the last that is read.
ReadReport(r) ==
  /\ pc[r] = "read_report"
  /\ Ends(r, IF analyses[KeyOf(r)].summary /\ KeyOf(r) \in reports
             THEN "served" ELSE "missing")
  /\ UNCHANGED apiVars

\* A database or broker call of a request raises, or its process dies.
RequestFails(r) ==
  /\ pc[r] \in ApiPc
  /\ faults < MaxFaults
  /\ faults' = faults + 1
  /\ Goto(r, "refused")
  /\ UNCHANGED << req, ephemeral, store, apiVars >>

-----------------------------------------------------------------------------
(* The run of an analysis, as far as a request can tell.                   *)

\* The compare-and-set of the analysis state by a worker.
Moves(k, target) ==
  analyses' = [analyses EXCEPT ![k].state = SetAnalysisState(@, "RUNNING", target)]

At(k, progress) == worker' = [worker EXCEPT ![k].at = progress]

\* execute_orchestrate on a command, or claim_queued by the poll worker.  The task
\* reads the state before it compares and sets it: the two are one step because no
\* analysis becomes QUEUED again, so that the compare succeeds exactly when both see
\* QUEUED.  A task whose worker is lost is delivered again.
Claim(k) ==
  /\ analyses[k].state = "QUEUED"
  /\ Celery => k \in commands
  /\ commands' = commands \ {k}
  /\ analyses' = [analyses EXCEPT ![k].state = "RUNNING"]
  /\ At(k, "claimed")
  /\ UNCHANGED << reports, dropped, ingestVars >>

\* execute_orchestrate: a command for an analysis that is not QUEUED any more.
Discard(k) ==
  /\ k \in commands
  /\ analyses[k].state # "QUEUED"
  /\ commands' = commands \ {k}
  /\ UNCHANGED << analyses, worker, reports, dropped, ingestVars >>

\* execute_orchestrate raises an AdapterError before its compare-and-set (load_job,
\* set_analysis_state): the command is acknowledged all the same and not sent again.
OrchestrateRaises(k) ==
  /\ k \in commands
  /\ faults < MaxFaults
  /\ faults' = faults + 1
  /\ commands' = commands \ {k}
  /\ dropped' = dropped \cup {k}
  /\ UNCHANGED << analyses, worker, reports, pc, req, ephemeral, store >>

\* load_job: an empty config_json is read as the default configuration.
LoadJob(k) ==
  /\ worker[k].at = "claimed"
  /\ worker' = [worker EXCEPT ![k] =
       [at |-> "loaded",
        config |-> IF analyses[k].config = NoConfig THEN Default ELSE analyses[k].config]]
  /\ UNCHANGED << analyses, reports, commands, dropped, ingestVars >>

\* acquire_stage: without a row to lease the analysis fails; otherwise the stages
\* run until the report is replaced, which unlinks the old file first.
RunStages(k) ==
  /\ worker[k].at = "loaded"
  /\ IF analyses[k].stages
     THEN /\ reports' = reports \ {k}
          /\ At(k, "writing")
          /\ UNCHANGED analyses
     ELSE /\ Moves(k, "FAILED")
          /\ At(k, "done")
          /\ UNCHANGED reports
  /\ UNCHANGED << commands, dropped, ingestVars >>

\* put_replaceable writes the new file.
WriteReport(k) ==
  /\ worker[k].at = "writing"
  /\ reports' = reports \cup {k}
  /\ At(k, "written")
  /\ UNCHANGED << analyses, commands, dropped, ingestVars >>

\* A stage is retried, or another worker takes the analysis over, once the first
\* one has stopped: the job is loaded again, a report that is done stays.
Retake(k) ==
  /\ \/ worker[k].at \in {"loaded", "writing", "written"} /\ At(k, "claimed")
     \/ worker[k].at = "summarized" /\ At(k, "written")
  /\ UNCHANGED << analyses, reports, commands, dropped, ingestVars >>

\* persist_report_outcome: save_report_summary ...
SaveSummary(k) ==
  /\ worker[k].at = "written"
  /\ analyses' = [analyses EXCEPT ![k].summary = TRUE]
  /\ At(k, "summarized")
  /\ UNCHANGED << reports, commands, dropped, ingestVars >>

\* Deviation: the state is set before the summary is saved.
SettleFirst(k, outcome) ==
  /\ worker[k].at \in {"written", "summarized"}
  /\ Moves(k, outcome)
  /\ At(k, IF worker[k].at = "written" THEN "written" ELSE "done")
  /\ UNCHANGED << reports, commands, dropped, ingestVars >>

\* ... and then the state.
Settle(k, outcome) ==
  /\ worker[k].at = "summarized"
  /\ Moves(k, outcome)
  /\ At(k, "done")
  /\ UNCHANGED << reports, commands, dropped, ingestVars >>

\* A failure that is final.
FailRun(k) ==
  /\ worker[k].at \in Progress \ {"none", "done"}
  /\ Moves(k, "FAILED")
  /\ At(k, "done")
  /\ UNCHANGED << reports, commands, dropped, ingestVars >>

\* honor_cancel, by any worker that sees the request.
HonorCancel(k) ==
  /\ analyses[k].state = "CANCEL_REQUESTED"
  /\ analyses' = [analyses EXCEPT ![k].state = "CANCELED"]
  /\ UNCHANGED << worker, reports, commands, dropped, ingestVars >>

-----------------------------------------------------------------------------
RequestStep(r) ==
  \/ \E k \in Key : PostAnalysis(r, k) \/ CancelRead(r, k) \/ GetReport(r, k)
  \/ QuotaKey(r) \/ QuotaCount(r) \/ Lookup(r) \/ InsertAnalysis(r)
  \/ RecordConfig(r) \/ EnsureStages(r) \/ Enqueue(r)
  \/ CancelWrite(r) \/ ReadReport(r) \/ RequestFails(r)

WorkerStep(k) ==
  \/ Claim(k) \/ Discard(k) \/ OrchestrateRaises(k) \/ LoadJob(k) \/ RunStages(k) \/ WriteReport(k)
  \/ Retake(k) \/ SaveSummary(k) \/ FailRun(k) \/ HonorCancel(k)
  \/ \E outcome \in {"SUCCEEDED", "PARTIAL", "FAILED"} : Settle(k, outcome)

Next ==
  \/ IngestNext /\ UNCHANGED apiVars
  \/ \E r \in Request : RequestStep(r)
  \/ \E k \in Key : WorkerStep(k)

ApiSpec == Init /\ [][Next]_allVars

-----------------------------------------------------------------------------
\* Types: a cancel, a race or a failure never leaves a value that the tables, the
\* store or the queue cannot hold.
ApiTypeOK ==
  /\ pc \in [Request -> Pc] /\ req \in [Request -> Frame]
  /\ ephemeral \subseteq Prefix \X Request
  /\ canonical \in Blobs /\ artifacts \in Blobs
  /\ videos \in [Content -> Uploader \cup {None}]
  /\ faults \in Nat
  /\ analyses \in [Key -> Row] /\ worker \in [Key -> Run]
  /\ reports \subseteq Key /\ commands \subseteq Key /\ dropped \subseteq Key

\* An accepted analysis can run: its configuration and its stage rows are stored,
\* and while it is QUEUED a command for it is in the queue, also when the request
\* that inserted the row failed on the way and a later one found it.  What ends that
\* is a task that raised and was acknowledged, and only until the next request for
\* the analysis: that one sends a new command (routes.py:151-172, enqueue.py:24-37,
\* celery_app.py:42-44).
AcceptedCanRun ==
  \A r \in Request : pc[r] = "accepted" =>
    LET row == analyses[KeyOf(r)] IN
      /\ row.config = req[r].config /\ row.stages
      /\ Celery /\ row.state = "QUEUED" => KeyOf(r) \in commands \cup dropped

\* A worker computes an analysis with the configuration of its identity, never
\* with the default in its place (postgres.py:223-234, 810-812; routes.py:162).
RunsItsConfig == \A k \in Key : worker[k].config \in {NoConfig, k[2]}

\* A worker that has loaded an analysis finds stage rows to lease and does not
\* fail it for the lack of them (routes.py:163, postgres.py:394-429).
FindsStageRows == \A k \in Key : worker[k].at = "loaded" => analyses[k].stages

\* A client that has seen the analysis end with a report is served the report:
\* summary and file precede the state (aggregation.py:147-200, routes.py:230-242),
\* as long as no worker outlasts its lease.
ReportServed == \A r \in Request : pc[r] # "missing"

=============================================================================
