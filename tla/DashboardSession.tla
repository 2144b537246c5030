--------------------------- MODULE DashboardSession ---------------------------
(***************************************************************************)
(* One page of the dashboard (apps/dashboard/app.py) beside the pipeline   *)
(* and the critics: it polls the status until it is terminal, then reads   *)
(* the report, the critique, one shot and the timeline.  Each answer of    *)
(* the API (api/routes.py) is put together from several transactions and   *)
(* a file, with any step of a worker in between.                           *)
(***************************************************************************)
EXTENDS Critique

VARIABLE session

allVars == << docVars, criticVars, session >>

SessionPc == {"job", "summary", "runs", "report", "critique", "shot",
              "timeline", "ended"}

NoStatus == [state |-> "QUEUED", progress |-> 0, completed |-> {}, of |-> None]

\* The page: what the status request under way has read of the job and of the
\* summary, the last status, and the run of each document shown.
SessionInit ==
  session = [pc |-> "job", job |-> [state |-> "QUEUED", progress |-> 0], of |-> None,
             status |-> NoStatus, report |-> None, shot |-> None, timeline |-> None,
             critique |-> None]

Shows(p) == session.pc = p /\ UNCHANGED << docVars, criticVars >>

-----------------------------------------------------------------------------
(* GET /analyses/{id}: the job, the summary, the runs.                     *)

PollJob ==
  /\ Shows("job")
  /\ session' = [session EXCEPT !.pc = "summary", !.job = analysis]

PollSummary ==
  /\ Shows("summary")
  /\ session' = [session EXCEPT !.pc = "runs", !.of = summary.of]

\* build_status: the availability is that of the summary, and the progress is the
\* stages' until the job is terminal, then the job's.
build_status(job, of, done) ==
  [state |-> job.state,
   progress |-> IF analysis_is_terminal(job.state) THEN job.progress ELSE progress_from_stages(done),
   completed |-> done,
   of |-> of]

\* _analysis_body: wait and ask again, stop at a failure, or go on to the report.
PollRuns ==
  /\ Shows("runs")
  /\ session' =
       [session EXCEPT
          !.pc = CASE ~analysis_is_terminal(session.job.state) -> "job"
                   [] session.job.state \in {"FAILED", "CANCELED"} -> "ended"
                   [] OTHER -> "report",
          !.status = build_status(session.job, session.of, Completed),
          !.job = [state |-> "QUEUED", progress |-> 0],
          !.of = None]

-----------------------------------------------------------------------------
(* The documents.  A request passes when the analysis has a result and the *)
(* artifact its summary names is on record, and then reads the file.       *)
(* Rows and ids stay, so that it is one step; ControlApi has its parts.    *)

Served(key) ==
  IF /\ analysis.state \in {"SUCCEEDED", "PARTIAL"}
     /\ summary # NoSummary
     /\ summary[key] # None /\ summary[key] = artifacts[key]
  THEN files[key] ELSE None

\* get_report; without a report the page ends.
GetReport ==
  /\ Shows("report")
  /\ session' = [session EXCEPT !.pc = IF Served("report") = None THEN "ended" ELSE "critique",
                                !.report = Served("report")]

\* get_critique: the newest row.
GetCritique ==
  /\ Shows("critique")
  /\ session' = [session EXCEPT !.pc = "shot",
                                !.critique = IF critiques = << >> THEN None
                                             ELSE critiques[Len(critiques)].of]

\* get_shot, which also wants the shot's row; the page falls back on the report.
GetShot ==
  /\ Shows("shot")
  /\ session' = [session EXCEPT !.pc = "timeline",
                   !.shot = IF shots = None \/ Served("report") = None
                            THEN session.report ELSE Served("report")]

\* get_timeline; without one the tab stays empty.
GetTimeline ==
  /\ Shows("timeline")
  /\ session' = [session EXCEPT !.pc = "ended", !.timeline = Served("timeline")]

\* A request that fails in all the attempts _send makes: the page goes without
\* the answer, or ends if it cannot.
Unreachable ==
  /\ session.pc \in {"job", "report", "critique", "shot", "timeline"}
  /\ session' = CASE session.pc = "critique" -> [session EXCEPT !.pc = "shot"]
                  [] session.pc = "shot" -> [session EXCEPT !.pc = "timeline", !.shot = session.report]
                  [] OTHER -> [session EXCEPT !.pc = "ended"]
  /\ Fault
  /\ UNCHANGED << criticVars, analysis, rowVars, storeVars, pc, local >>

SessionStep ==
  \/ PollJob \/ PollSummary \/ PollRuns
  \/ GetReport \/ GetCritique \/ GetShot \/ GetTimeline

-----------------------------------------------------------------------------
Init == DocInit /\ CriticInit /\ SessionInit

Next ==
  \/ DocNext /\ UNCHANGED << criticVars, session >>
  \/ (\E c \in Critic : CriticStep(c) \/ Redeliver(c)) /\ UNCHANGED session
  \/ SessionStep
  \/ Unreachable

Spec == Init /\ [][Next]_allVars

-----------------------------------------------------------------------------
DocTypeOK ==
  /\ analysis \in [state : AnalysisState, progress : 0..100]
  /\ stage \in [LateStage -> StageState]
  /\ holder \in [LateStage -> Worker \cup {Nobody}]
  /\ files \in [Key -> 0..made]
  /\ artifacts \in [Key -> 0..made]
  /\ shots \in 0..made
  /\ summary \in [of : 0..made, report : 0..made, timeline : 0..made]
  /\ pc \in [Worker -> WorkPc \cup {"idle"}]
  /\ local \in [Worker -> [stage : LateStage, key : Key, run : 0..made,
                           found : [of : 0..made, report : 0..made, timeline : 0..made]]]
  /\ aggregated \in BOOLEAN /\ canceling \in BOOLEAN /\ overrun \in BOOLEAN
  /\ made \in Nat /\ cancels \in Nat /\ faults \in Nat
  /\ critiques \in Seq(CritiqueRow)
  /\ \A c \in Critic : critic[c].since \in 0..Len(critiques) /\ critic[c].of \in 0..made
  /\ session.pc \in SessionPc /\ session.status.progress \in 0..100

\* A status that reports a result was put together from three reads, and still
\* agrees with itself: the report is a completed stage, the progress is full, and
\* the pillars are those of a saved summary (get_analysis, build_status,
\* persist_report_outcome); unless a worker outlasted its lease, the state is the
\* one that very report calls for.
StatusAgrees ==
  session.status.state \in {"SUCCEEDED", "PARTIAL"} =>
    /\ "report" \in session.status.completed
    /\ session.status.progress = 100
    /\ session.status.of # None
    /\ overrun \/ session.status.state = Outcome(session.status.of)

\* The progress a page shows never falls from one poll to the next, through dead
\* workers, retries and cancels, until the analysis has failed or is canceled
\* (build_status switches from the stages' progress to the row's).
ProgressGrows ==
  [][\/ session'.status.progress >= session.status.progress
     \/ session'.status.state \in {"FAILED", "CANCELED"}]_session

\* Unless a worker outlasted its lease, a page shows one run of the pipeline: the
\* availability it polled, the report, the shot, the timeline and the critique all
\* come from the run whose report it read (put_replaceable, save_report_summary,
\* persist_critique_for_job).
OneRunShown ==
  session.report # None /\ ~overrun =>
    /\ session.status.of = session.report
    /\ session.shot \in {None, session.report}
    /\ session.timeline \in {None, session.report}
    /\ session.critique \in {None, session.report}

\* The ids a summary publishes are ids of rows, even when a second report worker
\* records the same files again between aggregate's read and its write
\* (insert_artifact, get_artifact_by_storage_key, save_report_summary).
IdsResolve ==
  summary # NoSummary =>
    \A k \in Key : summary[k] # None /\ summary[k] = artifacts[k]

\* A critic answers with a critique of the document it has read, although the file
\* may have been replaced since and older critiques are on record
\* (get_critique_by_identity, save_critique).
CritiqueIsOfReport ==
  \A c \in Critic :
    critic[c].pc = "ended" /\ critic[c].answer.of # None => critic[c].answer.of = critic[c].of

\* Two critiques of one document are stored only by critics that were both past
\* their lookup before either inserted: the model is not asked again about a
\* document whose critique, good or failed, is on record (persist_critique_for_job).
DuplicatesOverlap ==
  \A i, j \in 1..Len(critiques) :
    i < j /\ critiques[i].of = critiques[j].of => critiques[j].since < i

=============================================================================
