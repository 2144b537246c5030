----------------------------- MODULE JobStates -----------------------------
(***************************************************************************)
(* The two state machines of domain/jobs.py: the overall analysis and one  *)
(* attempt of one stage.  Pure definitions, shared by every module that    *)
(* models the control plane.                                               *)
(***************************************************************************)

\* The three stages of PIPELINE_STAGES, in order.
PIPELINE_STAGES == << "sampling", "report", "aggregate" >>

StageName == {"sampling", "report", "aggregate"}

AnalysisState == {"QUEUED", "RUNNING", "CANCEL_REQUESTED", "CANCELED",
                  "SUCCEEDED", "PARTIAL", "FAILED"}

StageState == {"PENDING", "LEASED", "RUNNING", "SUCCEEDED", "SKIPPED",
               "FAILED_RETRYABLE", "FAILED_TERMINAL", "CANCELED"}

-----------------------------------------------------------------------------
ANALYSIS_TRANSITIONS ==
  [s \in AnalysisState |->
     CASE s = "QUEUED"           -> {"RUNNING", "CANCELED"}
       [] s = "RUNNING"          -> {"SUCCEEDED", "PARTIAL", "FAILED", "CANCEL_REQUESTED"}
       [] s = "CANCEL_REQUESTED" -> {"CANCELED", "FAILED"}
       [] OTHER                  -> {}]

STAGE_TRANSITIONS ==
  [s \in StageState |->
     CASE s = "PENDING" -> {"LEASED", "SKIPPED", "CANCELED"}
       [] s = "LEASED"  -> {"RUNNING", "CANCELED", "PENDING"}
       [] s = "RUNNING" -> {"SUCCEEDED", "FAILED_RETRYABLE", "FAILED_TERMINAL", "CANCELED"}
       [] OTHER         -> {}]

analysis_is_terminal(s) == ANALYSIS_TRANSITIONS[s] = {}

stage_is_terminal(s) == STAGE_TRANSITIONS[s] = {}

\* transition_analysis raises on an illegal target; callers use it as a guard.
transition_analysis(current, target) == target \in ANALYSIS_TRANSITIONS[current]

=============================================================================
