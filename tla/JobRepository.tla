--------------------------- MODULE JobRepository ---------------------------
(***************************************************************************)
(* The stage_runs and analyses statements of PostgresJobRepository, each   *)
(* one transaction, as functions from the rows it reads to the rows it     *)
(* leaves.  The attempts of one (analysis, stage) pair are a sequence:     *)
(* attempt n is the n-th element (unique (analysis, stage, attempt), and   *)
(* every insert takes the next free number).                               *)
(***************************************************************************)
EXTENDS JobStates, Integers, Sequences

\* lease_token IS NULL.  Tokens are uuid4 values: here the positive naturals,
\* never issued twice.
NoToken == 0

\* One stage_runs row: the columns the lease protocol reads.
StageRunRow == [state : StageState, token : Nat, expires : Nat]

PendingRow == [state |-> "PENDING", token |-> NoToken, expires |-> 0]

ActiveState == {"LEASED", "RUNNING"}

-----------------------------------------------------------------------------
\* Deviation: a lease may be taken over in the instant it still covers.
ClaimableAtExpiry(row, now) ==
  \/ row.state = "PENDING"
  \/ row.state \in ActiveState /\ row.expires <= now

\* Deviation: a lease may be taken over whether or not it has expired.
ClaimableWhileHeld(row, now) == row.state \in ActiveState \cup {"PENDING"}

\* acquire_stage: PENDING, or a lease that has expired before now.
Claimable(row, now) ==
  \/ row.state = "PENDING"
  \/ row.state \in ActiveState /\ row.expires < now

\* acquire_stage: ORDER BY attempt DESC LIMIT 1 among the claimable rows.
IsCandidate(rows, i, now) ==
  /\ i \in 1..Len(rows)
  /\ Claimable(rows[i], now)
  /\ \A j \in 1..Len(rows) : Claimable(rows[j], now) => j <= i

\* acquire_stage: the row the claim leaves.
LeasedRow(token, expires) == [state |-> "LEASED", token |-> token, expires |-> expires]

\* Deviation: the update names the row alone, neither its token nor its state.
HoldsRowById(row, token, expected) == expected \in ActiveState

\* _cas_stage, the WHERE clause: the row, the token and the expected state.
HoldsRow(row, token, expected) == row.token = token /\ row.state = expected

\* heartbeat_stage, the WHERE clause.
MayExtend(row, token) == row.token = token /\ row.state \in ActiveState

\* Deviation: a cancel that does not look at the state of the attempt.
CancelableAlways(row) == row.state \in StageState

\* cancel_stage, the WHERE clause, and the row it leaves.
Cancelable(row) == row.state \in {"PENDING", "LEASED", "RUNNING"}
CanceledRow(row) == [row EXCEPT !.state = "CANCELED", !.token = NoToken]

\* Deviation: no index on the succeeded attempts.
NoSuccessIndex(rows, i) == FALSE

\* uq_stage_runs_success: the partial unique index refuses a second SUCCEEDED row.
IndexRefuses(rows, i) == \E j \in 1..Len(rows) : j # i /\ rows[j].state = "SUCCEEDED"

\* claim_queued: some attempt holds a lease that has not expired.
ActiveLease(runs, now) ==
  \E s \in DOMAIN runs : \E i \in 1..Len(runs[s]) :
     runs[s][i].state \in ActiveState /\ runs[s][i].expires >= now

\* The state of the highest attempt of a stage.
LatestState(rows) == IF rows = << >> THEN "MISSING" ELSE rows[Len(rows)].state

-----------------------------------------------------------------------------
\* Deviation: the table is asked, and the state expected not compared.
SetAnalysisStateByTable(current, expected, target) ==
  IF transition_analysis(current, target) THEN target ELSE current

\* set_analysis_state(expected, target): compare-and-set along the table.
SetAnalysisState(current, expected, target) ==
  IF current = expected /\ transition_analysis(expected, target) THEN target ELSE current

\* Deviation: a cancel of a queued analysis writes a state of the stage runs' enum.
CancelTargetOfStage(seen) ==
  CASE seen = "QUEUED"  -> "SKIPPED"
    [] seen = "RUNNING" -> "CANCEL_REQUESTED"
    [] OTHER            -> "KEEP"

\* request_cancel: what the read of the row decides to write.  KEEP is the write
\* that leaves the state column alone.
CancelTarget(seen) ==
  CASE seen = "QUEUED"  -> "CANCELED"
    [] seen = "RUNNING" -> "CANCEL_REQUESTED"
    [] OTHER            -> "KEEP"

=============================================================================
