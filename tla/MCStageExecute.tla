--------------------------- MODULE MCStageExecute ---------------------------
(***************************************************************************)
(* Small instances of StageExecute for TLC.                                *)
(***************************************************************************)
EXTENDS StageExecute, TLC

CONSTANTS w1, w2

TwoWorkers == {w1, w2}
WorkerSymmetry == Permutations(TwoWorkers)

\* The stage that depends on no other, and the one that rewrites another's output.
FirstStage == {"sampling"}
ReportStage == {"report"}
LateStages == {"report", "aggregate"}

(***************************************************************************)
(* A view that loses no step and no property of this module: it hides the  *)
(* expiry of an attempt that is not active, and in a worker's frame the    *)
(* captured time once it has gone into a lease, the expiry once the worker *)
(* no longer counts on that lease, and a verdict once it is written.       *)
(***************************************************************************)
LiveRow(row) == IF row.state \in ActiveState THEN row ELSE [row EXCEPT !.expires = 0]

LiveFrame(w) ==
  [local[w] EXCEPT !.expires = IF pc[w] \in HoldPc THEN @ ELSE 0,
                   !.moment = IF pc[w] \in PreparePc THEN @ ELSE 0,
                   !.verdict = IF pc[w] = "settle" THEN @ ELSE "none"]

LeaseState ==
  << analysis, [s \in StageName |-> [i \in 1..Len(runs[s]) |-> LiveRow(runs[s][i])]],
     output, clock, issued, pc, [w \in Worker |-> LiveFrame(w)], seen, cancels, faults >>

=============================================================================
