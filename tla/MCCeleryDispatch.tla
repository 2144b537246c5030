-------------------------- MODULE MCCeleryDispatch --------------------------
(***************************************************************************)
(* Small instances of CeleryDispatch for TLC.                              *)
(***************************************************************************)
EXTENDS CeleryDispatch, TLC

CONSTANTS w1, w2

TwoWorkers == {w1, w2}
WorkerSymmetry == Permutations(TwoWorkers)

(***************************************************************************)
(* A view for runs with Overrun that ask nothing of leases or artifacts.   *)
(* It hides what no later step reads there: the expiry of an attempt that  *)
(* is not active, which lease wrote the artifacts, the expiry a worker     *)
(* remembers (only Tick without Overrun reads it), the time it captured    *)
(* once that has gone into a lease, and a verdict once it is written.      *)
(***************************************************************************)
LiveRow(row) == IF row.state \in ActiveState THEN row ELSE [row EXCEPT !.expires = 0]

LiveFrame(w) ==
  [local[w] EXCEPT !.expires = 0,
                   !.moment = IF pc[w] \in PreparePc THEN @ ELSE 0,
                   !.verdict = IF pc[w] = "settle" THEN @ ELSE "none"]

LiveState ==
  << analysis, [s \in StageName |-> [i \in 1..Len(runs[s]) |-> LiveRow(runs[s][i])]],
     [s \in StageName |-> output[s] # NoToken], clock, issued, pc,
     [w \in Worker |-> LiveFrame(w)], seen, cancels, faults,
     queue, task, copies >>

=============================================================================
