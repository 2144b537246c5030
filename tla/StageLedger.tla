---------------------------- MODULE StageLedger ----------------------------
(***************************************************************************)
(* What the stage_runs table promises of one analysis, leases aside: a     *)
(* ledger of attempts.  Attempts of a stage are opened one after another,  *)
(* each is closed at most once with an outcome that then stands, and at    *)
(* most one attempt of a stage is ever closed as SUCCEEDED.                *)
(***************************************************************************)
EXTENDS Naturals

CONSTANTS Stage, Closing  \* the stages, and the outcomes that close an attempt

VARIABLES
  opened,  \* the <<stage, attempt>> pairs that exist
  closed   \* the <<stage, attempt, outcome>> triples recorded

Init ==
  /\ opened = {<< s, 1 >> : s \in Stage}
  /\ closed = {}

\* The attempt that follows the latest one.
Open(s, n) ==
  /\ << s, n + 1 >> \notin opened
  /\ opened' = opened \cup {<< s, n + 1 >>}
  /\ closed' = closed

\* The outcome of an attempt that has none.
Close(s, n, o) ==
  /\ \A e \in closed : ~(e[1] = s /\ e[2] = n)
  /\ o = "SUCCEEDED" => \A e \in closed : ~(e[1] = s /\ e[3] = o)
  /\ closed' = closed \cup {<< s, n, o >>}
  /\ opened' = opened

Next ==
  \E p \in opened : Open(p[1], p[2]) \/ \E o \in Closing : Close(p[1], p[2], o)

Spec == Init /\ [][Next]_<< opened, closed >>

=============================================================================
