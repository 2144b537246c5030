-------------------------- MODULE MCDashboardSession --------------------------
(***************************************************************************)
(* A small instance of DashboardSession for TLC.                           *)
(***************************************************************************)
EXTENDS DashboardSession, TLC

CONSTANTS w1, w2, c1, c2

TwoWorkers == {w1, w2}
TwoCritics == {c1, c2}
SessionSymmetry == Permutations(TwoWorkers) \cup Permutations(TwoCritics)
LaterRuns == {2, 3}  \* the first report is complete, a later one lacks a pillar

=============================================================================
