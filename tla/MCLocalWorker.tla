---------------------------- MODULE MCLocalWorker ----------------------------
(***************************************************************************)
(* Small instances of LocalWorker for TLC.                                 *)
(***************************************************************************)
EXTENDS LocalWorker

CONSTANTS w1, w2

TwoWorkers == {w1, w2}

=============================================================================
