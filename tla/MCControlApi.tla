---------------------------- MODULE MCControlApi ----------------------------
(***************************************************************************)
(* Small instances of ControlApi for TLC.                                  *)
(***************************************************************************)
EXTENDS ControlApi, TLC

CONSTANTS r1, r2, r3, clip, corrupt, standard, custom

ThreeRequests == {r1, r2, r3}
RequestSymmetry == Permutations(ThreeRequests)
OneRequest == {r1}
Media == {clip, corrupt}
Playable == {clip}
Configs == {standard, custom}

=============================================================================
