---------------------------- MODULE MCRunService ----------------------------
(***************************************************************************)
(* Small instances of RunService for TLC.  Requests of different clients   *)
(* and runs are interchangeable, jobs are not (they are ordered).          *)
(***************************************************************************)
EXTENDS RunServiceInvariants, TLC

ThreadAndRunSymmetry == Permutations(Clients) \cup Permutations(Runs)

=============================================================================
