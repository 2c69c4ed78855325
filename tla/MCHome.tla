-------------------------------- MODULE MCHome --------------------------------
(* Two tabs, two starts of the process. *)
EXTENDS Home

MCTabs == 1..2
MCWorkspaces == 1..2
MCInputs == 1..2
=============================================================================
