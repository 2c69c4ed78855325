---------------------------------- MODULE Home ----------------------------------
(***************************************************************************)
(* The workspace as its owner meets it: sessions, and under them one of    *)
(* the overview with its registry of workspaces, the inputs and a run over *)
(* them, or the progress of a job.  They share the process and the         *)
(* sessions, and nothing else, so that one is looked at at a time.         *)
(***************************************************************************)
EXTENDS WorkspaceRegistry, InputStore, JobPage

vars == <<sessionVars, registryVars, inputVars, pageVars>>

Init ==
  /\ SessionsInit({"overview", "inputs", "progress"})
  /\ RegistryInit /\ InputsInit /\ PageInit

SignIn ==
  /\ \E t \in Tabs, link \in 1..start : OpenLink(t, link)
  /\ UNCHANGED <<registryVars, inputVars, pageVars>>

Overview == scenario = "overview" /\ ManageWorkspaces /\ UNCHANGED <<inputVars, pageVars>>
UseOfInputs == scenario = "inputs" /\ UseInputs /\ UNCHANGED <<registryVars, pageVars>>
Progress == scenario = "progress" /\ WatchJob /\ UNCHANGED <<registryVars, inputVars>>

Dies ==
  \/ scenario = "overview" /\ RegistryDies /\ UNCHANGED <<inputVars, pageVars>>
  \/ scenario = "inputs" /\ InputsDie /\ UNCHANGED <<registryVars, pageVars>>
  \/ scenario = "progress" /\ PageDies /\ UNCHANGED <<registryVars, inputVars>>

Next == SignIn \/ Overview \/ UseOfInputs \/ Progress \/ Dies

\* The event loop polls, the network delivers what it does not lose, the browser asks again.
Watching(A) == scenario = "progress" /\ A /\ UNCHANGED <<sessionVars, registryVars, inputVars>>
Fairness ==
  WF_vars(Watching(Poll)) /\ WF_vars(Watching(Deliver)) /\ WF_vars(Watching(Connect))
    /\ WF_vars(Watching(StreamEnds))

Spec == Init /\ [][Next]_vars /\ Fairness

-----------------------------------------------------------------------------
\* Each start lets one owner in, and what an owner was told exists stays (security.py, storage.py).
OwnersKeepWorkspaces == OneOwner /\ WorkspacesStay
=============================================================================
