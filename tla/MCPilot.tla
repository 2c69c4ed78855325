------------------------------ MODULE MCPilot ------------------------------
(* A small pilot: the last pair belongs to a provider that regenerates. *)
EXTENDS PilotProperties, TLC

LastRegenerates == [p \in Pairs |-> IF p = NumPairs THEN 1 ELSE 0]

VersionSymmetry == Permutations(Versions)
=============================================================================
