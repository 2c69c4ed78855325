----------------------------- MODULE MCEvidence -----------------------------
(* Small instances of EvidenceFlow: the third run is asked other queries. *)
EXTENDS EvidenceFlow, TLC

ThirdDiffers == [r \in Runs |-> r = 3]
OnePopulation == [r \in Runs |-> TRUE]

ClientSymmetry == Permutations(Clients)
RunSymmetry == ClientSymmetry \cup Permutations(Runs)
=============================================================================
