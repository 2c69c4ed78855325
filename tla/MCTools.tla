-------------------------------- MODULE MCTools --------------------------------
(* One tool at a time, over populations of three examples. *)
EXTENDS Tools

MCExamples == 1..3
MCPilotIds == 1..2

\* The local experiments: a pilot of two examples, the second repeated, and a full run of three.
MCIds     == 1..2
MCSample  == {2}
MCFullIds == 1..3
=============================================================================
