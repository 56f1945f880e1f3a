---------------------------- MODULE MCSilverPublish ----------------------------
(* Two publishers compete for one Silver identity, each given a valid or a *)
(* defective Bronze manifest of two hours.                                 *)
EXTENDS SilverPublish

CONSTANTS a, b, r, valid, defective

MCPublishers == {a, b}
MCRuns == {r}
MCInputs == {valid, defective}
MCDefective == {defective}
=============================================================================
