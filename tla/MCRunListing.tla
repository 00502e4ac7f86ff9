--------------------------- MODULE MCRunListing ----------------------------
(***************************************************************************)
(* An instance of RunListing for TLC.                                      *)
(***************************************************************************)
EXTENDS RunListing

MCRuns == 1..4
MCStatuses == {"ACCEPTED", "QUARANTINED"}
MCOffsets == {-1, 0, 1}
MCFirsts == {0, 1, 2, 3}
=============================================================================
