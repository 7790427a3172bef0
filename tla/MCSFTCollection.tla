--------------------------- MODULE MCSFTCollection ---------------------------
(* Constants for the runs of SFTCollection.                                *)
EXTENDS SFTCollection

MCTwoTasks == <<1, 2>>
=============================================================================
