---------------------------- MODULE MCGRPOBatch ----------------------------
(* Constants for the runs of GRPOBatch.                                    *)
EXTENDS GRPOBatch

With(curriculum, progressive, judge, listSlices) ==
  [curriculum |-> curriculum, progressive |-> progressive,
   judge |-> judge, listSlices |-> listSlices]

MCEverySetting == {With(c, p, j, l) : c, p, l \in BOOLEAN, j \in JudgeModes}
MCRoundsOnly == {With(FALSE, TRUE, "off", TRUE)}

MCTwoTasks == <<1, 2>>
MCThreeTasks == <<1, 2, 3>>
=============================================================================
