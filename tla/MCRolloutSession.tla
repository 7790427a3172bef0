-------------------------- MODULE MCRolloutSession --------------------------
(* Constants for the runs of RolloutSession: three databases, of which one *)
(* is the target of the task that books something and the fresh one the    *)
(* target of the task that only asks a question.                           *)
EXTENDS RolloutSession, TLC

CONSTANTS fresh, booked, spoilt

MCDBs == {fresh, booked, spoilt}
MCTasks == {[target |-> booked, asks |-> FALSE], [target |-> fresh, asks |-> TRUE]}
MCSymmetry == Permutations(Rollouts)
=============================================================================
