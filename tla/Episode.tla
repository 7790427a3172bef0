------------------------------ MODULE Episode ------------------------------
(***************************************************************************)
(* What a rollout promises its trainer.  An episode is played by a policy  *)
(* that changes the world (the airline database) and talks to a user.  It  *)
(* is either brought to an end by the user or by a transfer to a human,    *)
(* and is then worth 1 exactly when the world the policy itself has made   *)
(* is the task's target and the answers asked for were given; or it is cut *)
(* short and is worth 0; or it is aborted and has no score at all.         *)
(* Episodes never disturb one another.                                     *)
(***************************************************************************)
EXTENDS Naturals

CONSTANTS Episodes,   \* identifiers of the rollouts of a batch
          Worlds,     \* what the database may contain
          FreshWorld, \* the database as loaded from disk
          Goals       \* what a task asks: [target : Worlds, asks : BOOLEAN]

VARIABLES status,  \* status[e] \in Statuses
          goal,    \* goal[e] \in Goals
          world,   \* world[e] \in Worlds: what e's policy made of the database
          said,    \* said[e]: e's policy gave the answers its task asks for
          score    \* score[e] \in Nat, 0 until the episode is scored

vars == <<status, goal, world, said, score>>

Statuses == {"waiting", "playing", "over", "scored", "aborted"}

Worth(e) == IF world[e] = goal[e].target /\ (goal[e].asks => said[e]) THEN 1 ELSE 0

Init ==
  /\ status = [e \in Episodes |-> "waiting"]
  /\ goal \in [Episodes -> Goals]
  /\ world = [e \in Episodes |-> FreshWorld]
  /\ said = [e \in Episodes |-> FALSE]
  /\ score = [e \in Episodes |-> 0]

Begin(e) ==
  /\ status[e] = "waiting"
  /\ status' = [status EXCEPT ![e] = "playing"]
  /\ UNCHANGED <<goal, world, said, score>>

\* The policy acts: it may change the world, or say something.
Play(e) ==
  /\ status[e] = "playing"
  /\ \E w \in Worlds : world' = [world EXCEPT ![e] = w]
  /\ said' \in {said, [said EXCEPT ![e] = TRUE]}
  /\ UNCHANGED <<status, goal, score>>

\* The user, or a transfer to a human, ends the conversation; what the policy
\* says last still counts, and it may not act any more.
End(e) ==
  /\ status[e] = "playing"
  /\ status' = [status EXCEPT ![e] = "over"]
  /\ said' \in {said, [said EXCEPT ![e] = TRUE]}
  /\ UNCHANGED <<goal, world, score>>

Judge(e) ==
  /\ status[e] = "over"
  /\ status' = [status EXCEPT ![e] = "scored"]
  /\ score' = [score EXCEPT ![e] = Worth(e)]
  /\ UNCHANGED <<goal, world, said>>

\* A limit or a failure of the user's side cuts the episode: no reward.
Cut(e) ==
  /\ status[e] = "playing"
  /\ status' = [status EXCEPT ![e] = "scored"]
  /\ UNCHANGED <<goal, world, said, score>>

Abort(e) ==
  /\ status[e] \in {"playing", "over"}
  /\ status' = [status EXCEPT ![e] = "aborted"]
  /\ UNCHANGED <<goal, world, said, score>>

Next == \E e \in Episodes :
          Begin(e) \/ Play(e) \/ End(e) \/ Judge(e) \/ Cut(e) \/ Abort(e)

Spec == Init /\ [][Next]_vars
=============================================================================
