---------------------------- MODULE RewardShaping ----------------------------
(***************************************************************************)
(* What densify_rewards of llm_judge.py gives its caller, whatever its     *)
(* threads do: the rewards of a batch are shaped all at once, each row by  *)
(* what the judge may say of that row alone; or the call raises, which     *)
(* takes a row the judge may say something unreadable of, and every reward *)
(* is as it was.                                                           *)
(* That is less than its docstring says, by which a judge failure of one   *)
(* trajectory leaves that row's reward unchanged and the others shaped:    *)
(* JudgePool!FailureStaysInRow says so and is violated.                    *)
(***************************************************************************)
CONSTANTS Batches,    \* the batches a call may be given, functions from rows to rows' data
          Outcome(_), \* the reward a row comes with
          Shaped(_),  \* the rewards it may leave with, when scored by itself
          Raises(_)   \* the judge may say something of the row that cannot be read

VARIABLES stage, batch, rewards

vars == <<stage, batch, rewards>>

Rows == DOMAIN batch

Init ==
  /\ stage = "given"
  /\ batch \in Batches
  /\ rewards = [i \in Rows |-> Outcome(batch[i])]

Shape ==
  /\ stage = "given"
  /\ stage' = "shaped"
  /\ rewards' \in [Rows -> UNION {Shaped(batch[i]) : i \in Rows}]
  /\ \A i \in Rows : rewards'[i] \in Shaped(batch[i])
  /\ UNCHANGED batch

Refuse ==
  /\ stage = "given"
  /\ \E i \in Rows : Raises(batch[i])
  /\ stage' = "refused"
  /\ UNCHANGED <<batch, rewards>>

Next == Shape \/ Refuse

Spec == Init /\ [][Next]_vars
=============================================================================
