----------------------------- MODULE GRPOBatch -----------------------------
(***************************************************************************)
(* One training step of the veRL fork, up to the advantages: the           *)
(* curriculum draws the prompts, B-NDSR generates their rollouts in rounds *)
(* of 4, 2 and 2 (or all at once when it is off), and the judge scores     *)
(* failed rollouts.  A row of the batch gets its uid before the curriculum *)
(* draws, so a row drawn twice shares one uid: a row stands for its uid.   *)
(*                                                                         *)
(* Data.  A rollout is a success (score 1) or a failure (score 0): of a    *)
(* group only the numbers of both matter.  The random draws are choices.   *)
(***************************************************************************)
EXTENDS Integers, FiniteSets

CONSTANTS Size,          \* rows of the batch
          TaskOf,        \* task id of each row
          Covered,       \* covered_seen_task_ids of split.json
          Uncovered,     \* uncovered_seen_task_ids
          RolloutN,      \* rollout.n
          MaxPassedOver, \* bound of the model: failures of a group that cannot be judged
          Settings       \* settings a step may find:
                         \* curriculum: GRPO_SEEN_CURRICULUM_ENABLED,
                         \* and the rows tell their tasks; progressive: B_NDSR_ENABLED;
                         \* judge: one of JudgeModes; listSlices: DataProto.slice takes a list of indices
                         \* (the vendored one does not, and raises)

\* LLM_JUDGE_ENABLED is off; llm_judge cannot be imported; the batch has no
\* llm_judge_messages; the judge is there.
JudgeModes == {"off", "missing", "mute", "on"}

Rows == 1 .. Size
Tasks == {TaskOf[i] : i \in Rows}

ASSUME BatchAssumption ==
  /\ Size \in Nat \ {0} /\ RolloutN \in Nat /\ MaxPassedOver \in Nat
  /\ DOMAIN TaskOf = Rows
  /\ Settings \subseteq [curriculum : BOOLEAN, progressive : BOOLEAN,
                         judge : JudgeModes, listSlices : BOOLEAN]

VARIABLES setting, \* the settings of the step
          at,      \* where fit() is
          prompts, \* prompts[p]: the row drawn at position p
          round,   \* rounds generated
          active,  \* positions the next round generates
          wins,    \* successes of each row's group
          fails,   \* its failures
          judged,  \* failures of it the judge has scored
          skipped  \* failures of it skipped, there being no success to compare with

scores == <<judged, skipped>>
vars == <<setting, at, prompts, round, active, wins, fails, scores>>

Init ==
  /\ setting \in Settings
  /\ at = "loaded"
  /\ prompts = [p \in Rows |-> p]
  /\ round = 0
  /\ active = Rows
  /\ wins = [u \in Rows |-> 0]
  /\ fails = [u \in Rows |-> 0]
  /\ judged = [u \in Rows |-> 0]
  /\ skipped = [u \in Rows |-> 0]

Raise ==
  /\ at' = "raised"
  /\ UNCHANGED <<setting, prompts, round, active, wins, fails, scores>>

-----------------------------------------------------------------------------
(* _apply_curriculum                                                       *)

\* Both kinds of tasks are there to choose from.
Mixed == Tasks \cap Covered # {} /\ Tasks \cap Uncovered # {}

\* CurriculumSampler.choose picks a task for position p (its own one, unless both
\* kinds are there), and _apply_curriculum a row of that task.
Drawable(p) ==
  IF Mixed THEN {u \in Rows : TaskOf[u] \in Covered \cup Uncovered}
  ELSE {u \in Rows : TaskOf[u] = TaskOf[p]}

\* Wrong variant: the index of a draw is taken for the row's own number.
DrawZeroBased ==
  /\ at = "loaded" /\ setting.curriculum /\ setting.listSlices
  /\ \E f \in [Rows -> 0 .. Size - 1] : prompts' = f
  /\ at' = "drawn"
  /\ UNCHANGED <<setting, round, active, wins, fails, scores>>

\* Every position gets a row its task can come from.
Draw ==
  /\ at = "loaded" /\ setting.curriculum /\ setting.listSlices
  /\ \E f \in [Rows -> Rows] : (\A p \in Rows : f[p] \in Drawable(p)) /\ prompts' = f
  /\ at' = "drawn"
  /\ UNCHANGED <<setting, round, active, wins, fails, scores>>

DrawRaises ==
  /\ at = "loaded" /\ setting.curriculum /\ ~setting.listSlices
  /\ Raise

TakeAll ==
  /\ at = "loaded" /\ ~setting.curriculum
  /\ at' = "drawn"
  /\ UNCHANGED <<setting, prompts, round, active, wins, fails, scores>>

-----------------------------------------------------------------------------
(* Generation                                                              *)

\* Of the group of u, how many rollouts a generation of n for each position makes.
Made(u, positions, n) == n * Cardinality({p \in positions : prompts[p] = u})

\* Every rollout made is a success or a failure.
Generate(positions, n) ==
  \E won \in [Rows -> 0 .. n * Size] :
    /\ \A u \in Rows : won[u] <= Made(u, positions, n)
    /\ wins' = [u \in Rows |-> wins[u] + won[u]]
    /\ fails' = [u \in Rows |-> fails[u] + Made(u, positions, n) - won[u]]

\* B-NDSR is off: rollout.n at once.
GenerateAll ==
  /\ at = "drawn" /\ ~setting.progressive
  /\ Generate(Rows, RolloutN)
  /\ at' = "generated"
  /\ UNCHANGED <<setting, prompts, round, active, scores>>

RoundSizes == <<4, 6, 8>>
Increments == <<4, 2, 2>>

\* Wrong variant: the budget is full at six.
StaysActiveToSix(u, size, w, f) == size < 6 /\ (w + f < size \/ w = 0)

\* Wrong variant: a group with a success goes on, one without stops.
StaysActiveIfWon(u, size, w, f) == size < 8 /\ (w + f < size \/ w > 0)

\* The group has fewer rollouts than the round is for, or no success.
StaysActive(u, size, w, f) == size < 8 /\ (w + f < size \/ w = 0)

\* One round of _generate_b_ndsr_batch, with the choice of the next one's.
Round ==
  LET size == RoundSizes[round + 1] IN
  /\ at = "drawn" /\ setting.progressive /\ setting.listSlices
  /\ round < 3 /\ active # {}
  /\ Generate(active, Increments[round + 1])
  /\ round' = round + 1
  /\ active' = {p \in Rows : StaysActive(prompts[p], size, wins'[prompts[p]], fails'[prompts[p]])}
  /\ UNCHANGED <<setting, at, prompts, scores>>

RoundRaises ==
  /\ at = "drawn" /\ setting.progressive /\ ~setting.listSlices
  /\ Raise

RoundsEnd ==
  /\ at = "drawn" /\ setting.progressive /\ setting.listSlices
  /\ round = 3 \/ active = {}
  /\ at' = "generated"
  /\ UNCHANGED <<setting, prompts, round, active, wins, fails, scores>>

-----------------------------------------------------------------------------
(* apply_judge_reward                                                      *)

\* Wrong variant: the anchor is looked for in the whole batch.
AnchoredAnywhere(u) == \E v \in Rows : wins[v] > 0

\* Some rollout of the group succeeded.  The groups are told apart by the task_id
\* of the batch or else its uid; no parquet of the project has such a column.
Anchored(u) == wins[u] > 0

\* The rewards are returned as they are.
SkipJudge ==
  /\ at = "generated" /\ setting.judge # "on"
  /\ at' = "shaped"
  /\ UNCHANGED <<setting, prompts, round, active, wins, fails, scores>>

\* Failures of the anchored groups get a score below 1 in place of their 0, those of the
\* others are counted as skipped.  Some are not: a rollout that left no list of messages is
\* passed over, and one without a response token keeps its 0.
ApplyJudge ==
  /\ at = "generated" /\ setting.judge = "on"
  /\ \E passed \in [Rows -> 0 .. MaxPassedOver] :
       /\ \A u \in Rows : passed[u] <= fails[u]
       /\ judged' = [u \in Rows |-> IF Anchored(u) THEN fails[u] - passed[u] ELSE 0]
       /\ skipped' = [u \in Rows |-> IF Anchored(u) THEN 0 ELSE fails[u] - passed[u]]
  /\ at' = "shaped"
  /\ UNCHANGED <<setting, prompts, round, active, wins, fails>>

\* An answer of the judge that is JSON but no object, or a broken HTTP answer,
\* is not caught on the way.
JudgeRaises ==
  /\ at = "generated" /\ setting.judge = "on" /\ \E u \in Rows : Anchored(u) /\ fails[u] > 0
  /\ Raise

-----------------------------------------------------------------------------
Next == \/ Draw \/ DrawRaises \/ TakeAll
        \/ GenerateAll \/ Round \/ RoundRaises \/ RoundsEnd
        \/ SkipJudge \/ ApplyJudge \/ JudgeRaises

Spec == Init /\ [][Next]_vars

-----------------------------------------------------------------------------
(* Properties                                                              *)

Rollouts(u) == wins[u] + fails[u]
Drawn(u) == \E p \in Rows : prompts[p] = u
Copies(u) == Cardinality({p \in Rows : prompts[p] = u})

\* Type invariant.
TypeOK ==
  /\ setting \in Settings
  /\ at \in {"loaded", "drawn", "generated", "shaped", "raised"}
  /\ prompts \in [Rows -> Rows]
  /\ round \in 0 .. 3
  /\ active \subseteq Rows
  /\ wins \in [Rows -> Nat] /\ fails \in [Rows -> Nat]
  /\ judged \in [Rows -> Nat] /\ skipped \in [Rows -> Nat]

\* No prompt is given up without a success before it has had its eight rollouts,
\* however its row was drawn (the next_active of _generate_b_ndsr_batch).
FailedGroupsGetEight ==
  at \in {"generated", "shaped"} /\ setting.progressive =>
    \A u \in Rows : Drawn(u) /\ wins[u] = 0 => Rollouts(u) >= 8

\* What the rounds spend: each copy of a prompt at most eight rollouts, and more
\* than six only on a group whose first six were failures.
RoundBudget ==
  setting.progressive => \A u \in Rows :
    /\ Rollouts(u) <= 8 * Copies(u)
    /\ Rollouts(u) > 6 * Copies(u) => wins[u] <= 2 * Copies(u)

\* The judge and the rounds agree on which groups are lost (apply_judge_reward after
\* _generate_b_ndsr_batch): a failure is skipped for want of a success only if every copy of
\* its prompt spent the whole budget of eight on failures, and none of such a group is
\* scored; no failure counts twice.
SkippedSpentAll ==
  at = "shaped" /\ setting.progressive =>
    \A u \in Rows : Drawn(u) =>
      /\ skipped[u] > 0 => fails[u] = 8 * Copies(u)
      /\ judged[u] > 0 => fails[u] < 8 * Copies(u)
      /\ judged[u] + skipped[u] <= fails[u]

(* What the repository says of the step, and the code does not do.         *)

\* "Generate candidates progressively: 4/6/8; easy tasks stop at 4": a prompt
\* whose first four rollouts all succeed gets no more of them.
EasyTasksStopAtFour ==
  [][\A u \in Rows : at = "drawn" /\ round > 0 /\ wins[u] = 4 /\ fails[u] = 0 =>
       Rollouts(u)' = 4]_vars
=============================================================================
