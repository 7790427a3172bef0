# ToolAgent-GRPO in TLA+

Specifications of the parts of ToolAgent-GRPO whose behaviour depends on the
order in which things happen: the concurrent rollouts of a GRPO batch, the
collection of SFT trajectories by a restartable script and the data sets made of
it, the training step that turns a batch of prompts into judged scores, the pool
of threads that asks the judge, the episodes of the evaluation and of the teacher,
and the airline database they all act on. Source paths below are relative to the
root of the repository.

1. [The system](#1-the-system)
2. [Modules](#2-modules)
3. [Runs](#3-runs)
4. [Proofs](#4-proofs)
5. [Where the code and its documentation disagree](#5-where-the-code-and-its-documentation-disagree)
6. [What is not modelled](#6-what-is-not-modelled)
7. [Plan](#7-plan)

## 1. The system

| Component | State | Operations | Talks to |
|---|---|---|---|
| Rollout loop, `src/toolagent/verl_integration/agent_loop.py` on veRL's `tool_agent_loop.py` | the coroutine's place, `AgentData` (turn counters, messages) | `run`, the handlers of the loop's states | the interaction (direct calls), the tools, the inference server |
| tau-bench interaction, `interaction.py`, `context.py`, `reward_state.py` | `_instance_dict` shared by all rollouts; per rollout the state dict (`total_reward`, turn counters, `done`); two ContextVars | `start_interaction` (with replay of actions), `generate_response`, `is_done`, `calculate_score`, `finalize_interaction` | tau-bench's `Env` in worker threads |
| Tool adapters, `tools.py` | none of their own | `execute`, `execute_tau_tool_action` | the `Env` and state dict the ContextVars name |
| tau-bench environment, `tau-bench/tau_bench/envs/base.py` | `data`, `actions`, the simulated user | `reset`, `step`, `calculate_reward` | the user model |
| SFT collection, `scripts/train/sft/collect_sft_data.py` | per task three files, the merged files, summary and split; a pool of threads | `collect_one_task`, `merge_success_files`, `main`; may be killed and launched again | teacher and user models; evaluation and data preparation read `split.json` |
| Data preparation, `scripts/train/grpo/build_grpo_parquet.py` | `train.parquet`, `val.parquet` | `main`, run once per split, at any time | `split.json` |
| Training step, `verl/verl/trainer/ppo/ray_trainer.py` and `agentic_extensions.py` (the project's changes to veRL) | the batch, the uids, the active prompts of the rounds, the rewards | `_apply_curriculum`, `_generate_b_ndsr_batch`, `apply_judge_reward` | rollouts, `split.json`, the judge |
| LLM judge, `training/llm_judge.py` | a cache of step scores | `score_steps`, `densify_trajectory`, `densify_rewards` (a pool of threads) | the judge model |
| B-NDSR heuristics and JASS, `training/b_ndsr.py`, `training/jass.py` | none | pure functions, one request to a judge model | |
| Evaluation, `evaluation.py`, `scripts/eval/run_policy_eval.py` | the conversation, results in memory, report files | `run_single_task`, `OpenAICompatPolicy` with its truncation (which the collection uses too), `write_eval_report` | policy and user models |
| Airline tools, `tau-bench/tau_bench/envs/airline/tools` | users' payment methods and lists, reservations | book, cancel, update, certificates | called by `Env.step` |
| LoRA training, export, uploads, servers | files | scripts run once | |

**What is hard about it.** All the rollouts of a batch live in one event loop
and share one `TauBenchInteraction`; they suspend at every model call, and
`env.reset` and the user's answers run in threads. A tool call finds its
environment through a ContextVar. `calculate_reward` destroys the database it
grades. An episode can be ended by a user, by a transfer, by a limit or by an
exception, and each path must leave the table, the score and the database right.
The collection script is killed and launched again over its own files. The
training step groups rollouts twice, for the rounds and for the judge, and by keys
that were given before the curriculum duplicated rows. The judge's threads share a
cache without a lock and under a key that leaves out a part of what the judge is
shown. A conversation that outgrew its limit is cut, and whether it was decides if a
rollout becomes training data. The airline tools check a payment before they take it,
but each by itself, and an exception in between is just an answer.

**What makes each part correct.**

- Rollouts: the score is the outcome of the rollout's own episode; nothing a
  rollout does reaches another; `_instance_dict` holds just the live rollouts; the
  policy never sees what the grading did; every rollout ends.
- Collection: what is merged and summed up is what some launch committed, however
  many were killed; no held-out row gets into the training set; a launch ends.
- Data preparation: what the policy is validated on as unseen is in no data set it was
  trained on, however launches and preparations overlap or are killed.
- Training step: no prompt is given up before its budget is spent on failures, no
  copy of a prompt costs more than the budget, and the judge skips a failure for want
  of a success only where the rounds have spent all of it.
- Judge: the threads and their cache give each row the reward it would get alone, or
  the call raises and no reward changes; a success outscores every failure.
- Evaluation and teacher: an episode is worth what the policy reached in it; what is
  sent of a long conversation is its newest run that fits; a rollout is marked from
  the first message the policy wrote without knowing all of it.
- Airline tools: reservations that stand are paid, gift cards account for what was
  charged to them, a certificate pays once, a cancellation reverses everything, and
  the lists of the users are true.

## 2. Modules

| Module | What it is |
|---|---|
| `Episode` | abstract: what a rollout promises its trainer |
| `RolloutSession`, `RolloutSession_proofs` | the rollouts of a batch: loop, interaction, tools, environment; its theorems, among them that it implements `Episode` |
| `PolicyEpisode`, `PolicyEpisode_proofs` | the episodes of the evaluation and of the teacher, and their theorems; implements `Episode` as well |
| `SFTCollection`, `SFTCollection_proofs` | the collection script and the preparation of the GRPO data, and their theorems |
| `GRPOBatch`, `GRPOBatch_proofs` | one training step up to the advantages, and its theorems |
| `RewardShaping` | abstract: what a call of `densify_rewards` gives its caller |
| `JudgePool`, `JudgePool_proofs` | `densify_rewards`: threads, cache, answers, rewards; implements `RewardShaping` |
| `AirlineDB`, `AirlineDB_proofs` | the writing tools of the airline domain, and their theorems |
| `SumTheorems` | facts about finite sums, for the theorems about rows, scores, amounts and lengths |
| `MC...` | constants for TLC |

Operators whose comment begins with "Wrong variant" belong to no behaviour of the
system: they are the plausible mistakes each property is tested against.

### RolloutSession

`phase[r]` is the place where the coroutine of rollout `r` can be suspended: the
states of veRL's loop (`pending`, `generating`, `tools`, `interacting`), the
awaits of the interaction (`resetting`, `replaying`, `stepping`, `replied`) and
the ends. Code between two awaits is one action, so the interleavings of the
model are those of the event loop and its threads. `env`, `state`, `turns`,
`ctx` and `instances` are the environment, the state dict, `AgentData`'s
counters, the ContextVars of the rollout's context and the keys of
`_instance_dict`. `score` is the `final_score` of the output, and `policyDb` a
history variable: the database as the rollout's own actions made it, whatever the
grading did to `env.db`.

| Actions | Code |
|---|---|
| `Launch`, `ResetReturns`, `ResetThenReplay`, `Replay...`, `SetupFails` | `run` up to its `try`, `start_interaction`, `_replay_b_ndsr_actions` |
| `BuildPrompt`, `GenerateStops`, `GenerateCalls`, `GenerateReply`, `LoopFails` | the pending and generating states |
| `CallRejected`, `CallBadArguments`, `CallRaises`, `CallTool`, `CallTransfer`, `ToolsReturn` | `_call_tool`, `TauBenchToolBase.execute`, `execute_tau_tool_action`, the override of the tools state |
| `Respond`, `UserReplies`, `UserStops`, `UserFails`, `TurnReturns` | `generate_response` before, in and after its await, with `Env.step` |
| `Close` | the score, the output and the `finally` of `run` |

Abstractions: a database is one of a few values, and a tool call may turn it into
any of them; `env.actions` is the set of the kinds of actions in it; whether a
response is full is a choice, since token counts are not modelled; counters that
are only compared with a limit stop there. Nothing in the repository passes
`b_ndsr_replay_actions`, so the shipped program has `ReplayLimit = 0`. The
shipped settings allow one tool call per message (`MaxParallelCalls = 1`). The
vendored `tool_agent_loop.py` has no interacting state: `agent_loop.py` was written
for a veRL release that has one (no tool call leads to it, the handler awaits
`generate_response` and counts a user turn), and the model follows that use.

### SFTCollection

`up` is where `main()` is, `pc[t]` where `collect_one_task(t)` is. `rows`,
`cont` and `meta` are the three files of a task, each `Absent`, `Partial` (opened,
not closed: what a reader finds is unknown) or its contents, abstracted to line
counts. Opening and closing a file are two steps, and `Crash` may come between any
two. `got` is what the thread returns, `merged` the merged files, `summary`
the summary and split files. Task ids are assumed to be distinct: the
script does not check that, and two threads would write the same files if they were
not. `HeldOut` is `build_split`, with an exact stride where the code has a float:
for a few pairs of sizes (30 tasks, 22 held out) a product is rounded down and the
task before is taken; the theorems use nothing of how the set is made.
For distinct ids the loop that fills up the held-out set never runs.

`ReadTrainIds`, `ReadValIds`, `WriteTrain`, `WriteVal` and `PrepareStops` are
`build_grpo_parquet.py` as `prepare_grpo_data.sh` calls it. It reads `split.json` twice,
first for the ids to train on and then for those to validate on, builds the rows, and
writes two files; a launch may rewrite the split, or be killed while it does, between any
two of these steps. `preparing` is the place of the script with what it has read. An
unfinished split is refused by `json.loads`, and one that lacks the tasks asked for by the
script itself; a parquet file that was being written when the script was killed has no
footer and no row of it is read. Two fields of `parquet` are history: whether one process
wrote both files (`paired`), and whether its two reads saw one hold-out set (`agreed`). So
is `given`, the arguments of the launches so far: some properties speak only while these
launches hold out the same tasks (`OneHoldout`), or of a launch whose metas cannot be stale
(`NoStaleMeta`: it overwrites, or no launch did so far).
`summary` stands for `summary.json` and `split.json`, which are written one after the other
from the same values.

### GRPOBatch

A row of the batch stands for the uid it was given. `prompts[p]` is the row the
curriculum put at position `p`; several positions may hold one row, hence one
uid. `wins[u]` and `fails[u]` count the rollouts of a group, `active` the
positions the next round generates. A tau-bench score is 0 or 1, so that the
thresholds of the rounds (0.5) and of the judge (1.0) separate the same rollouts.
`Settings` says which features are on and whether `DataProto.slice` takes a list
of indices. A batch made by `build_grpo_parquet.py` has no `task_id` column, so
that `apply_judge_reward` groups by uid. `_apply_b_ndsr` is called only when
`B_NDSR_ENABLED` is off, when it returns its argument, and is left out. `JudgeModes` are
the ways through the head of `apply_judge_reward`: off, `llm_judge` cannot be imported, the
batch has no `llm_judge_messages`, or on; in the first three the rewards are returned as
they are (`SkipJudge`). Of a group, `judged` counts the failures that were given a score and
`skipped` those left alone for want of a success. A rollout whose messages are not a list is
passed over, and one without a response token keeps its 0: how many of a group there are is
a choice, up to `MaxPassedOver`.

### JudgePool

`at` is where `densify_rewards` is, `pc[i]` the place of the thread that scores row
`i`. `CacheHit`, `CacheMiss`, `JudgeAnswers`, `Store` and `Finish` are the turns of the
loop of `score_steps`, split where the global interpreter lock may let another thread in:
between the look-up and the write any thread may answer the same key. `Take` and
`TakeRaises` are the loop over `ex.map`, which hands out the results in the order of
submission. A row whose thread raised ends that loop: the rows no thread has started are
cancelled, and the `with` waits for the threads that run before the exception goes on
(`LeaveRaising`). The rewards are written by `BlendAll` at the end and nowhere else. A
step is what was said, what was then seen, and whether it writes; `Key` and `Prompt` say
which of these the cache and the judge look at. The judge may answer a prompt differently
each time, or fail: `Answers` gives a set per prompt. What a row could get by itself is then
a set, too (`ShapedAlone`): the rewards of `AloneScores`, in which each step has one of the
totals its calls may give. Scores are integers in parts of 1.0, rewards fractions, so that
no rounding hides an order.

Nothing in the repository calls `densify_rewards`, the batch function of the module. The
trainer's `apply_judge_reward` calls `densify_trajectory`, row by row and with a cache of
its own for each row; it reaches the same `score_steps`, hence one row of a batch in
`JudgePool` is what it does for a failure. Which rows it does it for is in `GRPOBatch`.

### PolicyEpisode

One driver plays `Samples` episodes after another: `driver` is `run_single_task` under
the loop of `run_policy_eval.py`, or `run_teacher_rollout` under that of
`collect_one_task`. They differ in two places: the teacher makes only the first call of
a message, and only the teacher looks at `was_truncated`. `Request` is
`_truncate_messages`, with a message reduced to its role, the length of its text and
that of its names, ids and arguments, which are never clipped. `saw` is a history
variable: for every message of the policy, whether it was shown the whole conversation.
The reset of the environment lies outside the `try` of both drivers, so that
`ResetRaises` ends the whole loop and no result of it is returned.

### AirlineDB

One action per tool that runs to its end and one for its refusals and exceptions; every
call may be made by any user with any arguments of small sets, since the tools check no
more than they check. The flights are constants: no tool writes them, the seats taken by
a booking are not deducted. An entry of a payment history records which tool wrote it,
for the properties only.

## 3. Runs

| Run | Instance | Properties | Question |
|---|---|---|---|
| `rollouts_shipped` | 2 rollouts, 3 databases, 2 tasks, turn limits 2/3/3, shipped settings | `TypeOK`, `ScoreIsOutcome`, `EntryLifecycle`, `OracleIsolation`, `EffectsStayHome`, `EpisodeSpec` | do concurrent rollouts each implement an episode, and does the grading ever show through? |
| `rollout_replay` | 1 rollout, 2 calls per message, up to 2 replayed actions, fairness | `RewardBound`, `EveryRolloutEnds` | what can a rollout be paid, and does it end? |
| `collect_resume` | 2 tasks, 2 threads, 2 launches each with or without `--overwrite` and with or without a task held out, preparations at any time, fairness | `TypeOK`, `MergeReadsCommitted`, `SummaryTrue`, `UnseenStaysUnseen`, `ValidatedOnUnseen`, `LabelsTrue`, `CommittedStays`, `EveryLaunchEnds` | does resuming after kills lose, invent or leak rows, does a preparation that overlaps a launch, and does a launch end? |
| `batch_rounds` | 3 positions, drawn with repetition, all 32 settings, up to one failure of a group passed over | `TypeOK`, `FailedGroupsGetEight`, `RoundBudget`, `SkippedSpentAll` | what do the rounds spend, and what does the judge leave alone? |
| `judge_pool` | every batch of 3 out of 7 kinds of rows, 2 threads, a judge that goes by what was said and fails at times, fairness | `TypeOK`, `SuccessOutscores`, `ShapingSpec`, `CallEnds` | do threads and cache show in the rewards? |
| `airline_calls` | 2 users, 2 flights, 3 bookings, 4 calls that change the database, any number that do not | `TypeOK`, `PaidInFull`, `GiftCardsBalance`, `CertificatesSpentOnce`, `CancelReverses`, `ListsTrue` | what do reservations, balances, certificates and lists say of each other? |
| `episode_drivers` | 2 episodes, 3 turns, a limit of 9, 6 kinds of messages, both drivers | `TypeOK`, `ContaminationTrue`, `RequestSound`, `EpisodeSpec` | what is sent and marked, and does each driver implement an episode? |
| `rounds_easy` | 2 rows, the rounds without curriculum and judge | `EasyTasksStopAtFour`, violated | section 5 |
| `judge_observed`, `judge_raises` | the batches of `judge_pool`, and a judge that goes by what was seen, or that of `judge_pool` | `AsAlone`, `FailureStaysInRow`, each violated | section 5 |
| `airline_cabin`, `airline_twice` | the data of `airline_calls`, 3 calls; the offers of `airline_calls`, or one that lists a certificate twice | `CabinPaid`, `ErrorsChangeNothing`, each violated | section 5 |

**Bounds.** Two rollouts are enough for one to disturb another: the properties relate at
most two, and one other rollout can be at every phase while the first moves. Three
databases are the loaded one, the target and a wrong one; one task's target is the
loaded database, the other's is not, and only one has outputs. The turn limits let each
counter pass below, at and after its limit, and let an episode have a tool turn and a
user turn in both orders. Two launches let the second find files of the first that are
committed, torn or both, of a launch with the same arguments or with others. Two tasks are
enough for two hold-out sets, none and one task, for a data set that is neither empty nor
all, and for a launch that ends between the two reads of a preparation which began on the
split of the other; a task waits in the queue until a thread starts it. One failure passed
over lets a group be judged in part, in whole, or, if it is its only one, not at all. Two
positions with one row are enough for a shared uid; the third leaves another group beside
it. Three rows over two threads let two threads ask for one key at once while the third row waits,
and let a failing thread be taken while another still runs; the kinds of rows have
successes, rows without messages or steps, steps in common within a row, across rows and
across groups. Four changing calls are the fewest in which a booking is changed twice
and cancelled, or three bookings are made and one of them cancelled. A limit of nine
against messages of one to eight characters lets a conversation outgrow it after one or
two turns with a last message that fits, fits alone, or does not. The two rollouts of
`rollouts_shipped` are interchangeable and declared symmetric; no run with a liveness
property has symmetry. The passing runs visit between 3,899 and 1,309,697 distinct states, and
between them every action. Runs switch the deadlock check off because rollouts, launches,
calls and steps really end.

**Checked assumptions of the inputs.** `airline_calls` gives no offer that lists a gift
card twice (`NoGiftCardTwice`; its balance might end below zero, see the remarks of
section 5) or a certificate after a gift card twice (`CertificatesFirst`; see
`airline_twice`). It makes no fourth booking: the guard is the model's, since the tool only assumes it in a comment
(`book_reservation.py:30`) and has no check. The amounts of certificates are assumed not to
be negative; `send_certificate` puts any number it is given into the wallet.
`OpeningAssumption` and `OpeningPaid` say what the database of a task is like before the
first call. The airline data shipped with
tau-bench is: each of its 2,000 reservations was paid exactly what it costs, with methods
of its user, and none of its payment methods has an id that `send_certificate` gives out.
`judge_pool` has a judge whose answers may differ from call to call but do not heed what
was seen (that of `judge_observed` does).

**Fairness.** `RolloutSession!FairSpec` is weak fairness of each rollout: the
event loop runs every ready task, and a call in a thread returns or raises (the
clients of the models have timeouts). `SFTCollection!FairSpec` is weak fairness
of `main()` and of each submitted task, for the same reasons; nothing is
assumed of kills. `JudgePool!FairSpec` is weak fairness of `densify_rewards` and of
its threads together: a call of the judge has a timeout.

## 4. Proofs

| Theorem | Assumes of the constants | What it says |
|---|---|---|
| `TypeCorrect`, `EntriesCorrect`, `EffectsStay` | nothing beyond their types | types, `EntryLifecycle` and `EffectsStayHome` for any number of rollouts and any limits |
| `OracleStaysOut` | no replay | `OracleIsolation`, with any number of calls per message |
| `RewardBounded` | nothing beyond their types | `RewardBound`, for any number of calls per message and of replayed actions |
| `ScoreCorrect`, `ImplementsEpisode` | one call per message, no replay | `ScoreIsOutcome`, and that `RolloutSession` implements `Episode` |
| `CollectionTypes`, `CommittedFilesStay` | distinct task ids | types and `CommittedStays`, for any tasks, threads and launches |
| `MergeCommitted`, `SummaryIsTrue` | distinct task ids | `MergeReadsCommitted`, `SummaryTrue`, for every launch but one without `--overwrite` after one with it |
| `UnseenStay`, `ValidationUnseen`, `LabelsAreTrue` | distinct task ids; any hold-out sizes | `UnseenStaysUnseen`, `ValidatedOnUnseen`, `LabelsTrue`; the first two say more while all launches hold out the same tasks |
| `PoolTypes` | batches and answers of the right shape | `JudgePool!TypeOK`, for any batches, answers, threads and samples |
| `PoolKeepsPromise`, `PoolScoresAlone` | and a judge that may answer the same to all steps of one key, differently from call to call | that `JudgePool` implements `RewardShaping`, and `AsAlone` |
| `PoolKeepsOrder` | an alpha below 1, as `blend_reward` asks | `SuccessOutscores`, for any judge |
| `ListsKept`, `AllPaid`, `CertificatesOnce`, `CancellationsReverse` | three new ids, at most three bookings, and opening data as the assumptions of the module say | `ListsTrue`, `PaidInFull`, `CertificatesSpentOnce`, `CancelReverses`, for any data, offers and number of calls |
| `BalancesTyped` | and `NoGiftCardTwice` | `AirlineDB!TypeOK`: no balance below zero |
| `GiftCardsAddUp` | and `CertificatesFirst` | `GiftCardsBalance` |
| `EpisodeTypes`, `DriversKeepPromise` | nothing beyond their types | `PolicyEpisode!TypeOK`, and that both drivers implement `Episode`, for any number of episodes, limits and messages |
| `RequestsSound`, `ContaminationTold` | nothing beyond their types | `RequestSound`, `ContaminationTrue`, for conversations of any length |
| `BatchTypes`, `BudgetKept`, `NobodyGivenUpEarly`, `SkippedSpent` | nothing beyond their types | `TypeOK`, `RoundBudget`, `FailedGroupsGetEight`, `SkippedSpentAll` for batches of any size, any draw and any rows the judge is not shown |

**The inductive invariants.**

- `LinkInv` (rollouts): `EntryLifecycle`, and in a live phase the context of a
  rollout names itself. `EntryLifecycle` alone does not say whose environment a tool call would find, so it is not enough for
  `EffectsStayHome`.
- `CleanInv`: until the user's last answer is in, the environment holds what the
  policy made and no ground-truth action; a transfer on the way leaves it so.
- `BookedInv`: the reward in the state dict is the verdict of the episode, if it
  is over, and 0 before; between the answer of a user and the return of the await
  the verdict is in `reply` instead. The refinement maps an episode's status to
  `over` from the moment the environment is graded, and its score is worth what
  `BookedInv` says was booked.
- `Skipping` and `Protocol` (collection): at each place of `collect_one_task`,
  what is on disk; and, while no launch was one that overwrites, that a closed meta means
  closed row files with the counts it gives. A launch with `--overwrite`, killed after it
  rewrote the rows, leaves the old meta for one without it to trust. That is what the code
  does, not a limit of the proof, and why `MergeReadsCommitted` and `SummaryTrue` are about
  launches with `NoStaleMeta`.
- `Tally`: while `merge_success_files` goes through the tasks, the data sets hold the
  successes of the tasks it has passed. `SummaryTrue` only speaks of the end.
- `PaidInv` (rollouts): nothing is paid while the episode goes on but for the replay, and in
  the tools state what was paid and the calls that are left make up no more than the bound.
- `HeldApart`, for any hold-out sets: the tasks a split calls covered are none of its unseen
  ones, from the merge on `train.jsonl` has none the running launch holds out, and between
  its two writes a preparation has written the very tasks it compares with. It needs no
  relation between the two reads: the labels are those of the first read's tasks.
- `Separate`, while all launches hold out the same tasks: no task in `train.jsonl` or
  `train.parquet` is one of them, and they are what is held out, in the split and in both
  reads of a preparation. `ValidatedOnUnseen` alone does not say what the split on disk will
  be turned into.
- `Paced` (rounds): after round *r* a group has 4, 6 or 8 rollouts for each copy
  of its prompt; one without a success has kept up with the rounds and all its
  copies are active; one that is active in the second round has no success, and in
  the third none or fewer than six rollouts.
- `Scored`: what was scored is in groups with a success and what was skipped in groups
  without, together no more than the failures; with `Paced`, the latter spent everything.
- `PlaceInv` and `ScoreInv` (judge): where the caller and each thread can be together,
  and that every entry of the cache, every score of a list and every running sum is what the
  judge may say of that step alone. That two threads may fill one entry does no harm then,
  since either value is one it may have; this is where the assumption on the judge is used.
- `ValueInv` (judge): every score, running sum and entry of the cache lies between none and
  all of what the samples may give. The blended reward of a failure is then at most alpha.
- `ListInv` (airline): the new ids are taken in order (`Numbered`), so that the next
  one is free: `ListsTrue` alone does not exclude that a booking overwrites one.
- `Typed` (airline): the records have their types and the ids of certificates name nothing
  else. Which amounts a wallet holds is left open, since gift cards may go below zero for
  some offers; `Balanced` adds that they do not under `NoGiftCardTwice`. The theorems about
  money then go by what a call is (`Steps`): it cancels, updates, books, sends a
  certificate or changes nothing. A cancellation
  appends the negation of each payment, so that the sums cancel; an update charges the
  difference that the new cost makes; a booking was checked against its cost, and its
  payments are followed one by one in the order in which they are made.
- `PlayInv` (evaluation, teacher): episodes to come are fresh, those done have a
  result, the one being played is over only when its driver is about to return, and its
  reward is then its worth. The refinement maps the moment of `Return` to the verdict.
- `Opened` and `Noted` (teacher): a conversation begins with the system prompt and a message
  without ids; there is an entry of `saw` for every turn, the turn that is noted is
  among them, and the conversation has been too long since. Without the first a request
  might equal a conversation it was cut from, without the second a later turn might
  be shown all of it again.

**Sums and walks.** The library's induction theorems take an operator as a parameter, and
the provers cannot use them. What they give is obtained from the well-foundedness of strict
inclusion and of < instead: of the finite sets, or the numbers, that fail, one is
minimal (`MinimalSubset`, `LeastIn`). `SumTheorems` derives from it that the
recursion behind `SumFunctionOnSet` has a solution and that any element may be taken out
of a sum first, then the facts the proofs cite: sums that are equal, ordered, added,
renamed, joined. `_truncate_messages` is followed in the same way (`WalkExists`,
`WalkFits`): after *n* messages it either still goes on and holds the last *n*, or it
stopped at the first that did not fit.

**Model-checked only.** The liveness properties `EveryRolloutEnds`, `EveryLaunchEnds`
and `CallEnds`, since the prover has no fairness; and the violated properties of section
5. Every invariant, action property and refinement that a passing run checks is stated by
a theorem.

## 5. Where the code and its documentation disagree

- **Easy tasks do not stop at four** (`rounds_easy`). `ray_trainer.py:678` makes a
  prompt active when its scores are fewer than the round's size. A prompt that
  succeeded with four is left out of the second round; then it has four scores,
  fewer than six, and comes back in the third, whose two rollouts it gets. The script
  says "easy tasks stop at 4", the docstring "then add 2 for failed tasks".
- **Steps that are not identical share a score** (`judge_observed`).
  `step_cache_key` is made of the group, the thought and the calls, while
  `build_step_prompt` also shows the judge the observations; the comment at
  `llm_judge.py:420` speaks of identical steps. A retry of a call that failed gets the
  score of the failed one, or the other way round, by the order of the threads.
- **One unreadable answer refuses the batch** (`judge_raises`). The docstring of
  `densify_rewards` says that a per-trajectory judge failure leaves that row's reward
  unchanged. An answer that is JSON but no object is an `AttributeError` which `score_steps`
  does not catch; it ends the call before any reward is written. `RewardShaping` states
  what is left to rely on: all failures are shaped, or none is.
- **The cabin of a reservation never changes** (`airline_cabin`).
  `update_reservation_flights` compares the requested cabin with `reservation["cabin"]`,
  which it never writes: changed to business and back, a reservation keeps the
  business fares. The wiki of the domain says that cabin changes cost the
  difference.
- **A booking that is refused has charged** (`airline_twice`). The checks look at each
  payment by itself; a certificate listed twice passes them, and the second deletion
  raises after the gift card was charged. `book_reservation.py:93` says "if checks
  pass, deduct payment".

Remarks that no run decides:

- The vendored `DataProto.slice` takes a start, an end and a step; the rounds and the
  curriculum give it a list, so that it raises (`DrawRaises`, `RoundRaises`). The
  settings of `batch_rounds` have a `slice` that takes lists, as these callers expect, and
  the vendored one.
- Two threads that ask for the same step at once each keep their own value. If one call
  times out, it counts 0 for its row, and identical failures of one group get different
  rewards, although the comment at `llm_judge.py:420` calls a duplicate call harmless.
  `AsAlone` allows it: each row could have got its reward alone.
- Each listed payment of a booking is compared with the whole balance, so that a gift card
  listed twice passes the check that answers "not enough balance in payment method"
  (`book_reservation.py:89`) and ends below zero.

## 6. What is not modelled

The components with status `not_modelled` in `PROJECT.json`, for these reasons: no state
and no order of events (prompts, schemas, configuration, the reward function, uploads,
launchers, export); code without a caller (the checkpoints and heuristics of
`b_ndsr.py`, the selection of `jass.py`); third-party code the project only calls (the
rest of veRL, which is most of the repository's lines, tau-bench's agents, its retail
domain and its data); numeric training (LoRA and its label mask, which is up to a chat
template outside of the repository, log-probabilities, advantages, updates). Within the
modelled components: trace files, checkpoints recorded for B-NDSR that nothing reads,
message contents, token counts, sampling, metrics, the arithmetic of
`write_eval_report`, `collect_oracle_example`, and the seed and ratio of the curriculum. A
tool call that names `respond` would reach the simulated user through `Env.step`
(`base.py:96`) in the evaluation and in the teacher's rollouts; no tool schema offers that
name, and the models give the policy the tools of the schemas only.

## 7. Plan

Done, most important first: `Episode` and `RolloutSession` with the refinement;
`SFTCollection` with the split and the data preparation; `GRPOBatch`; `RewardShaping`
and `JudgePool`; `AirlineDB`; `PolicyEpisode`; their theorems, those about sums
included. To come:

1. What the theorems could say beyond the runs: `AsAlone` for a judge that heeds what was
   seen, with a key that holds it; the money of the airline without the bound on bookings;
   the split of `build_split` from its stride rather than as a given set.
2. `RolloutSession` over `AirlineDB` in the place of its abstract databases: one
   rollout, with the tools' own changes graded against the ground truth.
3. `write_eval_report` against reference definitions of pass@k and pass^k, and
   the ratio of the curriculum.
