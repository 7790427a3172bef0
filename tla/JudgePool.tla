------------------------------ MODULE JudgePool ------------------------------
(***************************************************************************)
(* densify_rewards of llm_judge.py: the failed trajectories of a batch are *)
(* handed to a pool of threads, each of which has the steps of one         *)
(* trajectory scored by a judge model.  The threads share a cache of the   *)
(* scores; a trajectory looks its step up, asks the judge when it finds    *)
(* nothing, and writes the score.  When all are done the rewards are       *)
(* written.                                                                *)
(*                                                                         *)
(* Data.  A step is what the assistant said and called (said, one value    *)
(* for the text up to max_step_chars and the tool calls), what it then saw *)
(* (seen), and whether a writing tool is among the calls.  A score is a    *)
(* number of parts of Full.  A step's value is the sum of its samples, so  *)
(* that its mean is value / Samples parts.  A reward is a fraction.        *)
(***************************************************************************)
EXTENDS Integers, SequencesExt

CONSTANTS Batches,      \* the batches a call may be given
          Answers,      \* what the judge may answer to a prompt, for every prompt
          Full,         \* parts of a score of 1.0
          AlphaNum, AlphaDen, \* LLM_JUDGE_ALPHA
          Samples,      \* effective_n_samples
          MaxWorkers,   \* LLM_JUDGE_MAX_WORKERS
          OnlyKeySteps, \* LLM_JUDGE_ONLY_KEY_STEPS
          NoMessages,   \* a row whose messages are missing or malformed
          Missing       \* no entry in the cache

ASSUME PoolAssumption ==
  /\ Full \in Nat \ {0} /\ Samples \in Nat \ {0} /\ MaxWorkers \in Nat
  /\ AlphaNum \in Nat /\ AlphaDen \in Nat \ {0}
  /\ OnlyKeySteps \in BOOLEAN
  /\ Missing \notin Int

-----------------------------------------------------------------------------
(* The pure part: prompts, keys, answers, rewards                          *)

\* Wrong variant: the key of a step is the same for all tasks.
KeyOfText(uid, step) == [said |-> step.said]

\* step_cache_key: the observations are no part of it.
Key(uid, step) == [uid |-> uid, said |-> step.said]

\* build_step_prompt: they are part of this.
Prompt(uid, step) == [uid |-> uid, said |-> step.said, seen |-> step.seen]

\* select_key_steps: the writes, each with the step before it unless an equal
\* one is chosen already; all the steps when there is no write.
KeySteps(steps) ==
  LET chosen[n \in 0 .. Len(steps)] ==
        IF n = 0 THEN <<>>
        ELSE IF ~steps[n].write THEN chosen[n - 1]
        ELSE IF n > 1 /\ steps[n - 1] \notin ToSet(chosen[n - 1])
             THEN chosen[n - 1] \o <<steps[n - 1], steps[n]>>
             ELSE Append(chosen[n - 1], steps[n])
  IN  IF chosen[Len(steps)] = <<>> THEN steps ELSE chosen[Len(steps)]

StepsOf(row) == IF OnlyKeySteps THEN KeySteps(row.messages) ELSE row.messages

Judged(row) == ~row.success /\ row.messages # NoMessages /\ StepsOf(row) # <<>>

\* What a call of the judge may come back with.
Replies == [kind : {"score", "nan", "noise", "failed", "list"}, score : Int]

\* parse_judge_response and the errors score_steps catches: a call that fails or
\* an answer without JSON counts 0, NaN passes the clamp as 1.0.
Parsed(answer) ==
  CASE answer.kind = "score" -> IF answer.score < 0 THEN 0
                                ELSE IF answer.score > Full THEN Full ELSE answer.score
    [] answer.kind = "nan" -> Full
    [] answer.kind \in {"noise", "failed"} -> 0

\* JSON that is no object: data.get is an AttributeError, which nobody catches.
Unreadable(answer) == answer.kind = "list"

\* Wrong variant: the scores are added up.
BlendSum(scores) == [num |-> AlphaNum * SumFunction(scores), den |-> AlphaDen * Full * Samples]

\* blend_reward of a failure, given the values of its steps.
Blend(scores) ==
  [num |-> AlphaNum * SumFunction(scores), den |-> AlphaDen * Full * Samples * Len(scores)]

Outcome(row) == [num |-> IF row.success THEN 1 ELSE 0, den |-> 1]

\* A batch has rows numbered from 1, and every prompt of a step has its answers.
BatchAssumption(b) ==
  /\ DOMAIN b \subseteq Nat
  /\ \A i \in DOMAIN b : Judged(b[i]) =>
       /\ StepsOf(b[i]) \in Seq(ToSet(StepsOf(b[i])))
       /\ \A n \in DOMAIN StepsOf(b[i]) :
            /\ Answers[Prompt(b[i].uid, StepsOf(b[i])[n])] # {}
            /\ Answers[Prompt(b[i].uid, StepsOf(b[i])[n])] \subseteq Replies

ASSUME BatchesAssumption == \A b \in Batches : BatchAssumption(b)

-----------------------------------------------------------------------------
VARIABLES at,     \* where densify_rewards is
          batch,  \* the batch it was given
          pc,     \* pc[i]: where the thread of row i is
          scores, \* scores[i]: score_steps' list for row i
          asked,  \* asked[i]: judge calls made for its current step
          sum,    \* sum[i]: what these calls gave
          cache,  \* scores by key, of all the threads
          taken,  \* rows whose scores main() has taken from ex.map
          reward  \* rm_scores

vars == <<at, batch, pc, scores, asked, sum, cache, taken, reward>>

Rows == DOMAIN batch
Steps(i) == StepsOf(batch[i])
ToJudge == {i \in Rows : Judged(batch[i])}
Keys == UNION {{Key(batch[i].uid, Steps(i)[n]) : n \in DOMAIN Steps(i)} : i \in ToJudge}
Busy == {"scoring", "calling"}

Init ==
  /\ at = "extracting"
  /\ batch \in Batches
  /\ pc = [i \in Rows |-> "idle"]
  /\ scores = [i \in Rows |-> <<>>]
  /\ asked = [i \in Rows |-> 0]
  /\ sum = [i \in Rows |-> 0]
  /\ cache = [k \in Keys |-> Missing]
  /\ taken = {}
  /\ reward = [i \in Rows |-> Outcome(batch[i])]

\* Pass 1, and ex.map, which submits every row to the pool.
Submit ==
  /\ at = "extracting"
  /\ at' = IF ToJudge = {} THEN "blending" ELSE "judging"
  /\ pc' = [i \in Rows |-> IF i \in ToJudge THEN "queued" ELSE "idle"]
  /\ UNCHANGED <<batch, scores, asked, sum, cache, taken, reward>>

-----------------------------------------------------------------------------
(* score_steps, in a thread of the pool                                    *)

Goto(i, where) == pc' = [pc EXCEPT ![i] = where]

Current(i) == Steps(i)[Len(scores[i]) + 1]
CurrentKey(i) == Key(batch[i].uid, Current(i))
CurrentPrompt(i) == Prompt(batch[i].uid, Current(i))
HasStep(i) == Len(scores[i]) < Len(Steps(i))

\* A thread is free and takes the row submitted first.
Start(i) ==
  /\ pc[i] = "queued" /\ \A j \in Rows : pc[j] = "queued" => i <= j
  /\ Cardinality({j \in Rows : pc[j] \in Busy}) < IF MaxWorkers > 1 THEN MaxWorkers ELSE 1
  /\ Goto(i, "scoring")
  /\ UNCHANGED <<at, batch, scores, asked, sum, cache, taken, reward>>

CacheHit(i) ==
  /\ pc[i] = "scoring" /\ HasStep(i) /\ cache[CurrentKey(i)] # Missing
  /\ scores' = [scores EXCEPT ![i] = Append(@, cache[CurrentKey(i)])]
  /\ UNCHANGED <<at, batch, pc, asked, sum, cache, taken, reward>>

CacheMiss(i) ==
  /\ pc[i] = "scoring" /\ HasStep(i) /\ cache[CurrentKey(i)] = Missing
  /\ asked' = [asked EXCEPT ![i] = 0]
  /\ sum' = [sum EXCEPT ![i] = 0]
  /\ Goto(i, "calling")
  /\ UNCHANGED <<at, batch, scores, cache, taken, reward>>

\* Wrong variant: one call more than the ensemble has.
JudgeAnswersOnceMore(i) ==
  /\ pc[i] = "calling" /\ asked[i] <= Samples
  /\ \E answer \in Answers[CurrentPrompt(i)] :
       ~Unreadable(answer) /\ sum' = [sum EXCEPT ![i] = @ + Parsed(answer)]
  /\ asked' = [asked EXCEPT ![i] = @ + 1]
  /\ UNCHANGED <<at, batch, pc, scores, cache, taken, reward>>

\* One call of the ensemble comes back, or fails.
JudgeAnswers(i) ==
  /\ pc[i] = "calling" /\ asked[i] < Samples
  /\ \E answer \in Answers[CurrentPrompt(i)] :
       ~Unreadable(answer) /\ sum' = [sum EXCEPT ![i] = @ + Parsed(answer)]
  /\ asked' = [asked EXCEPT ![i] = @ + 1]
  /\ UNCHANGED <<at, batch, pc, scores, cache, taken, reward>>

JudgeRaises(i) ==
  /\ pc[i] = "calling" /\ asked[i] < Samples
  /\ \E answer \in Answers[CurrentPrompt(i)] : Unreadable(answer)
  /\ Goto(i, "failed")
  /\ UNCHANGED <<at, batch, scores, asked, sum, cache, taken, reward>>

\* The score is written over whatever another thread wrote meanwhile.
Store(i) ==
  /\ pc[i] = "calling" /\ asked[i] = Samples
  /\ cache' = [cache EXCEPT ![CurrentKey(i)] = sum[i]]
  /\ scores' = [scores EXCEPT ![i] = Append(@, sum[i])]
  /\ Goto(i, "scoring")
  /\ UNCHANGED <<at, batch, asked, sum, taken, reward>>

Finish(i) ==
  /\ pc[i] = "scoring" /\ ~HasStep(i)
  /\ Goto(i, "finished")
  /\ UNCHANGED <<at, batch, scores, asked, sum, cache, taken, reward>>

-----------------------------------------------------------------------------
(* densify_rewards, over the results of ex.map                             *)

\* The results come in the order of submission.
NextResult(i) == i \in ToJudge \ taken /\ \A j \in ToJudge \ taken : i <= j

Take(i) ==
  /\ at = "judging" /\ NextResult(i) /\ pc[i] = "finished"
  /\ taken' = taken \cup {i}
  /\ UNCHANGED <<at, batch, pc, scores, asked, sum, cache, reward>>

\* A result raises: ex.map cancels the rows no thread has started.
TakeRaises(i) ==
  /\ at = "judging" /\ NextResult(i) /\ pc[i] = "failed"
  /\ at' = "leaving"
  /\ pc' = [j \in Rows |-> IF pc[j] = "queued" THEN "cancelled" ELSE pc[j]]
  /\ UNCHANGED <<batch, scores, asked, sum, cache, taken, reward>>

\* Wrong variant: the pool is left when every row has its scores.
PoolEmptied == \A i \in ToJudge : pc[i] \in {"finished", "cancelled"}

\* The pool is left when no thread runs.
PoolDone == \A i \in Rows : pc[i] \notin Busy \cup {"queued"}

LeaveRaising ==
  /\ at = "leaving" /\ PoolDone
  /\ at' = "raised"
  /\ UNCHANGED <<batch, pc, scores, asked, sum, cache, taken, reward>>

Leave ==
  /\ at = "judging" /\ taken = ToJudge
  /\ at' = "blending"
  /\ UNCHANGED <<batch, pc, scores, asked, sum, cache, taken, reward>>

\* Pass 3.  A failure that was not scored keeps its outcome.
BlendAll ==
  /\ at = "blending"
  /\ reward' = [i \in Rows |-> IF i \in taken THEN Blend(scores[i]) ELSE reward[i]]
  /\ at' = "done"
  /\ UNCHANGED <<batch, pc, scores, asked, sum, cache, taken>>

-----------------------------------------------------------------------------
Work(i) == \/ Start(i) \/ CacheHit(i) \/ CacheMiss(i) \/ JudgeAnswers(i) \/ JudgeRaises(i)
           \/ Store(i) \/ Finish(i)

Main == \/ Submit \/ (\E i \in Rows : Take(i) \/ TakeRaises(i))
        \/ LeaveRaising \/ Leave \/ BlendAll

Next == Main \/ \E i \in Rows : Work(i)

Spec == Init /\ [][Next]_vars

\* A thread runs on, a call of the judge returns within its timeout, and
\* densify_rewards goes on when it can.
FairSpec == Spec /\ WF_vars(Main) /\ WF_vars(\E i \in Rows : Work(i))

-----------------------------------------------------------------------------
(* Properties                                                              *)

\* Type invariant: the places of densify_rewards and of its threads, the lists
\* and the cache.
TypeOK ==
  /\ at \in {"extracting", "judging", "leaving", "blending", "done", "raised"}
  /\ batch \in Batches
  /\ pc \in [Rows -> {"idle", "queued", "scoring", "calling", "finished", "failed", "cancelled"}]
  /\ scores \in [Rows -> Seq(Int)]
  /\ asked \in [Rows -> 0 .. Samples]
  /\ sum \in [Rows -> Int]
  /\ cache \in [Keys -> Int \cup {Missing}]
  /\ taken \subseteq ToJudge
  /\ DOMAIN reward = Rows

\* A success outscores every failure of the batch, before the judge and after
\* (blend_reward's guarantee, for an alpha below 1).
SuccessOutscores ==
  \A i, j \in Rows : batch[i].success /\ ~batch[j].success =>
    reward[i].num * reward[j].den > reward[j].num * reward[i].den

\* What one call about the nth step of a row may count.
Counts(row, n) ==
  {Parsed(a) : a \in {b \in Answers[Prompt(row.uid, StepsOf(row)[n])] : ~Unreadable(b)}}

\* What k calls may count together.
Totals(counts, k) == {SumFunction(f) : f \in [1 .. k -> counts]}

\* The scores a judged row may get by itself, and what it may be rewarded then.
AloneScores(row) ==
  LET may == [n \in DOMAIN StepsOf(row) |-> Totals(Counts(row, n), Samples)]
  IN  {s \in [DOMAIN may -> UNION Range(may)] : \A n \in DOMAIN may : s[n] \in may[n]}

ShapedAlone(row) ==
  IF Judged(row) THEN {Blend(s) : s \in AloneScores(row)} ELSE {Outcome(row)}

RaisesAlone(row) ==
  Judged(row) /\ \E n \in DOMAIN StepsOf(row) :
    \E a \in Answers[Prompt(row.uid, StepsOf(row)[n])] : Unreadable(a)

\* The rewards of a batch are such as each row could get by itself, without the
\* threads and the cache they share: "the shared cache dedupes identical steps
\* across trajectories", and no others (densify_rewards).
AsAlone == at = "done" => \A i \in Rows : reward[i] \in ShapedAlone(batch[i])

\* densify_rewards ends, whatever the judge answers.
CallEnds == at = "extracting" ~> at \in {"done", "raised"}

\* The call as its caller sees it: all rewards at once and each as it could be alone, or
\* none, for a judge whose answers, which may differ from call to call, depend on nothing
\* the key of a step leaves out.  (A call that times out counts 0 and is cached; two threads
\* may judge one step at once; one result of ex.map that raises ends densify_rewards before
\* its third pass.)
Promise == INSTANCE RewardShaping WITH
  Batches <- Batches,
  Outcome <- Outcome,
  Shaped  <- ShapedAlone,
  Raises  <- RaisesAlone,
  stage   <- CASE at = "done" -> "shaped" [] at = "raised" -> "refused" [] OTHER -> "given",
  batch   <- batch,
  rewards <- reward

ShapingSpec == Promise!Spec

(* What the repository says of the call, and the code does not do.         *)

\* "A per-trajectory judge failure leaves that row's reward unchanged": every row is
\* shaped, but for one the judge said something unreadable of (densify_rewards).
FailureStaysInRow ==
  at \in {"done", "raised"} =>
    \A i \in Rows : \/ reward[i] \in ShapedAlone(batch[i])
                   \/ (RaisesAlone(batch[i]) /\ reward[i] = Outcome(batch[i]))
=============================================================================
