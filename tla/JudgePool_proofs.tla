-------------------------- MODULE JudgePool_proofs --------------------------
(***************************************************************************)
(* Theorems about JudgePool: its types, and that with a judge whose        *)
(* answers depend on nothing but the key of a step, but may differ from    *)
(* call to call, the pool keeps the promise of RewardShaping, for every    *)
(* batch, every number of threads and every number of samples.             *)
(***************************************************************************)
EXTENDS JudgePool, SumTheorems, TLAPS

\* What calls about the nth step of row i may count, one of them and all together.
May(i, n) == Counts(batch[i], n)
Worths(i, n) == Totals(May(i, n), Samples)
KeyAt(i, n) == Key(batch[i].uid, Steps(i)[n])
PromptAt(i, n) == Prompt(batch[i].uid, Steps(i)[n])

\* The judge may say the same of steps of one key: it does not heed the observations.
KeyJudge ==
  \A b \in Batches : \A i, j \in DOMAIN b : Judged(b[i]) /\ Judged(b[j]) =>
    \A n \in DOMAIN StepsOf(b[i]), m \in DOMAIN StepsOf(b[j]) :
      Key(b[i].uid, StepsOf(b[i])[n]) = Key(b[j].uid, StepsOf(b[j])[m]) =>
        Answers[Prompt(b[i].uid, StepsOf(b[i])[n])] = Answers[Prompt(b[j].uid, StepsOf(b[j])[m])]

-----------------------------------------------------------------------------
(* The data of a batch                                                     *)

\* The rows that are judged, and their steps.
LEMMA StepFacts ==
  ASSUME batch \in Batches, NEW i \in ToJudge
  PROVE  /\ i \in Rows /\ i \in Nat
         /\ Len(Steps(i)) \in Nat
         /\ DOMAIN Steps(i) = 1 .. Len(Steps(i))
         /\ Len(Steps(i)) > 0
<1>1. BatchAssumption(batch) /\ i \in Rows /\ Judged(batch[i])
  BY BatchesAssumption DEF ToJudge
<1>2. i \in Nat /\ Steps(i) \in Seq(ToSet(Steps(i))) /\ Steps(i) # <<>>
  BY <1>1 DEF BatchAssumption, Rows, Steps, Judged
<1>3. Len(Steps(i)) # 0
  BY <1>2
<1> QED
  BY <1>1, <1>2, <1>3

\* Every step has a key, and what the judge says of it is an answer.
LEMMA AnswerFacts ==
  ASSUME batch \in Batches, NEW i \in ToJudge, NEW n \in DOMAIN Steps(i)
  PROVE  /\ KeyAt(i, n) \in Keys
         /\ Answers[PromptAt(i, n)] \subseteq Replies
<1>1. KeyAt(i, n) \in Keys
  BY DEF KeyAt, Keys
<1>2. Answers[PromptAt(i, n)] \subseteq Replies
  BY BatchesAssumption DEF BatchAssumption, ToJudge, Rows, Steps, PromptAt
<1> QED
  BY <1>1, <1>2

\* For a judge that goes by the key, calls about steps of one key may count the same.
LEMMA MayByKey ==
  ASSUME KeyJudge, batch \in Batches, NEW i \in ToJudge, NEW j \in ToJudge,
         NEW n \in DOMAIN Steps(i), NEW m \in DOMAIN Steps(j),
         KeyAt(i, n) = KeyAt(j, m)
  PROVE  Worths(i, n) = Worths(j, m)
<1>1. Answers[PromptAt(i, n)] = Answers[PromptAt(j, m)]
  BY DEF KeyJudge, KeyAt, PromptAt, ToJudge, Rows, Steps
<1> QED
  BY <1>1 DEF Worths, May, Counts, PromptAt, Steps

\* What is read of an answer is an integer,
LEMMA ParsedInt ==
  ASSUME NEW a \in Replies, ~Unreadable(a)
  PROVE  Parsed(a) \in Int
  BY PoolAssumption DEF Replies, Unreadable, Parsed

\* and one of the numbers the call may count.
LEMMA AnswerCounts ==
  ASSUME batch \in Batches, NEW i \in ToJudge, NEW n \in DOMAIN Steps(i),
         NEW a \in Answers[PromptAt(i, n)], ~Unreadable(a)
  PROVE  Parsed(a) \in May(i, n) /\ May(i, n) \subseteq Int
<1>1. \A b \in Answers[PromptAt(i, n)] : ~Unreadable(b) => Parsed(b) \in Int
  BY AnswerFacts, ParsedInt
<1> QED
  BY <1>1 DEF May, Counts, PromptAt, Steps

\* No call counts nothing,
LEMMA TotalOfNone == ASSUME NEW V PROVE 0 \in Totals(V, 0)
<1> DEFINE f == [n \in 1 .. 0 |-> 0]
<1>1. 1 .. 0 = {}
  OBVIOUS
<1>2. f \in [1 .. 0 -> V] /\ DOMAIN f = {}
  BY <1>1
<1>3. SumFunction(f) = 0
  BY <1>2, SumOfNone DEF SumFunction
<1> QED
  BY <1>2, <1>3 DEF Totals

\* and one call more counts one number more.
LEMMA TotalOfOneMore ==
  ASSUME NEW V, V \subseteq Int, NEW k \in Nat, NEW v \in Totals(V, k), NEW w \in V
  PROVE  v + w \in Totals(V, k + 1)
<1>1. PICK f \in [1 .. k -> V] : v = SumFunction(f)
  BY DEF Totals
<1> DEFINE g == [n \in 1 .. k + 1 |-> IF n = k + 1 THEN w ELSE f[n]]
<1>2. /\ 1 .. k + 1 = (1 .. k) \cup {k + 1} /\ k + 1 \notin 1 .. k
      /\ IsFiniteSet(1 .. k)
  BY FiniteIndices
<1>3. /\ g \in [1 .. k + 1 -> V] /\ DOMAIN g = 1 .. k + 1 /\ DOMAIN f = 1 .. k
      /\ g[k + 1] = w /\ \A n \in 1 .. k : g[n] = f[n]
  <2>1. k + 1 \in 1 .. k + 1 /\ \A n \in 1 .. k : n \in 1 .. k + 1 /\ n # k + 1
    OBVIOUS
  <2>2. \A n \in 1 .. k + 1 : n = k + 1 \/ n \in 1 .. k
    BY <1>2
  <2>3. \A n \in 1 .. k + 1 : (IF n = k + 1 THEN w ELSE f[n]) \in V
    BY <2>2
  <2> QED
    BY <2>1, <2>3
<1> HIDE DEF g
<1>4. \A n \in (1 .. k) \cup {k + 1} : g[n] \in Int
  BY <1>2, <1>3
<1>5. SumFunctionOnSet(g, (1 .. k) \cup {k + 1}) = g[k + 1] + SumFunctionOnSet(g, 1 .. k)
  BY <1>2, <1>4, SumTakesIn
<1>6. SumFunctionOnSet(g, 1 .. k) = SumFunctionOnSet(f, 1 .. k)
  BY <1>2, <1>3, SumsEqual
<1>7. SumFunctionOnSet(f, 1 .. k) \in Int
  <2>1. \A n \in 1 .. k : f[n] \in Int
    BY <1>1
  <2> QED
    BY <1>2, <2>1, SumIsInt
<1>8. SumFunction(g) = v + w
  <2>1. v = SumFunctionOnSet(f, 1 .. k) /\ v \in Int
    BY <1>1, <1>3, <1>7 DEF SumFunction
  <2>2. SumFunction(g) = SumFunctionOnSet(g, (1 .. k) \cup {k + 1})
    <3>1. DOMAIN g = (1 .. k) \cup {k + 1}
      BY <1>2, <1>3
    <3> QED
      BY <3>1, Zenon DEF SumFunction
  <2>3. SumFunction(g) = w + v
    BY <1>3, <1>5, <1>6, <2>1, <2>2
  <2>4. w \in Int
    OBVIOUS
  <2> QED
    BY <2>1, <2>3, <2>4
<1>9. g \in [1 .. k + 1 -> V]
  BY <1>3
<1>10. SumFunction(g) \in Totals(V, k + 1)
  BY <1>9, Zenon DEF Totals
<1> QED
  BY <1>8, <1>10

\* What depends on the batch alone stays.
LEMMA SameBatch ==
  ASSUME batch' = batch
  PROVE  /\ Rows' = Rows /\ ToJudge' = ToJudge /\ Keys' = Keys
         /\ \A i : Steps(i)' = Steps(i)
         /\ \A i, n : May(i, n)' = May(i, n) /\ Worths(i, n)' = Worths(i, n)
         /\ \A i, n : KeyAt(i, n)' = KeyAt(i, n)
  BY DEF Rows, ToJudge, Keys, Steps, May, Worths, KeyAt

-----------------------------------------------------------------------------
(* Types                                                                   *)

\* A thread has a step in hand while it calls the judge, and all of its scores
\* when it is finished.
PlaceInv ==
  /\ TypeOK
  /\ \A i \in Rows :
       /\ pc[i] # "idle" => i \in ToJudge
       /\ i \in ToJudge => Len(scores[i]) <= Len(Steps(i))
       /\ pc[i] = "calling" => Len(scores[i]) < Len(Steps(i))
       /\ pc[i] = "finished" => Len(scores[i]) = Len(Steps(i))

\* Initially every thread is idle, and every step keeps the places together.
LEMMA PlaceInit == Init => PlaceInv
<1> SUFFICES ASSUME Init PROVE PlaceInv
  OBVIOUS
<1>1. TypeOK
  BY PoolAssumption DEF Init, TypeOK
<1>2. \A i \in ToJudge : Len(Steps(i)) \in Nat
  BY StepFacts DEF Init
<1> QED
  BY <1>1, <1>2 DEF Init, PlaceInv

\* The step a thread has in hand.
LEMMA InHand ==
  ASSUME PlaceInv, NEW i \in Rows, i \in ToJudge, HasStep(i)
  PROVE  /\ Len(scores[i]) + 1 \in DOMAIN Steps(i)
         /\ CurrentKey(i) = KeyAt(i, Len(scores[i]) + 1)
         /\ CurrentPrompt(i) = PromptAt(i, Len(scores[i]) + 1)
         /\ CurrentKey(i) \in Keys
         /\ Answers[CurrentPrompt(i)] \subseteq Replies
<1>1. Len(scores[i]) \in Nat /\ scores[i] \in Seq(Int)
  BY DEF PlaceInv, TypeOK
<1>2. Len(scores[i]) + 1 \in DOMAIN Steps(i)
  BY <1>1, StepFacts DEF PlaceInv, TypeOK, HasStep
<1>3. CurrentKey(i) = KeyAt(i, Len(scores[i]) + 1)
  BY DEF CurrentKey, Current, KeyAt
<1>4. CurrentPrompt(i) = PromptAt(i, Len(scores[i]) + 1)
  BY DEF CurrentPrompt, Current, PromptAt
<1> QED
  BY <1>2, <1>3, <1>4, AnswerFacts DEF PlaceInv, TypeOK

LEMMA PlaceStep == PlaceInv /\ [Next]_vars => PlaceInv'
<1> SUFFICES ASSUME PlaceInv, [Next]_vars PROVE PlaceInv'
  OBVIOUS
<1>0. batch' = batch
  BY DEF Next, Main, Work, vars, Submit, Take, TakeRaises, LeaveRaising, Leave, BlendAll,
         Start, CacheHit, CacheMiss, JudgeAnswers, JudgeRaises, Store, Finish
<1>same. /\ Rows' = Rows /\ ToJudge' = ToJudge /\ Keys' = Keys
         /\ \A i : Steps(i)' = Steps(i)
  BY <1>0, SameBatch
<1>sub. /\ ToJudge \subseteq Rows
        /\ \A i \in ToJudge : Len(Steps(i)) \in Nat
  BY StepFacts DEF ToJudge, PlaceInv, TypeOK
<1> USE DEF PlaceInv, TypeOK
<1>1. CASE Submit
  BY <1>1, <1>same, <1>sub DEF Submit
<1>2. ASSUME NEW i \in Rows, Take(i) PROVE PlaceInv'
  BY <1>2, <1>same DEF Take, NextResult
<1>3. ASSUME NEW i \in Rows, TakeRaises(i) PROVE PlaceInv'
  BY <1>3, <1>same DEF TakeRaises
<1>4. CASE LeaveRaising
  BY <1>4, <1>same DEF LeaveRaising
<1>5. CASE Leave
  BY <1>5, <1>same DEF Leave
<1>6. CASE BlendAll
  BY <1>6, <1>same DEF BlendAll
<1>7. ASSUME NEW i \in Rows, Start(i) PROVE PlaceInv'
  BY <1>7, <1>same DEF Start, Goto
<1>8. ASSUME NEW i \in Rows, CacheHit(i) PROVE PlaceInv'
  <2>1. i \in ToJudge /\ HasStep(i) /\ cache[CurrentKey(i)] \in Int
    BY <1>8, InHand DEF CacheHit
  <2>2. /\ Append(scores[i], cache[CurrentKey(i)]) \in Seq(Int)
        /\ Len(Append(scores[i], cache[CurrentKey(i)])) = Len(scores[i]) + 1
    BY <2>1
  <2>3. Len(scores[i]) + 1 <= Len(Steps(i))
    BY <2>1, <1>sub DEF HasStep
  <2> QED
    BY <1>8, <1>same, <2>1, <2>2, <2>3 DEF CacheHit
<1>9. ASSUME NEW i \in Rows, CacheMiss(i) PROVE PlaceInv'
  BY <1>9, <1>same, PoolAssumption DEF CacheMiss, Goto, HasStep
<1>10. ASSUME NEW i \in Rows, JudgeAnswers(i) PROVE PlaceInv'
  <2>1. i \in ToJudge /\ HasStep(i)
    BY <1>10 DEF JudgeAnswers, HasStep
  <2>2. PICK a \in Answers[CurrentPrompt(i)] :
          ~Unreadable(a) /\ sum' = [sum EXCEPT ![i] = @ + Parsed(a)]
    BY <1>10 DEF JudgeAnswers
  <2>3. Parsed(a) \in Int
    BY <2>1, <2>2, InHand, ParsedInt
  <2>4. sum' \in [Rows -> Int]
    BY <2>2, <2>3
  <2>5. asked' \in [Rows -> 0 .. Samples]
    BY <1>10, PoolAssumption DEF JudgeAnswers
  <2> QED
    BY <1>10, <1>same, <2>4, <2>5 DEF JudgeAnswers
<1>11. ASSUME NEW i \in Rows, JudgeRaises(i) PROVE PlaceInv'
  BY <1>11, <1>same DEF JudgeRaises, Goto
<1>12. ASSUME NEW i \in Rows, Store(i) PROVE PlaceInv'
  <2>1. i \in ToJudge /\ HasStep(i) /\ sum[i] \in Int
    BY <1>12 DEF Store, HasStep
  <2>2. /\ Append(scores[i], sum[i]) \in Seq(Int)
        /\ Len(Append(scores[i], sum[i])) = Len(scores[i]) + 1
    BY <2>1
  <2>3. Len(scores[i]) + 1 <= Len(Steps(i))
    BY <2>1, <1>sub DEF HasStep
  <2>4. cache' \in [Keys -> Int \cup {Missing}]
    BY <1>12, <2>1 DEF Store
  <2> QED
    BY <1>12, <1>same, <2>1, <2>2, <2>3, <2>4 DEF Store, Goto
<1>13. ASSUME NEW i \in Rows, Finish(i) PROVE PlaceInv'
  BY <1>13, <1>same, <1>sub DEF Finish, Goto, HasStep
<1>14. CASE UNCHANGED vars
  BY <1>14, <1>same DEF vars
<1> QED
  BY <1>1, <1>2, <1>3, <1>4, <1>5, <1>6, <1>7, <1>8, <1>9, <1>10, <1>11, <1>12, <1>13, <1>14
  DEF Next, Main, Work

\* The type invariant of the pool, for any batch and any judge: in particular no
\* trajectory ever has more scores than steps to judge.
THEOREM PoolTypes == Spec => []TypeOK
<1>1. PlaceInv => TypeOK
  BY DEF PlaceInv
<1> QED
  BY <1>1, PlaceInit, PlaceStep, PTL DEF Spec

-----------------------------------------------------------------------------
(* The promise                                                             *)

\* What is in the lists and in the cache is what the judge may say of the steps.
ListInv == \A i \in ToJudge : \A n \in 1 .. Len(scores[i]) : scores[i][n] \in Worths(i, n)

CacheInv ==
  \A i \in ToJudge : \A n \in DOMAIN Steps(i) :
    cache[KeyAt(i, n)] # Missing => cache[KeyAt(i, n)] \in Worths(i, n)

\* So is what a thread has gathered of the step in hand; a thread that failed was
\* told something unreadable.
CallInv ==
  \A i \in ToJudge :
    /\ pc[i] = "calling" => sum[i] \in Totals(May(i, Len(scores[i]) + 1), asked[i])
    /\ pc[i] = "failed" => RaisesAlone(batch[i])

\* densify_rewards blends when it has taken the scores of all, raises when a
\* thread failed, and touches no reward before.
MainInv ==
  /\ \A i \in taken : pc[i] = "finished"
  /\ at = "extracting" => taken = {}
  /\ at \in {"leaving", "raised"} => \E i \in ToJudge : pc[i] = "failed"
  /\ at \in {"blending", "done"} => taken = ToJudge
  /\ at # "done" => reward = [i \in Rows |-> Outcome(batch[i])]

ScoreInv == ListInv /\ CacheInv /\ CallInv /\ MainInv

\* Initially nothing is scored; every step keeps to what the judge may say of a row.
LEMMA ScoreInit == Init => ScoreInv
<1> SUFFICES ASSUME Init PROVE ScoreInv
  OBVIOUS
<1>1. ListInv
  BY DEF Init, ListInv, ToJudge
<1>2. CacheInv
  BY AnswerFacts DEF Init, CacheInv
<1>3. CallInv
  BY DEF Init, CallInv, ToJudge
<1>4. MainInv
  BY DEF Init, MainInv
<1> QED
  BY <1>1, <1>2, <1>3, <1>4 DEF ScoreInv

LEMMA OneMore == \A n, v \in Int : n * v + v = (n + 1) * v
  BY SMT

\* A step that scores nothing and fails nothing.
LEMMA QuietStep ==
  ASSUME ScoreInv, PlaceInv, batch' = batch, UNCHANGED <<scores, cache, asked, sum>>,
         \A i \in ToJudge : pc'[i] \in {"calling", "failed"} => pc'[i] = pc[i]
  PROVE  ListInv' /\ CacheInv' /\ CallInv'
  BY SameBatch DEF ScoreInv, ListInv, CacheInv, CallInv

LEMMA ScoreStep == KeyJudge /\ PlaceInv /\ ScoreInv /\ [Next]_vars => ScoreInv'
<1> SUFFICES ASSUME KeyJudge, PlaceInv, ScoreInv, [Next]_vars PROVE ScoreInv'
  OBVIOUS
<1>0. batch' = batch
  BY DEF Next, Main, Work, vars, Submit, Take, TakeRaises, LeaveRaising, Leave, BlendAll,
         Start, CacheHit, CacheMiss, JudgeAnswers, JudgeRaises, Store, Finish
<1>same. /\ Rows' = Rows /\ ToJudge' = ToJudge /\ Keys' = Keys
         /\ \A i : Steps(i)' = Steps(i)
         /\ \A i, n : May(i, n)' = May(i, n) /\ Worths(i, n)' = Worths(i, n)
         /\ \A i, n : KeyAt(i, n)' = KeyAt(i, n)
  BY <1>0, SameBatch
<1>typed. /\ batch \in Batches
          /\ ToJudge \subseteq Rows
          /\ pc \in [Rows -> {"idle", "queued", "scoring", "calling", "finished", "failed", "cancelled"}]
          /\ scores \in [Rows -> Seq(Int)]
          /\ asked \in [Rows -> 0 .. Samples]
          /\ sum \in [Rows -> Int]
          /\ cache \in [Keys -> Int \cup {Missing}]
          /\ taken \subseteq ToJudge
          /\ \A i \in Rows : pc[i] # "idle" => i \in ToJudge
  BY DEF PlaceInv, TypeOK, ToJudge
<1>lens. \A i \in ToJudge : /\ Len(Steps(i)) \in Nat
                             /\ DOMAIN Steps(i) = 1 .. Len(Steps(i))
                             /\ Len(scores[i]) \in Nat
                             /\ Len(scores[i]) <= Len(Steps(i))
  BY <1>typed, StepFacts DEF PlaceInv
<1>1. CASE Submit
  <2>1. ListInv' /\ CacheInv' /\ CallInv'
    BY <1>1, <1>0, QuietStep, <1>typed DEF Submit
  <2>2. taken = {} /\ MainInv'
    BY <1>0, <1>1, <1>same, <1>typed DEF Submit, ScoreInv, MainInv
  <2> QED
    BY <2>1, <2>2 DEF ScoreInv
<1>2. ASSUME NEW i \in Rows, Take(i) PROVE ScoreInv'
  <2>1. ListInv' /\ CacheInv' /\ CallInv'
    BY <1>2, <1>0, QuietStep DEF Take
  <2>2. MainInv'
    BY <1>2, <1>same DEF Take, ScoreInv, MainInv
  <2> QED
    BY <2>1, <2>2 DEF ScoreInv
<1>3. ASSUME NEW i \in Rows, TakeRaises(i) PROVE ScoreInv'
  <2>1. \A j \in Rows : pc'[j] \in {"calling", "failed", "finished"} => pc'[j] = pc[j]
    BY <1>3, <1>typed DEF TakeRaises
  <2>2. ListInv' /\ CacheInv' /\ CallInv'
    BY <1>3, <1>0, <2>1, <1>typed, QuietStep DEF TakeRaises
  <2>3. i \in ToJudge /\ pc'[i] = "failed"
    BY <1>3, <1>typed DEF TakeRaises, NextResult
  <2>4. \A j \in taken' : pc'[j] = "finished"
    BY <1>3, <1>typed DEF TakeRaises, ScoreInv, MainInv
  <2>5. MainInv'
    BY <1>3, <1>same, <2>3, <2>4 DEF TakeRaises, ScoreInv, MainInv
  <2> QED
    BY <2>2, <2>5 DEF ScoreInv
<1>4. CASE LeaveRaising
  <2>1. ListInv' /\ CacheInv' /\ CallInv'
    BY <1>4, <1>0, QuietStep DEF LeaveRaising
  <2>2. MainInv'
    BY <1>4, <1>same DEF LeaveRaising, ScoreInv, MainInv
  <2> QED
    BY <2>1, <2>2 DEF ScoreInv
<1>5. CASE Leave
  <2>1. ListInv' /\ CacheInv' /\ CallInv'
    BY <1>5, <1>0, QuietStep DEF Leave
  <2>2. MainInv'
    BY <1>5, <1>same DEF Leave, ScoreInv, MainInv
  <2> QED
    BY <2>1, <2>2 DEF ScoreInv
<1>6. CASE BlendAll
  <2>1. ListInv' /\ CacheInv' /\ CallInv'
    BY <1>6, <1>0, QuietStep DEF BlendAll
  <2>2. MainInv'
    BY <1>6, <1>same DEF BlendAll, ScoreInv, MainInv
  <2> QED
    BY <2>1, <2>2 DEF ScoreInv
<1>main. ASSUME NEW i \in Rows, UNCHANGED <<at, taken, reward>>,
                pc[i] # "finished", pc[i] # "failed",
                \A j \in Rows : j # i => pc'[j] = pc[j]
         PROVE  MainInv'
  <2>1. \A j \in taken' : pc'[j] = "finished"
    BY <1>main, <1>typed DEF ScoreInv, MainInv
  <2>2. at' \in {"leaving", "raised"} => \E j \in ToJudge' : pc'[j] = "failed"
    <3>1. \A j \in ToJudge : pc[j] = "failed" => pc'[j] = "failed"
      BY <1>main, <1>typed
    <3> QED
      BY <1>main, <1>same, <3>1 DEF ScoreInv, MainInv
  <2>3. at' # "done" => reward' = [j \in Rows' |-> Outcome(batch[j])]
    BY <1>main, <1>same DEF ScoreInv, MainInv
  <2> QED
    BY <1>main, <1>same, <1>0, <2>1, <2>2, <2>3 DEF ScoreInv, MainInv
<1>7. ASSUME NEW i \in Rows, Start(i) PROVE ScoreInv'
  <2>1. ListInv' /\ CacheInv' /\ CallInv'
    BY <1>7, <1>0, <1>typed, QuietStep DEF Start, Goto
  <2>2. MainInv'
    BY <1>7, <1>main, <1>typed DEF Start, Goto
  <2> QED
    BY <2>1, <2>2 DEF ScoreInv
<1>8. ASSUME NEW i \in Rows, CacheHit(i) PROVE ScoreInv'
  <2> DEFINE n == Len(scores[i]) + 1
  <2>1. i \in ToJudge /\ HasStep(i)
    BY <1>8, <1>typed DEF CacheHit
  <2>2. n \in DOMAIN Steps(i) /\ CurrentKey(i) = KeyAt(i, n)
    BY <2>1, InHand
  <2>3. PICK v \in Worths(i, n) : v = cache[KeyAt(i, n)]
    BY <1>8, <2>1, <2>2 DEF CacheHit, ScoreInv, CacheInv
  <2>4. scores' = [scores EXCEPT ![i] = Append(@, v)] /\ v \in Int
    BY <1>8, <2>1, <2>2, <2>3, <1>typed, InHand DEF CacheHit
  <2>5. ListInv'
    BY <1>same, <1>typed, <2>1, <2>3, <2>4 DEF ScoreInv, ListInv
  <2>6. CacheInv' /\ CallInv'
    BY <1>8, <1>same, <1>typed, <2>1 DEF CacheHit, ScoreInv, CacheInv, CallInv
  <2>7. MainInv'
    BY <1>8, <1>main DEF CacheHit
  <2> QED
    BY <2>5, <2>6, <2>7 DEF ScoreInv
<1>9. ASSUME NEW i \in Rows, CacheMiss(i) PROVE ScoreInv'
  <2>1. ListInv' /\ CacheInv'
    BY <1>9, <1>same DEF CacheMiss, ScoreInv, ListInv, CacheInv
  <2>2. CallInv'
    <3>1. \A n : 0 \in Totals(May(i, n), 0)
      BY TotalOfNone
    <3> QED
      BY <1>9, <1>0, <1>same, <1>typed, <3>1 DEF CacheMiss, Goto, ScoreInv, CallInv
  <2>3. MainInv'
    BY <1>9, <1>main, <1>typed DEF CacheMiss, Goto
  <2> QED
    BY <2>1, <2>2, <2>3 DEF ScoreInv
<1>10. ASSUME NEW i \in Rows, JudgeAnswers(i) PROVE ScoreInv'
  <2> DEFINE n == Len(scores[i]) + 1
  <2>1. i \in ToJudge /\ HasStep(i) /\ pc[i] = "calling" /\ asked[i] < Samples
    BY <1>10, <1>typed DEF JudgeAnswers, PlaceInv, HasStep
  <2>2. n \in DOMAIN Steps(i) /\ CurrentPrompt(i) = PromptAt(i, n)
    BY <2>1, InHand
  <2>3. PICK a \in Answers[CurrentPrompt(i)] :
          ~Unreadable(a) /\ sum' = [sum EXCEPT ![i] = @ + Parsed(a)]
    BY <1>10 DEF JudgeAnswers
  <2>4. Parsed(a) \in May(i, n) /\ May(i, n) \subseteq Int
    BY <2>1, <2>2, <2>3, <1>typed, AnswerCounts
  <2>5. sum'[i] = sum[i] + Parsed(a) /\ asked'[i] = asked[i] + 1
    BY <1>10, <2>3, <1>typed DEF JudgeAnswers
  <2>6. asked[i] \in Nat /\ sum[i] \in Totals(May(i, n), asked[i])
    BY <2>1, <1>typed, PoolAssumption DEF ScoreInv, CallInv
  <2>7. sum'[i] \in Totals(May(i, n), asked'[i])
    BY <2>4, <2>5, <2>6, TotalOfOneMore
  <2>8. CallInv'
    <3>1. \A j \in ToJudge : j # i => sum'[j] = sum[j] /\ asked'[j] = asked[j]
      BY <1>10, <2>3, <1>typed DEF JudgeAnswers
    <3>2. scores' = scores /\ pc' = pc
      BY <1>10 DEF JudgeAnswers
    <3> QED
      BY <3>1, <3>2, <2>1, <2>7, <1>0, <1>same DEF ScoreInv, CallInv
  <2>9. ListInv' /\ CacheInv'
    BY <1>10, <1>same DEF JudgeAnswers, ScoreInv, ListInv, CacheInv
  <2>10. MainInv'
    BY <1>10, <1>main DEF JudgeAnswers
  <2> QED
    BY <2>8, <2>9, <2>10 DEF ScoreInv
<1>11. ASSUME NEW i \in Rows, JudgeRaises(i) PROVE ScoreInv'
  <2> DEFINE n == Len(scores[i]) + 1
  <2>1. i \in ToJudge /\ HasStep(i)
    BY <1>11, <1>typed DEF JudgeRaises, PlaceInv, HasStep
  <2>2. n \in DOMAIN Steps(i) /\ CurrentPrompt(i) = PromptAt(i, n)
    BY <2>1, InHand
  <2>3. RaisesAlone(batch[i])
    BY <1>11, <2>1, <2>2 DEF JudgeRaises, RaisesAlone, PromptAt, Steps, ToJudge
  <2>4. CallInv'
    BY <1>11, <1>0, <1>same, <1>typed, <2>1, <2>3 DEF JudgeRaises, Goto, ScoreInv, CallInv
  <2>5. ListInv' /\ CacheInv'
    BY <1>11, <1>same DEF JudgeRaises, ScoreInv, ListInv, CacheInv
  <2>6. MainInv'
    BY <1>11, <1>main, <1>typed DEF JudgeRaises, Goto
  <2> QED
    BY <2>4, <2>5, <2>6 DEF ScoreInv
<1>12. ASSUME NEW i \in Rows, Store(i) PROVE ScoreInv'
  <2> DEFINE n == Len(scores[i]) + 1
  <2>1. i \in ToJudge /\ HasStep(i)
    BY <1>12, <1>typed DEF Store, PlaceInv, HasStep
  <2>2. n \in DOMAIN Steps(i) /\ CurrentKey(i) = KeyAt(i, n) /\ KeyAt(i, n) \in Keys
    BY <2>1, InHand
  <2>3. PICK v \in Worths(i, n) : v = sum[i]
    BY <1>12, <2>1 DEF Store, ScoreInv, CallInv, Worths
  <2>4. /\ scores' = [scores EXCEPT ![i] = Append(@, v)] /\ v \in Int
        /\ cache' = [cache EXCEPT ![KeyAt(i, n)] = v]
    BY <1>12, <2>1, <2>2, <2>3, <1>typed DEF Store
  <2>5. ListInv'
    BY <1>same, <1>typed, <2>1, <2>3, <2>4 DEF ScoreInv, ListInv
  <2>6. CacheInv'
    <3> SUFFICES ASSUME NEW j \in ToJudge, NEW m \in DOMAIN Steps(j),
                        cache'[KeyAt(j, m)] # Missing
                 PROVE  cache'[KeyAt(j, m)] \in Worths(j, m)
      BY <1>same DEF CacheInv
    <3>1. KeyAt(j, m) \in Keys
      BY AnswerFacts, <1>typed
    <3>2. CASE KeyAt(j, m) = KeyAt(i, n)
      <4>1. Worths(j, m) = Worths(i, n)
        BY <3>2, <2>1, <2>2, <1>typed, MayByKey
      <4> QED
        BY <4>1, <3>1, <3>2, <2>3, <2>4, <1>typed
    <3>3. CASE KeyAt(j, m) # KeyAt(i, n)
      BY <3>1, <3>3, <2>4, <1>typed DEF ScoreInv, CacheInv
    <3> QED
      BY <3>2, <3>3
  <2>7. CallInv'
    BY <1>12, <1>same, <1>typed, <2>1 DEF Store, Goto, ScoreInv, CallInv
  <2>8. MainInv'
    BY <1>12, <1>main, <1>typed DEF Store, Goto
  <2> QED
    BY <2>5, <2>6, <2>7, <2>8 DEF ScoreInv
<1>13. ASSUME NEW i \in Rows, Finish(i) PROVE ScoreInv'
  <2>1. ListInv' /\ CacheInv' /\ CallInv'
    BY <1>13, <1>0, <1>typed, QuietStep DEF Finish, Goto
  <2>2. MainInv'
    BY <1>13, <1>main, <1>typed DEF Finish, Goto
  <2> QED
    BY <2>1, <2>2 DEF ScoreInv
<1>14. CASE UNCHANGED vars
  <2>1. ListInv' /\ CacheInv' /\ CallInv'
    BY <1>14, <1>0, QuietStep DEF vars
  <2>2. MainInv'
    BY <1>14, <1>same DEF vars, ScoreInv, MainInv
  <2> QED
    BY <2>1, <2>2 DEF ScoreInv
<1> QED
  BY <1>1, <1>2, <1>3, <1>4, <1>5, <1>6, <1>7, <1>8, <1>9, <1>10, <1>11, <1>12, <1>13, <1>14
  DEF Next, Main, Work

\* A finished row has scores the judge may give it by itself.
LEMMA FinishedAlone ==
  ASSUME PlaceInv, ScoreInv, NEW i \in ToJudge, pc[i] = "finished"
  PROVE  scores[i] \in AloneScores(batch[i])
<1>1. /\ i \in Rows /\ batch \in Batches
      /\ scores[i] \in Seq(Int) /\ Len(scores[i]) = Len(Steps(i))
  BY DEF PlaceInv, TypeOK, ToJudge
<1>2. DOMAIN Steps(i) = 1 .. Len(Steps(i)) /\ Len(Steps(i)) \in Nat
  BY <1>1, StepFacts
<1> DEFINE may == [n \in DOMAIN Steps(i) |-> Worths(i, n)]
<1>3. DOMAIN scores[i] = DOMAIN may /\ scores[i] = [n \in DOMAIN may |-> scores[i][n]]
  BY <1>1, <1>2
<1>4. \A n \in DOMAIN may : scores[i][n] \in may[n]
  BY <1>1, <1>2 DEF ScoreInv, ListInv
<1>5. \A n \in DOMAIN may : scores[i][n] \in UNION Range(may)
  BY <1>4 DEF Range
<1>6. AloneScores(batch[i]) =
        {s \in [DOMAIN may -> UNION Range(may)] : \A n \in DOMAIN may : s[n] \in may[n]}
  BY DEF AloneScores, Worths, May, Steps
<1> HIDE DEF may
<1> QED
  BY <1>3, <1>4, <1>5, <1>6

\* What BlendAll gives the rows.
LEMMA BlendsAlone ==
  ASSUME PlaceInv, ScoreInv, BlendAll
  PROVE  /\ \A i \in Rows : reward'[i] \in ShapedAlone(batch[i])
         /\ DOMAIN reward' = Rows /\ reward' = [i \in Rows |-> reward'[i]]
<1>1. taken = ToJudge /\ reward = [i \in Rows |-> Outcome(batch[i])]
  BY DEF BlendAll, ScoreInv, MainInv
<1>2. reward' = [i \in Rows |-> IF i \in ToJudge THEN Blend(scores[i]) ELSE Outcome(batch[i])]
  BY <1>1 DEF BlendAll
<1>3. \A i \in ToJudge : scores[i] \in AloneScores(batch[i])
  BY <1>1, FinishedAlone DEF ScoreInv, MainInv
<1>4. \A i \in Rows : reward'[i] \in ShapedAlone(batch[i])
  BY <1>2, <1>3 DEF ShapedAlone, ToJudge
<1> QED
  BY <1>2, <1>4

\* A step of the pool is a step of the promise, or none.
LEMMA PromiseStep ==
  KeyJudge /\ PlaceInv /\ ScoreInv /\ [Next]_vars => [Promise!Next]_(Promise!vars)
<1> SUFFICES ASSUME KeyJudge, PlaceInv, ScoreInv, [Next]_vars
             PROVE  [Promise!Next]_(Promise!vars)
  OBVIOUS
<1>0. batch' = batch
  BY DEF Next, Main, Work, vars, Submit, Take, TakeRaises, LeaveRaising, Leave, BlendAll,
         Start, CacheHit, CacheMiss, JudgeAnswers, JudgeRaises, Store, Finish
<1>1. CASE BlendAll
  <2>1. reward' \in [Rows -> UNION {ShapedAlone(batch[i]) : i \in Rows}]
    BY <1>1, BlendsAlone
  <2> QED
    BY <1>0, <1>1, <2>1, BlendsAlone DEF BlendAll, Rows, Promise!Next, Promise!Shape, Promise!Rows
<1>2. CASE LeaveRaising
  <2>1. PICK i \in ToJudge : pc[i] = "failed"
    BY <1>2 DEF LeaveRaising, ScoreInv, MainInv
  <2>2. RaisesAlone(batch[i])
    BY <2>1 DEF ScoreInv, CallInv
  <2> QED
    BY <1>0, <1>2, <2>1, <2>2
    DEF LeaveRaising, ToJudge, Rows, Promise!Next, Promise!Refuse, Promise!Rows
<1>3. CASE ~BlendAll /\ ~LeaveRaising
  <2>1. reward' = reward /\ (at' = at \/ {at, at'} \cap {"done", "raised"} = {})
    BY <1>3 DEF Next, Main, Work, vars, Submit, Take, TakeRaises, Leave,
         Start, CacheHit, CacheMiss, JudgeAnswers, JudgeRaises, Store, Finish
  <2> QED
    BY <1>0, <2>1 DEF Promise!vars
<1> QED
  BY <1>1, <1>2, <1>3

\* With a judge that answers by the key of a step, and may answer or fail differently each
\* time, densify_rewards does what the abstract call promises: all rewards at once and each
\* as it could be alone, or an exception and no reward changed; for every batch and every
\* number of threads.
THEOREM PoolKeepsPromise == ASSUME KeyJudge PROVE Spec => ShapingSpec
<1>1. Init => Promise!Init
  BY DEF Init, Rows, Promise!Init, Promise!Rows
<1> QED
  BY <1>1, PlaceInit, PlaceStep, ScoreInit, ScoreStep, PromiseStep, PTL
  DEF Spec, ShapingSpec, Promise!Spec

\* The same as an invariant: no reward is one its row could not get without the others.
THEOREM PoolScoresAlone == ASSUME KeyJudge PROVE Spec => []AsAlone
<1>1. Init => AsAlone
  BY DEF Init, AsAlone
<1>2. PlaceInv /\ ScoreInv /\ AsAlone /\ [Next]_vars => AsAlone'
  <2> SUFFICES ASSUME PlaceInv, ScoreInv, AsAlone, [Next]_vars PROVE AsAlone'
    OBVIOUS
  <2>1. CASE BlendAll
    <3>1. batch' = batch
      BY <2>1 DEF BlendAll
    <3> QED
      BY <2>1, <3>1, BlendsAlone, SameBatch DEF AsAlone
  <2>2. CASE ~BlendAll
    <3>1. batch' = batch /\ reward' = reward /\ (at' = "done" => at = "done")
      BY <2>2 DEF Next, Main, Work, vars, Submit, Take, TakeRaises, LeaveRaising, Leave,
           Start, CacheHit, CacheMiss, JudgeAnswers, JudgeRaises, Store, Finish
    <3> QED
      BY <3>1, SameBatch DEF AsAlone
  <2> QED
    BY <2>1, <2>2
<1> QED
  BY <1>1, <1>2, PlaceInit, PlaceStep, ScoreInit, ScoreStep, PTL DEF Spec

-----------------------------------------------------------------------------
(* A success outscores a failure, whatever the judge answers               *)

\* A score is a sum of Samples answers.
Ceiling == Samples * Full

\* Nothing a thread gathers, stores or reads is above what the judge may give, and a
\* reward is an outcome, or the blend of the scores of a thread that is finished.
ValueInv ==
  /\ \A i \in Rows : \A n \in DOMAIN scores[i] : scores[i][n] \in 0 .. Ceiling
  /\ \A k \in Keys : cache[k] # Missing => cache[k] \in 0 .. Ceiling
  /\ \A i \in Rows : sum[i] \in 0 .. asked[i] * Full
  /\ \A i \in taken : pc[i] = "finished"
  /\ at = "extracting" => taken = {}
  /\ \A i \in Rows :
       reward[i] = IF at = "done" /\ i \in taken THEN Blend(scores[i]) ELSE Outcome(batch[i])

\* Initially no score is above its ceiling, and no step takes one there.
LEMMA ValueInit == Init => ValueInv
<1> SUFFICES ASSUME Init PROVE ValueInv
  OBVIOUS
<1>1. 0 * Full = 0
  BY PoolAssumption
<1> QED
  BY <1>1 DEF Init, ValueInv

\* One more score of a list.
LEMMA OneScoreMore ==
  ASSUME PlaceInv, NEW i \in Rows, NEW v \in 0 .. Ceiling,
         \A n \in DOMAIN scores[i] : scores[i][n] \in 0 .. Ceiling
  PROVE  \A n \in DOMAIN Append(scores[i], v) : Append(scores[i], v)[n] \in 0 .. Ceiling
<1>1. scores[i] \in Seq(Int) /\ v \in Int
  BY DEF PlaceInv, TypeOK
<1> QED
  BY <1>1

\* Scores are clamped.
LEMMA ParsedBounded ==
  ASSUME NEW a \in Replies, ~Unreadable(a)
  PROVE  Parsed(a) \in 0 .. Full
  BY PoolAssumption DEF Replies, Unreadable, Parsed

LEMMA ValueStep == PlaceInv /\ ValueInv /\ [Next]_vars => ValueInv'
<1> SUFFICES ASSUME PlaceInv, ValueInv, [Next]_vars PROVE ValueInv'
  OBVIOUS
<1>0. batch' = batch
  BY DEF Next, Main, Work, vars, Submit, Take, TakeRaises, LeaveRaising, Leave, BlendAll,
         Start, CacheHit, CacheMiss, JudgeAnswers, JudgeRaises, Store, Finish
<1>same. Rows' = Rows /\ ToJudge' = ToJudge /\ Keys' = Keys
  BY <1>0, SameBatch
<1>typed. /\ pc \in [Rows -> {"idle", "queued", "scoring", "calling", "finished", "failed", "cancelled"}]
          /\ scores \in [Rows -> Seq(Int)]
          /\ asked \in [Rows -> 0 .. Samples]
          /\ sum \in [Rows -> Int]
          /\ cache \in [Keys -> Int \cup {Missing}]
          /\ taken \subseteq ToJudge /\ ToJudge \subseteq Rows
          /\ \A i \in Rows : pc[i] # "idle" => i \in ToJudge
  BY DEF PlaceInv, TypeOK, ToJudge
<1>1. CASE Submit
  BY <1>1, <1>0, <1>same, <1>typed DEF Submit, ValueInv
<1>2. ASSUME NEW i \in Rows, Take(i) PROVE ValueInv'
  BY <1>2, <1>0, <1>same DEF Take, ValueInv
<1>3. ASSUME NEW i \in Rows, TakeRaises(i) PROVE ValueInv'
  BY <1>3, <1>0, <1>same, <1>typed DEF TakeRaises, ValueInv
<1>4. CASE LeaveRaising \/ Leave \/ UNCHANGED vars
  BY <1>4, <1>0, <1>same DEF LeaveRaising, Leave, vars, ValueInv
<1>5. CASE BlendAll
  BY <1>5, <1>0, <1>same DEF BlendAll, ValueInv
<1>6. ASSUME NEW i \in Rows, Start(i) \/ JudgeRaises(i) \/ Finish(i) PROVE ValueInv'
  BY <1>6, <1>0, <1>same, <1>typed DEF Start, JudgeRaises, Finish, Goto, ValueInv
<1>7. ASSUME NEW i \in Rows, CacheHit(i) PROVE ValueInv'
  <2>1. i \in ToJudge /\ CurrentKey(i) \in Keys /\ cache[CurrentKey(i)] # Missing
    BY <1>7, <1>typed, InHand DEF CacheHit
  <2> DEFINE v == cache[CurrentKey(i)]
  <2>2. v \in 0 .. Ceiling
    BY <2>1 DEF ValueInv
  <2>3. scores' = [scores EXCEPT ![i] = Append(@, v)]
        /\ UNCHANGED <<at, batch, pc, asked, sum, cache, taken, reward>>
    BY <1>7 DEF CacheHit
  <2> HIDE DEF v
  <2>4. \A n \in DOMAIN Append(scores[i], v) : Append(scores[i], v)[n] \in 0 .. Ceiling
    BY <2>2, OneScoreMore DEF ValueInv
  <2>5. i \notin taken
    BY <1>7 DEF CacheHit, ValueInv
  <2> QED
    BY <1>0, <1>same, <1>typed, <2>3, <2>4, <2>5 DEF ValueInv
<1>8. ASSUME NEW i \in Rows, CacheMiss(i) PROVE ValueInv'
  <2>1. 0 * Full = 0
    BY PoolAssumption
  <2> QED
    BY <1>8, <1>0, <1>same, <1>typed, <2>1 DEF CacheMiss, Goto, ValueInv
<1>9. ASSUME NEW i \in Rows, JudgeAnswers(i) PROVE ValueInv'
  <2>1. i \in ToJudge /\ HasStep(i)
    BY <1>9, <1>typed DEF JudgeAnswers, HasStep, PlaceInv
  <2>2. PICK a \in Answers[CurrentPrompt(i)] :
          ~Unreadable(a) /\ sum' = [sum EXCEPT ![i] = @ + Parsed(a)]
    BY <1>9 DEF JudgeAnswers
  <2>3. Parsed(a) \in 0 .. Full
    BY <2>1, <2>2, InHand, ParsedBounded
  <2>4. asked[i] * Full + Full = (asked[i] + 1) * Full /\ asked[i] * Full \in Nat
    BY <1>typed, PoolAssumption, OneMore
  <2>5. sum[i] + Parsed(a) \in 0 .. (asked[i] + 1) * Full
    BY <2>3, <2>4, PoolAssumption DEF ValueInv
  <2>6. sum' = [sum EXCEPT ![i] = sum[i] + Parsed(a)] /\ asked' = [asked EXCEPT ![i] = asked[i] + 1]
    BY <1>9, <2>2 DEF JudgeAnswers
  <2>7. \A j \in Rows : sum'[j] \in 0 .. asked'[j] * Full
    BY <1>typed, <2>5, <2>6 DEF ValueInv
  <2> QED
    BY <1>9, <1>0, <1>same, <2>7 DEF JudgeAnswers, ValueInv
<1>10. ASSUME NEW i \in Rows, Store(i) PROVE ValueInv'
  <2>1. i \in ToJudge /\ HasStep(i) /\ asked[i] = Samples
    BY <1>10, <1>typed DEF Store, HasStep, PlaceInv
  <2>2. sum[i] \in 0 .. Ceiling
    BY <2>1 DEF ValueInv, Ceiling
  <2>3. CurrentKey(i) \in Keys
    BY <2>1, InHand
  <2>4. \A n \in DOMAIN Append(scores[i], sum[i]) : Append(scores[i], sum[i])[n] \in 0 .. Ceiling
    BY <2>2, OneScoreMore DEF ValueInv
  <2>5. i \notin taken
    BY <1>10 DEF Store, ValueInv
  <2>6. \A k \in Keys : cache'[k] # Missing => cache'[k] \in 0 .. Ceiling
    BY <1>10, <1>typed, <2>2, <2>3 DEF Store, ValueInv
  <2>7. \A j \in Rows : \A n \in DOMAIN scores'[j] : scores'[j][n] \in 0 .. Ceiling
    BY <1>10, <1>typed, <2>4 DEF Store, ValueInv
  <2>8. \A j \in taken : pc'[j] = "finished" /\ scores'[j] = scores[j]
    BY <1>10, <1>typed, <2>5 DEF Store, Goto, ValueInv
  <2> QED
    BY <1>10, <1>0, <1>same, <2>6, <2>7, <2>8 DEF Store, ValueInv
<1> QED
  BY <1>1, <1>2, <1>3, <1>4, <1>5, <1>6, <1>7, <1>8, <1>9, <1>10 DEF Next, Main, Work

\* The blend of a finished row is a fraction below one, for an alpha below one.
LEMMA BlendBelowOne ==
  ASSUME AlphaNum < AlphaDen, PlaceInv, ValueInv, NEW i \in taken
  PROVE  /\ Blend(scores[i]).num \in Int /\ Blend(scores[i]).den \in Int
         /\ Blend(scores[i]).num < Blend(scores[i]).den
<1> DEFINE L == Len(scores[i])
           total == SumFunctionOnSet(scores[i], DOMAIN scores[i])
<1>1. i \in ToJudge /\ i \in Rows /\ pc[i] = "finished" /\ batch \in Batches
  BY DEF PlaceInv, TypeOK, ToJudge, ValueInv
<1>2. scores[i] \in Seq(Int) /\ L = Len(Steps(i))
  BY <1>1 DEF PlaceInv, TypeOK
<1>3. L \in Nat \ {0}
  BY <1>1, <1>2, StepFacts
<1>4. Ceiling \in Nat \ {0}
  BY PoolAssumption DEF Ceiling
<1>5. total \in 0 .. Ceiling * L
  <2>1. DOMAIN scores[i] = 1 .. L
    BY <1>2
  <2>2. IsFiniteSet(DOMAIN scores[i]) /\ Cardinality(DOMAIN scores[i]) = L
    BY <1>3, <2>1, FS_Interval
  <2>3. \A n \in DOMAIN scores[i] : scores[i][n] \in 0 .. Ceiling
    BY <1>1 DEF ValueInv
  <2> HIDE DEF L
  <2> QED
    BY <1>4, <2>2, <2>3, SumIsBounded
<1>6. /\ Blend(scores[i]).num = AlphaNum * total
      /\ Blend(scores[i]).den = AlphaDen * Full * Samples * L
  BY DEF Blend, SumFunction
<1> HIDE DEF L, total
<1>7. AlphaDen * Full * Samples * L = AlphaDen * (Ceiling * L)
  BY <1>3, PoolAssumption DEF Ceiling
<1>8. \A a, d, k, t \in Nat : a < d /\ k > 0 /\ t <= k => a * t < d * k
  <2>1. SUFFICES ASSUME NEW a \in Nat, NEW d \in Nat, NEW k \in Nat, NEW t \in Nat,
                        a < d, k > 0, t <= k
                 PROVE  a * t < d * k
    OBVIOUS
  <2>2. a * t <= a * k
    BY <2>1
  <2>3. a * k < d * k
    BY <2>1
  <2>4. a * t \in Int /\ a * k \in Int /\ d * k \in Int
    OBVIOUS
  <2> QED
    BY <2>2, <2>3, <2>4
<1>9. Ceiling * L \in Nat /\ Ceiling * L > 0
  BY <1>3, <1>4
<1> QED
  BY <1>5, <1>6, <1>7, <1>8, <1>9, PoolAssumption

\* With an alpha below one a success outscores every failure of its batch, before and
\* after the scores are blended, whatever the judge answers, however the threads share
\* the cache and whether or not a call raised.
THEOREM PoolKeepsOrder ==
  ASSUME AlphaNum < AlphaDen
  PROVE  Spec => []SuccessOutscores
<1>1. PlaceInv /\ ValueInv => SuccessOutscores
  <2> SUFFICES ASSUME PlaceInv, ValueInv, NEW i \in Rows, NEW j \in Rows,
                      batch[i].success, ~batch[j].success
               PROVE  reward[i].num * reward[j].den > reward[j].num * reward[i].den
    BY DEF SuccessOutscores
  <2>1. i \notin taken
    BY DEF PlaceInv, TypeOK, ToJudge, Judged
  <2>2. reward[i].num = 1 /\ reward[i].den = 1
    <3>1. reward[i] = Outcome(batch[i])
      BY <2>1 DEF ValueInv
    <3> QED
      BY <3>1 DEF Outcome
  <2>3. reward[j].num \in Int /\ reward[j].den \in Int /\ reward[j].num < reward[j].den
    <3>1. CASE at = "done" /\ j \in taken
      <4>1. reward[j] = Blend(scores[j])
        BY <3>1 DEF ValueInv
      <4> QED
        BY <3>1, <4>1, BlendBelowOne
    <3>2. CASE ~(at = "done" /\ j \in taken)
      <4>1. reward[j] = Outcome(batch[j])
        BY <3>2 DEF ValueInv
      <4> QED
        BY <4>1 DEF Outcome
    <3> QED
      BY <3>1, <3>2
  <2> QED
    BY <2>2, <2>3
<1> QED
  BY <1>1, PlaceInit, PlaceStep, ValueInit, ValueStep, PTL DEF Spec
=============================================================================
