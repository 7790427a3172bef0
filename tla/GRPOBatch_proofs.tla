-------------------------- MODULE GRPOBatch_proofs --------------------------
(***************************************************************************)
(* Proofs about GRPOBatch for a batch of any size, any tasks and any draw  *)
(* of the curriculum.  The inductive invariant is Paced: after each round  *)
(* the rollouts of a group are 4, 6 or 8 for each copy of its prompt, a    *)
(* group without a success has kept up with the rounds, and it is still    *)
(* active.                                                                 *)
(***************************************************************************)
EXTENDS GRPOBatch, FiniteSetTheorems, TLAPS

\* Positions of the prompt u.
At(u) == {p \in Rows : prompts[p] = u}

\* What the rounds make of a group is counted in whole numbers.
LEMMA CountPositions ==
  ASSUME NEW u \in Rows, NEW positions \in SUBSET Rows
  PROVE  /\ Cardinality({p \in positions : prompts[p] = u}) \in Nat
         /\ Cardinality(At(u)) \in Nat
         /\ Drawn(u) <=> Cardinality(At(u)) # 0
<1>1. IsFiniteSet(Rows) BY BatchAssumption, FS_Interval DEF Rows
<1>2. IsFiniteSet(At(u)) /\ IsFiniteSet({p \in positions : prompts[p] = u})
  BY <1>1, FS_Subset DEF At
<1>3. Cardinality(At(u)) = 0 <=> At(u) = {} BY <1>2, FS_EmptySet
<1>. QED BY <1>2, <1>3, FS_CardinalityType DEF At, Drawn

\* Generating keeps the counts whole, and adds up to what is made.
LEMMA GenerateCounts ==
  ASSUME TypeOK, NEW positions \in SUBSET Rows, NEW n \in Nat, Generate(positions, n)
  PROVE  /\ wins' \in [Rows -> Nat] /\ fails' \in [Rows -> Nat]
         /\ \A u \in Rows : /\ wins'[u] + fails'[u] = wins[u] + fails[u] + Made(u, positions, n)
                            /\ wins[u] <= wins'[u] /\ wins'[u] <= wins[u] + Made(u, positions, n)
                            /\ fails[u] <= fails'[u]
<1>1. PICK won \in [Rows -> 0 .. n * Size] :
        /\ \A u \in Rows : won[u] <= Made(u, positions, n)
        /\ wins' = [u \in Rows |-> wins[u] + won[u]]
        /\ fails' = [u \in Rows |-> fails[u] + Made(u, positions, n) - won[u]]
  BY DEF Generate
<1>2. \A u \in Rows : Made(u, positions, n) \in Nat
  BY CountPositions DEF Made
<1>3. n * Size \in Nat BY BatchAssumption
<1>4. \A u \in Rows : won[u] \in Nat BY <1>1, <1>3
<1>. QED BY <1>1, <1>2, <1>4 DEF TypeOK

\* Every step keeps the types.
LEMMA TypeStep ==
  ASSUME TypeOK, [Next]_vars
  PROVE  TypeOK'
<1>. USE DEF TypeOK, scores
<1>1. CASE Draw BY <1>1 DEF Draw
<1>2. CASE GenerateAll
  <2>1. Rows \in SUBSET Rows /\ RolloutN \in Nat BY BatchAssumption
  <2>2. wins' \in [Rows -> Nat] /\ fails' \in [Rows -> Nat]
    BY <1>2, <2>1, GenerateCounts DEF GenerateAll
  <2>. QED BY <1>2, <2>2 DEF GenerateAll
<1>3. CASE Round
  <2>1. Increments[round + 1] \in Nat /\ round + 1 \in 0 .. 3
    BY <1>3 DEF Round, Increments
  <2>2. wins' \in [Rows -> Nat] /\ fails' \in [Rows -> Nat]
    BY <1>3, <2>1, GenerateCounts DEF Round
  <2>. QED BY <1>3, <2>1, <2>2 DEF Round
<1>4. CASE ApplyJudge
  <2>1. PICK passed \in [Rows -> 0 .. MaxPassedOver] :
          /\ \A u \in Rows : passed[u] <= fails[u]
          /\ judged' = [u \in Rows |-> IF Anchored(u) THEN fails[u] - passed[u] ELSE 0]
          /\ skipped' = [u \in Rows |-> IF Anchored(u) THEN 0 ELSE fails[u] - passed[u]]
    BY <1>4 DEF ApplyJudge
  <2>2. \A u \in Rows : fails[u] - passed[u] \in Nat BY <2>1, BatchAssumption
  <2>3. judged' \in [Rows -> Nat] /\ skipped' \in [Rows -> Nat] BY <2>1, <2>2
  <2>. QED BY <1>4, <2>3 DEF ApplyJudge
<1>5. CASE DrawRaises \/ TakeAll \/ RoundRaises \/ RoundsEnd \/ SkipJudge \/ JudgeRaises
  BY <1>5 DEF DrawRaises, TakeAll, RoundRaises, RoundsEnd, SkipJudge, JudgeRaises, Raise
<1>6. CASE UNCHANGED vars BY <1>6 DEF vars
<1>. QED BY <1>1, <1>2, <1>3, <1>4, <1>5, <1>6 DEF Next

\* The types hold in every state, for a batch of any size.
THEOREM BatchTypes == Spec => []TypeOK
<1>1. Init => TypeOK BY BatchAssumption DEF Init, TypeOK, Rows
<1>2. TypeOK /\ [Next]_vars => TypeOK' BY TypeStep
<1>. QED BY <1>1, <1>2, PTL DEF Spec

-----------------------------------------------------------------------------
(* The rounds                                                              *)

\* What the group of u may count after r rounds, k being its copies.
Pace(u, r, k) ==
  LET n == wins[u] + fails[u] IN
  /\ r = 0 => n = 0
  /\ r = 1 => n = 4 * k
  /\ r = 2 => n = 4 * k \/ n = 6 * k
  /\ r = 3 => n = 4 * k \/ n = 6 * k \/ n = 8 * k
  /\ n > 6 * k => wins[u] <= 2 * k

\* A group without a success has kept up.
KeepsUp(u, r, k) ==
  LET n == wins[u] + fails[u] IN
  wins[u] = 0 =>
    /\ r = 1 => n = 4 * k
    /\ r = 2 => n = 6 * k
    /\ r = 3 => n = 8 * k

Paced ==
  setting.progressive =>
    /\ \A u \in Rows : Pace(u, round, Cardinality(At(u))) /\ KeepsUp(u, round, Cardinality(At(u)))
    /\ \A p, q \in Rows : prompts[p] = prompts[q] /\ p \in active => q \in active
    /\ round = 0 => active = Rows
    /\ round \in {1, 2} => \A p \in Rows : wins[prompts[p]] = 0 => p \in active
    /\ round = 2 => \A p \in active : wins[prompts[p]] = 0 \/ wins[prompts[p]] + fails[prompts[p]] < 6
    /\ round = 1 => \A p \in active : wins[prompts[p]] = 0
    /\ at = "loaded" => round = 0
    /\ at \in {"generated", "shaped"} => round = 3 \/ (round > 0 /\ active = {})

\* The step of the rounds.
LEMMA PacedRound ==
  ASSUME TypeOK, Paced, Round
  PROVE  Paced'
<1>. DEFINE inc == Increments[round + 1]
            size == RoundSizes[round + 1]
<1>0. /\ setting.progressive /\ setting' = setting /\ prompts' = prompts /\ at' = at /\ at = "drawn"
      /\ round \in {0, 1, 2} /\ round' = round + 1 /\ inc \in Nat
      /\ Generate(active, inc)
  BY DEF Round, TypeOK, Increments
<1>1. /\ active' = {p \in Rows : StaysActive(prompts[p], size, wins'[prompts[p]], fails'[prompts[p]])}
  BY DEF Round
<1>2. ASSUME NEW u \in Rows
      PROVE  Pace(u, round, Cardinality(At(u)))' /\ KeepsUp(u, round, Cardinality(At(u)))'
  <2>. DEFINE k == Cardinality(At(u))
  <2>1. k \in Nat /\ At(u)' = At(u) BY <1>0, CountPositions DEF At
  <2>2. Pace(u, round, k) /\ KeepsUp(u, round, k) BY <1>0 DEF Paced
  <2>3. /\ wins[u] \in Nat /\ fails[u] \in Nat /\ wins'[u] \in Nat /\ fails'[u] \in Nat
        /\ wins'[u] + fails'[u] = wins[u] + fails[u] + Made(u, active, inc)
        /\ wins[u] <= wins'[u] /\ wins'[u] <= wins[u] + Made(u, active, inc)
    BY <1>0, GenerateCounts DEF TypeOK
  <2>4. CASE \E p \in active : prompts[p] = u
    <3>1. {p \in active : prompts[p] = u} = At(u) BY <1>0, <2>4 DEF Paced, At, TypeOK
    <3>2. Made(u, active, inc) = inc * k BY <3>1 DEF Made
    <3>3. CASE round = 0
      <4>1. inc = 4 BY <3>3 DEF Increments
      <4>. QED BY <1>0, <2>1, <2>2, <2>3, <3>2, <3>3, <4>1 DEF Pace, KeepsUp
    <3>4. CASE round = 1
      <4>1. inc = 2 BY <3>4 DEF Increments
      <4>2. wins[u] = 0 BY <1>0, <2>4, <3>4 DEF Paced
      <4>. QED BY <1>0, <2>1, <2>2, <2>3, <3>2, <3>4, <4>1, <4>2 DEF Pace, KeepsUp
    <3>5. CASE round = 2
      <4>1. inc = 2 BY <3>5 DEF Increments
      <4>2. wins[u] = 0 \/ wins[u] + fails[u] < 6 BY <1>0, <2>4, <3>5 DEF Paced
      <4>3. k # 0 BY <2>4, CountPositions DEF Drawn, TypeOK
      <4>4. CASE wins[u] = 0
        BY <1>0, <2>1, <2>2, <2>3, <3>2, <3>5, <4>1, <4>4 DEF Pace, KeepsUp
      <4>5. CASE wins[u] # 0
        <5>1. wins[u] + fails[u] < 6 BY <4>2, <4>5
        <5>2. k = 1 /\ wins[u] + fails[u] = 4 BY <2>1, <2>2, <2>3, <3>5, <4>3, <5>1 DEF Pace
        <5>. QED BY <1>0, <2>1, <2>3, <3>2, <3>5, <4>1, <4>5, <5>2 DEF Pace, KeepsUp
      <4>. QED BY <4>4, <4>5
    <3>. QED BY <1>0, <3>3, <3>4, <3>5
  <2>5. CASE ~\E p \in active : prompts[p] = u
    <3>1. {p \in active : prompts[p] = u} = {} BY <2>5
    <3>2. Made(u, active, inc) = 0
      <4>. HIDE DEF inc
      <4>1. Cardinality({p \in active : prompts[p] = u}) = 0 BY <3>1, FS_EmptySet
      <4>2. inc \in Nat BY <1>0
      <4>. QED BY <4>1, <4>2 DEF Made
    <3>3. CASE round = 0
      <4>1. active = Rows BY <1>0, <3>3 DEF Paced
      <4>2. At(u) = {} BY <2>5, <4>1 DEF At
      <4>3. k = 0 BY <4>2, FS_EmptySet
      <4>. QED BY <1>0, <2>1, <2>2, <2>3, <3>2, <3>3, <4>3 DEF Pace, KeepsUp
    <3>4. CASE round \in {1, 2}
      <4>1. wins[u] = 0 => At(u) = {} BY <1>0, <2>5, <3>4 DEF Paced, At
      <4>2. wins[u] = 0 => k = 0 BY <4>1, FS_EmptySet
      <4>. QED BY <1>0, <2>1, <2>2, <2>3, <3>2, <3>4, <4>2 DEF Pace, KeepsUp
    <3>. QED BY <1>0, <3>3, <3>4
  <2>. QED BY <2>4, <2>5
<1>3. \A p, q \in Rows : prompts[p] = prompts[q] /\ p \in active' => q \in active'
  BY <1>1
<1>4. round' \in {1, 2} => \A p \in Rows : wins'[prompts[p]] = 0 => p \in active'
  BY <1>0, <1>1 DEF StaysActive, RoundSizes
<1>5. round' = 2 =>
        \A p \in active' : wins'[prompts[p]] = 0 \/ wins'[prompts[p]] + fails'[prompts[p]] < 6
  BY <1>0, <1>1 DEF StaysActive, RoundSizes
<1>6. round' = 1 => \A p \in active' : wins'[prompts[p]] = 0
  <2>. SUFFICES ASSUME round' = 1, NEW p \in active' PROVE wins'[prompts[p]] = 0
    OBVIOUS
  <2>. DEFINE u == prompts[p]
  <2>1. p \in Rows /\ u \in Rows /\ round = 0 BY <1>0, <1>1 DEF TypeOK
  <2>2. Drawn(u) BY <2>1 DEF Drawn
  <2>3. Cardinality(At(u)) \in Nat /\ Cardinality(At(u)) # 0 /\ At(u)' = At(u)
    BY <1>0, <2>1, <2>2, CountPositions DEF At
  <2>4. wins'[u] + fails'[u] = 4 * Cardinality(At(u))
    BY <1>0, <1>2, <2>1, <2>3 DEF Pace
  <2>5. ~(wins'[u] + fails'[u] < 4) BY <2>3, <2>4
  <2>. QED BY <1>1, <2>1, <2>5 DEF StaysActive, RoundSizes
<1>. QED BY <1>0, <1>2, <1>3, <1>4, <1>5, <1>6 DEF Paced

\* Every step keeps the pace.
LEMMA PacedStep ==
  ASSUME TypeOK, Paced, [Next]_vars
  PROVE  Paced'
<1>1. CASE Round BY <1>1, PacedRound
<1>2. CASE Draw
  <2>1. ASSUME setting.progressive
        PROVE  /\ round' = 0 /\ active' = Rows /\ at' = "drawn"
               /\ \A u \in Rows : wins[u] \in Nat /\ fails[u] \in Nat /\ wins[u] + fails[u] = 0
    BY <1>2, <2>1 DEF Draw, Paced, Pace, TypeOK
  <2>2. \A u \in Rows : Cardinality(At(u)') \in Nat
    <3>1. IsFiniteSet(Rows) BY BatchAssumption, FS_Interval DEF Rows
    <3>. QED BY <3>1, FS_Subset, FS_CardinalityType DEF At
  <2>. QED BY <1>2, <2>1, <2>2 DEF Draw, Paced, Pace, KeepsUp
<1>3. CASE RoundsEnd
  <2>1. 1 \in Rows BY BatchAssumption DEF Rows
  <2>2. ASSUME setting.progressive PROVE round = 3 \/ (round > 0 /\ active = {})
    BY <1>3, <2>1, <2>2 DEF RoundsEnd, Paced, TypeOK
  <2>3. /\ setting' = setting /\ prompts' = prompts /\ round' = round /\ active' = active
        /\ wins' = wins /\ fails' = fails /\ at' = "generated"
    BY <1>3 DEF RoundsEnd
  <2>. QED BY <2>2, <2>3 DEF Paced, Pace, KeepsUp, At
<1>4. CASE TakeAll \/ SkipJudge \/ ApplyJudge
  BY <1>4 DEF TakeAll, SkipJudge, ApplyJudge, Paced, Pace, KeepsUp, At
<1>5. CASE DrawRaises \/ RoundRaises \/ JudgeRaises
  BY <1>5 DEF DrawRaises, RoundRaises, JudgeRaises, Raise, Paced, Pace, KeepsUp, At
<1>6. CASE GenerateAll BY <1>6 DEF GenerateAll, Paced
<1>7. CASE UNCHANGED vars BY <1>7 DEF vars, Paced, Pace, KeepsUp, At
<1>. QED BY <1>1, <1>2, <1>3, <1>4, <1>5, <1>6, <1>7 DEF Next

\* The groups keep the pace in every state.
LEMMA AlwaysPaced == Spec => []Paced
<1>1. Init => Paced
  <2>. SUFFICES ASSUME Init PROVE Paced
    OBVIOUS
  <2>1. \A u \in Rows : wins[u] = 0 /\ fails[u] = 0 BY DEF Init
  <2>2. \A u \in Rows : Cardinality(At(u)) \in Nat BY CountPositions DEF Init
  <2>. QED BY <2>1, <2>2 DEF Init, Paced, Pace, KeepsUp
<1>2. TypeOK /\ Paced /\ [Next]_vars => Paced' BY PacedStep
<1>. QED BY <1>1, <1>2, BatchTypes, PTL DEF Spec

\* Whatever the batch and the draw, no copy of a prompt costs more than eight
\* rollouts, and a group gets past six for each copy only when its first six failed.
THEOREM BudgetKept == Spec => []RoundBudget
<1>1. TypeOK /\ Paced => RoundBudget
  <2>. SUFFICES ASSUME TypeOK, Paced, setting.progressive, NEW u \in Rows
                PROVE  /\ Rollouts(u) <= 8 * Copies(u)
                       /\ Rollouts(u) > 6 * Copies(u) => wins[u] <= 2 * Copies(u)
    BY DEF RoundBudget
  <2>1. Copies(u) = Cardinality(At(u)) /\ Cardinality(At(u)) \in Nat
    BY CountPositions DEF Copies, At
  <2>2. Pace(u, round, Cardinality(At(u))) /\ round \in {0, 1, 2, 3} BY DEF Paced, TypeOK
  <2>3. wins[u] \in Nat /\ fails[u] \in Nat BY DEF TypeOK
  <2>. QED BY <2>1, <2>2, <2>3 DEF Pace, Rollouts
<1>. QED BY <1>1, AlwaysPaced, BatchTypes, PTL

\* Whatever the batch and the draw, a prompt that ends without a success has had
\* its eight rollouts.
THEOREM NobodyGivenUpEarly == Spec => []FailedGroupsGetEight
<1>1. TypeOK /\ Paced => FailedGroupsGetEight
  <2>. SUFFICES ASSUME TypeOK, Paced, at \in {"generated", "shaped"}, setting.progressive,
                       NEW u \in Rows, Drawn(u), wins[u] = 0
                PROVE  Rollouts(u) >= 8
    BY DEF FailedGroupsGetEight
  <2>1. Cardinality(At(u)) \in Nat /\ Cardinality(At(u)) # 0 BY CountPositions
  <2>2. KeepsUp(u, round, Cardinality(At(u))) BY DEF Paced
  <2>3. PICK p \in Rows : prompts[p] = u BY DEF Drawn
  <2>4. round = 3 BY <2>3 DEF Paced, TypeOK
  <2>. QED BY <2>1, <2>2, <2>4 DEF KeepsUp, Rollouts
<1>. QED BY <1>1, AlwaysPaced, BatchTypes, PTL

-----------------------------------------------------------------------------
(* The judge                                                               *)

\* What the judge has scored and skipped when the step is shaped.
Scored ==
  /\ at \in {"loaded", "drawn", "generated"} => \A u \in Rows : judged[u] = 0 /\ skipped[u] = 0
  /\ at = "shaped" =>
       \A u \in Rows : /\ judged[u] + skipped[u] <= fails[u]
                       /\ judged[u] > 0 => Anchored(u) /\ skipped[u] = 0
                       /\ skipped[u] > 0 => ~Anchored(u) /\ judged[u] = 0

\* Every step keeps the scores.
LEMMA ScoredStep ==
  ASSUME TypeOK, Scored, [Next]_vars
  PROVE  Scored'
<1>. USE DEF scores
<1>1. CASE ApplyJudge
  <2>1. PICK passed \in [Rows -> 0 .. MaxPassedOver] :
          /\ \A u \in Rows : passed[u] <= fails[u]
          /\ judged' = [u \in Rows |-> IF Anchored(u) THEN fails[u] - passed[u] ELSE 0]
          /\ skipped' = [u \in Rows |-> IF Anchored(u) THEN 0 ELSE fails[u] - passed[u]]
    BY <1>1 DEF ApplyJudge
  <2>2. at' = "shaped" /\ fails' = fails /\ wins' = wins BY <1>1 DEF ApplyJudge
  <2>3. \A u \in Rows : Anchored(u)' = Anchored(u) BY <2>2 DEF Anchored
  <2>4. \A u \in Rows : /\ fails[u] \in Nat /\ passed[u] \in Nat
                        /\ fails[u] - passed[u] \in Nat /\ fails[u] - passed[u] <= fails[u]
    BY <2>1, BatchAssumption DEF TypeOK
  <2>5. ASSUME NEW u \in Rows
        PROVE  /\ judged'[u] + skipped'[u] <= fails'[u]
               /\ judged'[u] > 0 => Anchored(u)' /\ skipped'[u] = 0
               /\ skipped'[u] > 0 => ~Anchored(u)' /\ judged'[u] = 0
    <3>1. CASE Anchored(u) BY <2>1, <2>2, <2>3, <2>4, <3>1
    <3>2. CASE ~Anchored(u) BY <2>1, <2>2, <2>3, <2>4, <3>2
    <3>. QED BY <3>1, <3>2
  <2>. QED BY <2>2, <2>5 DEF Scored
<1>2. CASE SkipJudge
  BY <1>2 DEF SkipJudge, Scored, TypeOK
<1>3. CASE Draw \/ TakeAll \/ GenerateAll \/ Round \/ RoundsEnd
  BY <1>3 DEF Draw, TakeAll, GenerateAll, Round, RoundsEnd, Scored
<1>4. CASE DrawRaises \/ RoundRaises \/ JudgeRaises
  BY <1>4 DEF DrawRaises, RoundRaises, JudgeRaises, Raise, Scored
<1>5. CASE UNCHANGED vars BY <1>5 DEF vars, Scored, Anchored
<1>. QED BY <1>1, <1>2, <1>3, <1>4, <1>5 DEF Next

\* The scores are as described in every state.
LEMMA AlwaysScored == Spec => []Scored
<1>1. Init => Scored BY DEF Init, Scored
<1>2. TypeOK /\ Scored /\ [Next]_vars => Scored' BY ScoredStep
<1>. QED BY <1>1, <1>2, BatchTypes, PTL DEF Spec

\* Whatever the batch, the draw and the rows the judge is not shown, a failure is skipped
\* only in a group whose whole budget was spent on failures, and none of those is scored.
THEOREM SkippedSpent == Spec => []SkippedSpentAll
<1>1. TypeOK /\ Paced /\ Scored => SkippedSpentAll
  <2>. SUFFICES ASSUME TypeOK, Paced, Scored, at = "shaped", setting.progressive,
                       NEW u \in Rows, Drawn(u)
                PROVE  /\ skipped[u] > 0 => fails[u] = 8 * Copies(u)
                       /\ judged[u] > 0 => fails[u] < 8 * Copies(u)
                       /\ judged[u] + skipped[u] <= fails[u]
    BY DEF SkippedSpentAll
  <2>. DEFINE k == Cardinality(At(u))
  <2>1. k \in Nat /\ k # 0 /\ Copies(u) = k BY CountPositions DEF At, Copies
  <2>2. wins[u] \in Nat /\ fails[u] \in Nat BY DEF TypeOK
  <2>3. /\ judged[u] + skipped[u] <= fails[u]
        /\ judged[u] > 0 => wins[u] > 0
        /\ skipped[u] > 0 => ~(wins[u] > 0)
    BY DEF Scored, Anchored
  <2>4. CASE wins[u] = 0
    <3>1. PICK p \in Rows : prompts[p] = u BY DEF Drawn
    <3>2. round = 3 BY <2>4, <3>1 DEF Paced, TypeOK
    <3>3. fails[u] = 8 * k BY <2>1, <2>2, <2>4, <3>2 DEF Paced, KeepsUp
    <3>. QED BY <2>1, <2>3, <2>4, <3>3
  <2>5. CASE wins[u] > 0
    <3>1. wins[u] + fails[u] <= 8 * k BY <2>1, <2>2 DEF Paced, Pace, TypeOK
    <3>2. fails[u] < 8 * k BY <2>1, <2>2, <2>5, <3>1
    <3>. QED BY <2>1, <2>3, <2>5, <3>2
  <2>. QED BY <2>2, <2>4, <2>5
<1>. QED BY <1>1, AlwaysPaced, AlwaysScored, BatchTypes, PTL
=============================================================================
