------------------------ MODULE RolloutSession_proofs ------------------------
(* Proofs about RolloutSession, for every set of rollouts, every set of    *)
(* databases and tasks, and every limit.                                   *)
EXTENDS RolloutSession, TLAPS

-----------------------------------------------------------------------------
(* Types of the operators                                                  *)

\* A saturating counter stays within its limit.
LEMMA CountType ==
  ASSUME NEW limit \in Nat, NEW n \in 0 .. limit
  PROVE  Count(n, limit) \in 0 .. limit
  BY DEF Count

\* The turns of the state dict are such a counter.
LEMMA CountTurnType ==
  ASSUME NEW n \in 0 .. MaxTurns
  PROVE  CountTurn(n) \in 0 .. MaxTurns
  BY CountType, RolloutAssumption DEF CountTurn

\* calculate_reward returns 0 or 1.
LEMMA VerdictType ==
  ASSUME NEW t, NEW db, NEW acts
  PROVE  Verdict(t, db, acts) \in {0, 1}
  BY DEF Verdict

\* Counting a turn, and booking the outcome of a replay or of a transfer, keep
\* the state dicts well formed.
LEMMA StateTurn ==
  ASSUME state \in [Rollouts -> StateDict], NEW x \in Rollouts
  PROVE  [state EXCEPT ![x].turns = CountTurn(@)] \in [Rollouts -> StateDict]
  BY CountTurnType DEF StateDict

\* The same for the end of an episode.
LEMMA StateEnds ==
  ASSUME state \in [Rollouts -> StateDict], NEW x \in Rollouts, NEW v \in {0, 1}
  PROVE  [state EXCEPT ![x] = EndedWith(@, v)] \in [Rollouts -> StateDict]
  BY CountTurnType DEF StateDict, EndedWith

\* AgentData's counters.
LEMMA TurnTypes ==
  ASSUME turns \in [Rollouts -> AgentTurns], NEW x \in Rollouts
  PROVE  /\ AssistantTurn(x) \in [Rollouts -> AgentTurns]
         /\ UserTurn(x) \in [Rollouts -> AgentTurns]
  BY CountType, RolloutAssumption DEF AssistantTurn, UserTurn, AgentTurns

\* The environment's own operations.
LEMMA EnvActs ==
  ASSUME env \in [Rollouts -> EnvType], NEW x \in Rollouts, NEW act \in ActKinds
  PROVE  [env EXCEPT ![x].acts = @ \cup {act}] \in [Rollouts -> EnvType]
  BY DEF EnvType

\* An action env.step grades leaves an environment.
LEMMA StepEndsType ==
  ASSUME env \in [Rollouts -> EnvType], task \in [Rollouts -> Tasks],
         NEW x \in Rollouts, NEW act \in ActKinds
  PROVE  [env EXCEPT ![x] = StepEnds(task[x], @, act)] \in [Rollouts -> EnvType]
  BY RolloutAssumption DEF EnvType, StepEnds, Graded, ActKinds

\* So does a transfer, whose data is put back.
LEMMA TransferType ==
  ASSUME env \in [Rollouts -> EnvType], NEW x \in Rollouts
  PROVE  [env EXCEPT ![x] = TransferKeepingData(task[x], @)] \in [Rollouts -> EnvType]
  BY DEF EnvType, TransferKeepingData, Graded, ActKinds

-----------------------------------------------------------------------------
\* Type correctness (the state dict, AgentData and the interaction's table keep
\* their shapes through every handler) is inductive by itself.
LEMMA TypeStep == TypeOK /\ [Next]_vars => TypeOK'
<1>. SUFFICES ASSUME TypeOK, [Next]_vars PROVE TypeOK'
  OBVIOUS
<1>. USE DEF vars, TypeOK
<1>1. ASSUME NEW r \in Rollouts, Launch(r) PROVE TypeOK'
  BY <1>1 DEF Launch, Phases
<1>2. ASSUME NEW r \in Rollouts, ResetReturns(r) PROVE TypeOK'
  BY <1>2 DEF ResetReturns, Register, SetContext, Phases
<1>3. ASSUME NEW r \in Rollouts, ResetThenReplay(r) PROVE TypeOK'
  BY <1>3 DEF ResetThenReplay, Phases
<1>4. ASSUME NEW r \in Rollouts, ReplayContinues(r) PROVE TypeOK'
  <2>1. state' \in [Rollouts -> StateDict]
    BY <1>4, StateTurn DEF ReplayContinues
  <2>2. env' \in [Rollouts -> EnvType]
    BY <1>4 DEF ReplayContinues, EnvType, ActKinds
  <2>3. calls' \in [Rollouts -> Nat]
    BY <1>4 DEF ReplayContinues
  <2>. QED
    BY <1>4, <2>1, <2>2, <2>3 DEF ReplayContinues, Phases
<1>5. ASSUME NEW r \in Rollouts, ReplayEndsEpisode(r) PROVE TypeOK'
  <2>1. state' \in [Rollouts -> StateDict]
    BY <1>5, StateEnds, VerdictType DEF ReplayEndsEpisode
  <2>2. env' \in [Rollouts -> EnvType]
    BY <1>5, StepEndsType DEF ReplayEndsEpisode, ActKinds
  <2>3. calls' \in [Rollouts -> Nat]
    BY <1>5 DEF ReplayEndsEpisode
  <2>. QED
    BY <1>5, <2>1, <2>2, <2>3 DEF ReplayEndsEpisode, Phases
<1>6. ASSUME NEW r \in Rollouts, ReplaySkips(r) PROVE TypeOK'
  BY <1>6 DEF ReplaySkips, Phases
<1>7. ASSUME NEW r \in Rollouts, ReplayReturns(r) PROVE TypeOK'
  BY <1>7 DEF ReplayReturns, Register, SetContext, Phases
<1>8. ASSUME NEW r \in Rollouts, SetupFails(r) PROVE TypeOK'
  BY <1>8 DEF SetupFails, Phases
<1>9. ASSUME NEW r \in Rollouts, BuildPrompt(r) PROVE TypeOK'
  BY <1>9 DEF BuildPrompt, Phases
<1>10. ASSUME NEW r \in Rollouts, GenerateStops(r) PROVE TypeOK'
  <2>1. turns' \in [Rollouts -> AgentTurns]
    BY <1>10, TurnTypes DEF GenerateStops
  <2>. QED
    BY <1>10, <2>1 DEF GenerateStops, Phases
<1>11. ASSUME NEW r \in Rollouts, GenerateCalls(r) PROVE TypeOK'
  <2>1. turns' \in [Rollouts -> AgentTurns]
    BY <1>11, TurnTypes DEF GenerateCalls
  <2>2. calls' \in [Rollouts -> Nat]
    BY <1>11, RolloutAssumption DEF GenerateCalls
  <2>. QED
    BY <1>11, <2>1, <2>2 DEF GenerateCalls, Phases
<1>12. ASSUME NEW r \in Rollouts, GenerateReply(r) PROVE TypeOK'
  <2>1. turns' \in [Rollouts -> AgentTurns]
    BY <1>12, TurnTypes DEF GenerateReply
  <2>. QED
    BY <1>12, <2>1 DEF GenerateReply, Phases
<1>13. ASSUME NEW r \in Rollouts, LoopFails(r) PROVE TypeOK'
  BY <1>13 DEF LoopFails, Finalize, Phases
<1>14. ASSUME NEW r \in Rollouts, CallRejected(r) PROVE TypeOK'
  BY <1>14 DEF CallRejected, NextCall, Phases
<1>15. ASSUME NEW r \in Rollouts, CallBadArguments(r) PROVE TypeOK'
  <2>1. ctx[r] \in Rollouts
    BY <1>15 DEF CallBadArguments
  <2>2. state' \in [Rollouts -> StateDict]
    BY <1>15, <2>1, StateTurn DEF CallBadArguments
  <2>3. calls' \in [Rollouts -> Nat]
    BY <1>15, <2>1 DEF CallBadArguments, NextCall
  <2>. QED
    BY <1>15, <2>1, <2>2, <2>3 DEF CallBadArguments, NextCall, Phases
<1>16. ASSUME NEW r \in Rollouts, CallRaises(r) PROVE TypeOK'
  <2>1. ctx[r] \in Rollouts
    BY <1>16 DEF CallRaises
  <2>2. state' \in [Rollouts -> StateDict]
    BY <1>16, <2>1, StateTurn DEF CallRaises
  <2>3. env' \in [Rollouts -> EnvType]
    BY <1>16, <2>1, EnvActs DEF CallRaises, ActKinds
  <2>4. calls' \in [Rollouts -> Nat]
    BY <1>16, <2>1 DEF CallRaises, NextCall
  <2>. QED
    BY <1>16, <2>1, <2>2, <2>3, <2>4 DEF CallRaises, NextCall, Phases
<1>17. ASSUME NEW r \in Rollouts, CallTool(r) PROVE TypeOK'
  <2>1. ctx[r] \in Rollouts
    BY <1>17 DEF CallTool
  <2>2. state' \in [Rollouts -> StateDict]
    BY <1>17, <2>1, StateTurn DEF CallTool
  <2>3. env' \in [Rollouts -> EnvType]
    BY <1>17, <2>1 DEF CallTool, EnvType, ActKinds
  <2>4. policyDb' \in [Rollouts -> DBs]
    BY <1>17, <2>1 DEF CallTool
  <2>5. calls' \in [Rollouts -> Nat]
    BY <1>17, <2>1 DEF CallTool, NextCall
  <2>. QED
    BY <1>17, <2>1, <2>2, <2>3, <2>4, <2>5 DEF CallTool, NextCall, Phases
<1>18. ASSUME NEW r \in Rollouts, CallTransfer(r) PROVE TypeOK'
  <2>1. ctx[r] \in Rollouts
    BY <1>18 DEF CallTransfer
  <2>2. state' \in [Rollouts -> StateDict]
    BY <1>18, <2>1, StateEnds, VerdictType DEF CallTransfer
  <2>3. env' \in [Rollouts -> EnvType]
    BY <1>18, <2>1, TransferType DEF CallTransfer
  <2>4. calls' \in [Rollouts -> Nat]
    BY <1>18, <2>1 DEF CallTransfer, NextCall
  <2>. QED
    BY <1>18, <2>1, <2>2, <2>3, <2>4 DEF CallTransfer, NextCall, Phases
<1>19. ASSUME NEW r \in Rollouts, ToolsReturn(r) PROVE TypeOK'
  <2>1. turns' \in [Rollouts -> AgentTurns]
    BY <1>19, TurnTypes DEF ToolsReturn
  <2>2. phase' \in [Rollouts -> Phases]
    BY <1>19 DEF ToolsReturn, Phases
  <2>. QED
    BY <1>19, <2>1, <2>2 DEF ToolsReturn, Phases
<1>20. ASSUME NEW r \in Rollouts, Respond(r) PROVE TypeOK'
  BY <1>20 DEF Respond, SetContext, Phases
<1>21. ASSUME NEW r \in Rollouts, UserReplies(r) PROVE TypeOK'
  <2>1. PICK act \in ActKinds : env' = [env EXCEPT ![r].acts = @ \cup {act}]
    BY <1>21 DEF UserReplies, ActKinds
  <2>2. env' \in [Rollouts -> EnvType]
    BY <1>21, <2>1, EnvActs DEF UserReplies, ActKinds
  <2>3. reply' \in [Rollouts -> StepResult]
    BY <1>21 DEF UserReplies, StepResult
  <2>. QED
    BY <1>21, <2>1, <2>2, <2>3 DEF UserReplies, Phases
<1>22. ASSUME NEW r \in Rollouts, UserStops(r) PROVE TypeOK'
  <2>1. env' \in [Rollouts -> EnvType]
    BY <1>22, StepEndsType DEF UserStops, ActKinds
  <2>2. reply' \in [Rollouts -> StepResult]
    BY <1>22, VerdictType DEF UserStops, StepResult
  <2>. QED
    BY <1>22, <2>1, <2>2 DEF UserStops, Phases
<1>23. ASSUME NEW r \in Rollouts, UserFails(r) PROVE TypeOK'
  <2>1. PICK act \in ActKinds : env' = [env EXCEPT ![r].acts = @ \cup {act}]
    BY <1>23 DEF UserFails, ActKinds
  <2>2. turns' \in [Rollouts -> AgentTurns]
    BY <1>23, TurnTypes DEF UserFails
  <2>3. env' \in [Rollouts -> EnvType]
    BY <1>23, <2>1, EnvActs DEF UserFails, ActKinds
  <2>4. state' \in [Rollouts -> StateDict]
    <3>1. \A x \in StateDict : [x EXCEPT !.done = TRUE] \in StateDict
      BY ONLY DEF StateDict
    <3>2. state' = [state EXCEPT ![r] = [@ EXCEPT !.done = TRUE]]
      BY <1>23 DEF UserFails
    <3>3. QED
      BY ONLY <3>1, <3>2, r \in Rollouts, state \in [Rollouts -> StateDict]
  <2>. QED
    BY <1>23, <2>1, <2>2, <2>3, <2>4 DEF UserFails, Phases
<1>24. ASSUME NEW r \in Rollouts, TurnReturns(r) PROVE TypeOK'
  <2>1. state' \in [Rollouts -> StateDict]
    BY <1>24, CountTurnType DEF TurnReturns, LastTurn, StateDict, StepResult
  <2>2. turns' \in [Rollouts -> AgentTurns]
    BY <1>24, TurnTypes DEF TurnReturns, LastTurn
  <2>3. phase' \in [Rollouts -> Phases]
    BY <1>24 DEF TurnReturns, LastTurn, Phases
  <2>. QED
    BY <1>24, <2>1, <2>2, <2>3 DEF TurnReturns, LastTurn, Phases
<1>25. ASSUME NEW r \in Rollouts, Close(r) PROVE TypeOK'
  BY <1>25 DEF Close, Finalize, StateDict, Phases
<1>26. CASE UNCHANGED vars
  BY <1>26
<1>. QED
  BY <1>1, <1>2, <1>3, <1>4, <1>5, <1>6, <1>7, <1>8, <1>9, <1>10, <1>11, <1>12, <1>13,
     <1>14, <1>15, <1>16, <1>17, <1>18, <1>19, <1>20, <1>21, <1>22, <1>23, <1>24, <1>25, <1>26
  DEF Next, Step, Setup, Generate, Tools, Interact

\* The types hold in every state: no handler gives the state dict, AgentData or the
\* table another shape, and env.step never returns another reward than 0 or 1.
THEOREM TypeCorrect == Spec => []TypeOK
<1>1. Init => TypeOK
  BY RolloutAssumption DEF Init, TypeOK, EnvType, StateDict, AgentTurns, StepResult, Phases
<1>. QED
  BY <1>1, TypeStep, PTL DEF Spec

-----------------------------------------------------------------------------
(* The interaction's table and the context variables                       *)

\* A rollout is in _instance_dict exactly while it is between start and
\* finalize, and all that time its context points to its own environment.
LinkInv ==
  /\ EntryLifecycle
  /\ \A r \in Rollouts : phase[r] \in Live => ctx[r] = r

\* Every step keeps the entries and the contexts linked.
LEMMA LinkStep == TypeOK /\ LinkInv /\ [Next]_vars => LinkInv'
<1>. SUFFICES ASSUME TypeOK, LinkInv, [Next]_vars PROVE LinkInv'
  OBVIOUS
<1>. USE DEF vars, LinkInv, EntryLifecycle, Live, TypeOK, Phases
<1>1. ASSUME NEW r \in Rollouts, Launch(r) PROVE LinkInv'
  BY <1>1 DEF Launch
<1>2. ASSUME NEW r \in Rollouts, ResetReturns(r) PROVE LinkInv'
  BY <1>2 DEF ResetReturns, Register, SetContext
<1>3. ASSUME NEW r \in Rollouts, ResetThenReplay(r) PROVE LinkInv'
  BY <1>3 DEF ResetThenReplay
<1>4. ASSUME NEW r \in Rollouts, ReplayContinues(r) PROVE LinkInv'
  BY <1>4 DEF ReplayContinues
<1>5. ASSUME NEW r \in Rollouts, ReplayEndsEpisode(r) PROVE LinkInv'
  BY <1>5 DEF ReplayEndsEpisode
<1>6. ASSUME NEW r \in Rollouts, ReplaySkips(r) PROVE LinkInv'
  BY <1>6 DEF ReplaySkips
<1>7. ASSUME NEW r \in Rollouts, ReplayReturns(r) PROVE LinkInv'
  BY <1>7 DEF ReplayReturns, Register, SetContext
<1>8. ASSUME NEW r \in Rollouts, SetupFails(r) PROVE LinkInv'
  BY <1>8 DEF SetupFails
<1>9. ASSUME NEW r \in Rollouts, BuildPrompt(r) PROVE LinkInv'
  BY <1>9 DEF BuildPrompt
<1>10. ASSUME NEW r \in Rollouts, GenerateStops(r) PROVE LinkInv'
  BY <1>10 DEF GenerateStops
<1>11. ASSUME NEW r \in Rollouts, GenerateCalls(r) PROVE LinkInv'
  BY <1>11 DEF GenerateCalls
<1>12. ASSUME NEW r \in Rollouts, GenerateReply(r) PROVE LinkInv'
  BY <1>12 DEF GenerateReply
<1>13. ASSUME NEW r \in Rollouts, LoopFails(r) PROVE LinkInv'
  BY <1>13 DEF LoopFails, Finalize
<1>14. ASSUME NEW r \in Rollouts, CallRejected(r) PROVE LinkInv'
  BY <1>14 DEF CallRejected, NextCall
<1>15. ASSUME NEW r \in Rollouts, CallBadArguments(r) PROVE LinkInv'
  BY <1>15 DEF CallBadArguments, NextCall
<1>16. ASSUME NEW r \in Rollouts, CallRaises(r) PROVE LinkInv'
  BY <1>16 DEF CallRaises, NextCall
<1>17. ASSUME NEW r \in Rollouts, CallTool(r) PROVE LinkInv'
  BY <1>17 DEF CallTool, NextCall
<1>18. ASSUME NEW r \in Rollouts, CallTransfer(r) PROVE LinkInv'
  BY <1>18 DEF CallTransfer, NextCall
<1>19. ASSUME NEW r \in Rollouts, ToolsReturn(r) PROVE LinkInv'
  BY <1>19 DEF ToolsReturn
<1>20. ASSUME NEW r \in Rollouts, Respond(r) PROVE LinkInv'
  BY <1>20 DEF Respond, SetContext
<1>21. ASSUME NEW r \in Rollouts, UserReplies(r) PROVE LinkInv'
  BY <1>21 DEF UserReplies
<1>22. ASSUME NEW r \in Rollouts, UserStops(r) PROVE LinkInv'
  BY <1>22 DEF UserStops
<1>23. ASSUME NEW r \in Rollouts, UserFails(r) PROVE LinkInv'
  BY <1>23 DEF UserFails
<1>24. ASSUME NEW r \in Rollouts, TurnReturns(r) PROVE LinkInv'
  BY <1>24 DEF TurnReturns, LastTurn
<1>25. ASSUME NEW r \in Rollouts, Close(r) PROVE LinkInv'
  BY <1>25 DEF Close, Finalize
<1>26. CASE UNCHANGED vars
  BY <1>26
<1>. QED
  BY <1>1, <1>2, <1>3, <1>4, <1>5, <1>6, <1>7, <1>8, <1>9, <1>10, <1>11, <1>12, <1>13,
     <1>14, <1>15, <1>16, <1>17, <1>18, <1>19, <1>20, <1>21, <1>22, <1>23, <1>24, <1>25, <1>26
  DEF Next, Step, Setup, Generate, Tools, Interact

\* They are linked in every state.
LEMMA LinkInvariant == Spec => []LinkInv
<1>1. Init => LinkInv
  BY DEF Init, LinkInv, EntryLifecycle, Live
<1>. QED
  BY <1>1, LinkStep, TypeCorrect, PTL DEF Spec

\* No entry is lost while its rollout runs, none is left behind when it ends by
\* an output or an exception.
THEOREM EntriesCorrect == Spec => []EntryLifecycle
<1>1. LinkInv => EntryLifecycle
  BY DEF LinkInv
<1>. QED
  BY <1>1, LinkInvariant, PTL

-----------------------------------------------------------------------------
(* Steps of different rollouts do not touch each other                     *)

SameAt(q) ==
  /\ phase'[q] = phase[q] /\ task'[q] = task[q] /\ env'[q] = env[q]
  /\ state'[q] = state[q] /\ calls'[q] = calls[q] /\ reply'[q] = reply[q]
  /\ score'[q] = score[q] /\ policyDb'[q] = policyDb[q]

\* Only the tool adapters reach the environment through the context; there the
\* context is the rollout's own.
LEMMA OthersStay ==
  ASSUME TypeOK, LinkInv, NEW r \in Rollouts, Step(r), NEW q \in Rollouts \ {r}
  PROVE  SameAt(q)
<1>. USE DEF SameAt, TypeOK
<1>. phase[r] = "tools" => ctx[r] = r
  BY DEF LinkInv, Live
<1>1. CASE Launch(r)
  BY <1>1 DEF Launch
<1>2. CASE ResetReturns(r)
  BY <1>2 DEF ResetReturns, Register
<1>3. CASE ResetThenReplay(r)
  BY <1>3 DEF ResetThenReplay
<1>4. CASE ReplayContinues(r)
  BY <1>4 DEF ReplayContinues
<1>5. CASE ReplayEndsEpisode(r)
  BY <1>5 DEF ReplayEndsEpisode
<1>6. CASE ReplaySkips(r)
  BY <1>6 DEF ReplaySkips
<1>7. CASE ReplayReturns(r)
  BY <1>7 DEF ReplayReturns, Register
<1>8. CASE SetupFails(r)
  BY <1>8 DEF SetupFails
<1>9. CASE BuildPrompt(r)
  BY <1>9 DEF BuildPrompt
<1>10. CASE GenerateStops(r)
  BY <1>10 DEF GenerateStops
<1>11. CASE GenerateCalls(r)
  BY <1>11 DEF GenerateCalls
<1>12. CASE GenerateReply(r)
  BY <1>12 DEF GenerateReply
<1>13. CASE LoopFails(r)
  BY <1>13 DEF LoopFails, Finalize
<1>14. CASE CallRejected(r)
  BY <1>14 DEF CallRejected, NextCall
<1>15. CASE CallBadArguments(r)
  BY <1>15 DEF CallBadArguments, NextCall
<1>16. CASE CallRaises(r)
  BY <1>16 DEF CallRaises, NextCall
<1>17. CASE CallTool(r)
  BY <1>17 DEF CallTool, NextCall
<1>18. CASE CallTransfer(r)
  BY <1>18 DEF CallTransfer, NextCall
<1>19. CASE ToolsReturn(r)
  BY <1>19 DEF ToolsReturn
<1>20. CASE Respond(r)
  BY <1>20 DEF Respond
<1>21. CASE UserReplies(r)
  BY <1>21 DEF UserReplies
<1>22. CASE UserStops(r)
  BY <1>22 DEF UserStops
<1>23. CASE UserFails(r)
  BY <1>23 DEF UserFails
<1>24. CASE TurnReturns(r)
  BY <1>24 DEF TurnReturns, LastTurn
<1>25. CASE Close(r)
  BY <1>25 DEF Close, Finalize
<1>. QED
  BY <1>1, <1>2, <1>3, <1>4, <1>5, <1>6, <1>7, <1>8, <1>9, <1>10, <1>11, <1>12, <1>13,
     <1>14, <1>15, <1>16, <1>17, <1>18, <1>19, <1>20, <1>21, <1>22, <1>23, <1>24, <1>25
  DEF Step, Setup, Generate, Tools, Interact

\* A step of one rollout leaves the environment and state dict of every other
\* rollout alone.
THEOREM EffectsStay == Spec => EffectsStayHome
<1>1. TypeOK /\ LinkInv /\ [Next]_vars
      => [\A r \in Rollouts :
            env'[r] # env[r] \/ state'[r] # state[r] =>
              \A q \in Rollouts \ {r} : phase'[q] = phase[q] /\ calls'[q] = calls[q]]_vars
  <2>. SUFFICES ASSUME TypeOK, LinkInv, NEW s \in Rollouts, Step(s),
                       NEW r \in Rollouts, env'[r] # env[r] \/ state'[r] # state[r],
                       NEW q \in Rollouts \ {r}
                PROVE  phase'[q] = phase[q] /\ calls'[q] = calls[q]
    BY DEF Next
  <2>1. r = s
    BY OthersStay DEF SameAt
  <2>. QED
    BY <2>1, OthersStay DEF SameAt
<1>. QED
  BY <1>1, TypeCorrect, LinkInvariant, PTL DEF Spec, EffectsStayHome

-----------------------------------------------------------------------------
(* The grading stays out of the policy's sight                             *)

\* Where a rollout's policy may still act, or its user has not stopped, the
\* environment holds only what the policy did.
Clean(r) == env[r].db = policyDb[r] /\ "oracle" \notin env[r].acts

CleanAt(r) ==
  /\ phase[r] # "replaying"
  /\ phase[r] \notin {"replied", "closing", "closed", "failed"} => Clean(r)
  /\ phase[r] = "replied" /\ ~reply[r].done => Clean(r)

CleanInv == \A r \in Rollouts : CleanAt(r)

\* The rollout that moves stays clean.
LEMMA CleanHere ==
  ASSUME TypeOK, LinkInv, CleanInv, ReplayLimit = 0, NEW r \in Rollouts, Step(r)
  PROVE  CleanAt(r)'
<1>. CleanAt(r) /\ (phase[r] = "tools" => ctx[r] = r)
  BY DEF LinkInv, Live, CleanInv
<1>. USE DEF CleanAt, Clean, TypeOK
<1>1. CASE Launch(r)
  BY <1>1 DEF Launch
<1>2. CASE ResetReturns(r)
  BY <1>2 DEF ResetReturns, Register
<1>3. CASE ResetThenReplay(r)
  BY <1>3 DEF ResetThenReplay
<1>4. CASE ReplayContinues(r)
  BY <1>4 DEF ReplayContinues
<1>5. CASE ReplayEndsEpisode(r)
  BY <1>5 DEF ReplayEndsEpisode
<1>6. CASE ReplaySkips(r)
  BY <1>6 DEF ReplaySkips
<1>7. CASE ReplayReturns(r)
  BY <1>7 DEF ReplayReturns, Register
<1>8. CASE SetupFails(r)
  BY <1>8 DEF SetupFails
<1>9. CASE BuildPrompt(r)
  BY <1>9 DEF BuildPrompt
<1>10. CASE GenerateStops(r)
  BY <1>10 DEF GenerateStops
<1>11. CASE GenerateCalls(r)
  BY <1>11 DEF GenerateCalls
<1>12. CASE GenerateReply(r)
  BY <1>12 DEF GenerateReply
<1>13. CASE LoopFails(r)
  BY <1>13 DEF LoopFails, Finalize
<1>14. CASE CallRejected(r)
  BY <1>14 DEF CallRejected, NextCall
<1>15. CASE CallBadArguments(r)
  BY <1>15 DEF CallBadArguments, NextCall
<1>16. CASE CallRaises(r)
  BY <1>16 DEF CallRaises, NextCall
<1>17. CASE CallTool(r)
  BY <1>17 DEF CallTool, NextCall
<1>18. CASE CallTransfer(r)
  BY <1>18 DEF CallTransfer, NextCall, TransferKeepingData, Graded, EnvType
<1>19. CASE ToolsReturn(r)
  BY <1>19 DEF ToolsReturn
<1>20. CASE Respond(r)
  BY <1>20 DEF Respond
<1>21. CASE UserReplies(r)
  BY <1>21 DEF UserReplies
<1>22. CASE UserStops(r)
  BY <1>22 DEF UserStops
<1>23. CASE UserFails(r)
  BY <1>23 DEF UserFails
<1>24. CASE TurnReturns(r)
  BY <1>24 DEF TurnReturns, LastTurn
<1>25. CASE Close(r)
  BY <1>25 DEF Close, Finalize
<1>. QED
  BY <1>1, <1>2, <1>3, <1>4, <1>5, <1>6, <1>7, <1>8, <1>9, <1>10, <1>11, <1>12, <1>13,
     <1>14, <1>15, <1>16, <1>17, <1>18, <1>19, <1>20, <1>21, <1>22, <1>23, <1>24, <1>25
  DEF Step, Setup, Generate, Tools, Interact

\* Every step keeps all of them clean.
LEMMA CleanStep ==
  ReplayLimit = 0 /\ TypeOK /\ LinkInv /\ CleanInv /\ [Next]_vars => CleanInv'
<1>. SUFFICES ASSUME ReplayLimit = 0, TypeOK, LinkInv, CleanInv, [Next]_vars,
                     NEW q \in Rollouts
              PROVE  CleanAt(q)'
  BY DEF CleanInv
<1>1. ASSUME NEW r \in Rollouts, Step(r) PROVE CleanAt(q)'
  <2>1. CASE q = r
    BY <1>1, <2>1, CleanHere
  <2>2. CASE q # r
    BY <1>1, <2>2, OthersStay DEF SameAt, CleanInv, CleanAt, Clean
  <2>. QED
    BY <2>1, <2>2
<1>2. CASE UNCHANGED vars
  BY <1>2 DEF vars, CleanInv, CleanAt, Clean
<1>. QED
  BY <1>1, <1>2 DEF Next

\* Without replay they are clean in every state.
LEMMA CleanInvariant == ReplayLimit = 0 => (Spec => []CleanInv)
<1>. SUFFICES ASSUME ReplayLimit = 0 PROVE Spec => []CleanInv
  OBVIOUS
<1>1. Init => CleanInv
  BY DEF Init, CleanInv, CleanAt, Clean
<1>2. TypeOK /\ LinkInv /\ CleanInv /\ [Next]_vars => CleanInv'
  BY CleanStep
<1>. QED
  BY <1>1, <1>2, TypeCorrect, LinkInvariant, PTL DEF Spec

\* Without a replay, and however many calls a message may hold, the policy never
\* acts on a database or an action list the grading has touched.
THEOREM OracleStaysOut == ReplayLimit = 0 => (Spec => []OracleIsolation)
<1>. SUFFICES ASSUME ReplayLimit = 0 PROVE Spec => []OracleIsolation
  OBVIOUS
<1>1. CleanInv => OracleIsolation
  BY DEF CleanInv, CleanAt, Clean, OracleIsolation
<1>. QED
  BY <1>1, CleanInvariant, PTL

-----------------------------------------------------------------------------
(* The score is the outcome of the rollout's own episode                   *)

Outcome(r) == IF EpisodeOver(env[r]) THEN Verdict(task[r], policyDb[r], env[r].acts) ELSE 0

\* Where an episode may be over, and who then holds its reward: the state dict
\* after a transfer, the thread's result after ###STOP###, the score at the end.
Booked(r) ==
  /\ calls[r] <= 1
  /\ ~EpisodeOver(env[r]) => state[r].reward = 0
  /\ phase[r] \in {"new", "resetting", "pending", "generating", "interacting", "stepping"}
       => ~EpisodeOver(env[r])
  /\ phase[r] = "tools" /\ EpisodeOver(env[r]) => calls[r] = 0 /\ state[r].done
  /\ phase[r] \in {"tools", "closing"} => state[r].reward = Outcome(r)
  /\ phase[r] = "replied" =>
       /\ state[r].reward = 0
       /\ reply[r].reward = Outcome(r)
       /\ reply[r].done <=> EpisodeOver(env[r])
  /\ phase[r] = "closed" => score[r] = Outcome(r)
  /\ phase[r] # "closed" => score[r] = 0

BookedInv == \A r \in Rollouts : Booked(r)

\* The shipped configuration: one call per message, no replay.
Shipped == MaxParallelCalls = 1 /\ ReplayLimit = 0

\* The rollout that moves keeps its reward booked.
LEMMA BookedHere ==
  ASSUME TypeOK, LinkInv, CleanInv, BookedInv, Shipped, NEW r \in Rollouts, Step(r)
  PROVE  Booked(r)'
<1>. /\ Booked(r) /\ CleanAt(r)
     /\ phase[r] = "tools" => ctx[r] = r
     /\ phase[r] \in Live => r \in instances
  BY DEF LinkInv, EntryLifecycle, Live, CleanInv, BookedInv
<1>. USE DEF Booked, CleanAt, Clean, Outcome, EpisodeOver, Verdict, TypeOK, EnvType, Shipped
<1>1. CASE Launch(r)
  BY <1>1 DEF Launch
<1>2. CASE ResetReturns(r)
  BY <1>2 DEF ResetReturns, Register
<1>3. CASE ResetThenReplay(r)
  BY <1>3 DEF ResetThenReplay
<1>4. CASE ReplayContinues(r)
  BY <1>4 DEF ReplayContinues
<1>5. CASE ReplayEndsEpisode(r)
  BY <1>5 DEF ReplayEndsEpisode
<1>6. CASE ReplaySkips(r)
  BY <1>6 DEF ReplaySkips
<1>7. CASE ReplayReturns(r)
  BY <1>7 DEF ReplayReturns, Register
<1>8. CASE SetupFails(r)
  BY <1>8 DEF SetupFails
<1>9. CASE BuildPrompt(r)
  BY <1>9 DEF BuildPrompt
<1>10. CASE GenerateStops(r)
  BY <1>10 DEF GenerateStops
<1>11. CASE GenerateCalls(r)
  BY <1>11 DEF GenerateCalls
<1>12. CASE GenerateReply(r)
  BY <1>12 DEF GenerateReply
<1>13. CASE LoopFails(r)
  BY <1>13 DEF LoopFails, Finalize
<1>14. CASE CallRejected(r)
  BY <1>14 DEF CallRejected, NextCall
<1>15. CASE CallBadArguments(r)
  BY <1>15 DEF CallBadArguments, NextCall
<1>16. CASE CallRaises(r)
  BY <1>16 DEF CallRaises, NextCall
<1>17. CASE CallTool(r)
  BY <1>17 DEF CallTool, NextCall
<1>18. CASE CallTransfer(r)
  <2>1. /\ phase[r] = "tools" /\ calls[r] > 0 /\ ctx[r] = r
        /\ phase' = phase /\ task' = task /\ policyDb' = policyDb /\ score' = score
        /\ calls'[r] = calls[r] - 1
    BY <1>18 DEF CallTransfer, NextCall
  <2>2. env'[r].db = env[r].db /\ env'[r].acts = env[r].acts \cup {"transfer"}
    BY <1>18, <2>1 DEF CallTransfer, TransferKeepingData, Graded
  <2>3. state[r].reward = 0
    BY <2>1
  <2>4. /\ state'[r].reward = Verdict(task[r], env[r].db, env[r].acts)
        /\ state'[r].done
    <3>1. state'[r] = EndedWith(state[r], Verdict(task[r], env[r].db, env[r].acts))
      BY <1>18, <2>1 DEF CallTransfer
    <3>. QED
      BY <3>1, <2>3 DEF EndedWith
  <2>5. EpisodeOver(env'[r])
    BY <2>2
  <2>6. Outcome(r)' = Verdict(task[r], env[r].db, env[r].acts)
    BY <2>1, <2>2, <2>5
  <2>. QED
    BY <2>1, <2>4, <2>5, <2>6
<1>19. CASE ToolsReturn(r)
  BY <1>19 DEF ToolsReturn, IsDone, EntryLifecycle, Live
<1>20. CASE Respond(r)
  BY <1>20 DEF Respond
<1>21. CASE UserReplies(r)
  BY <1>21 DEF UserReplies
<1>22. CASE UserStops(r)
  BY <1>22 DEF UserStops, StepEnds, Graded
<1>23. CASE UserFails(r)
  BY <1>23 DEF UserFails, StateDict
<1>24. CASE TurnReturns(r)
  BY <1>24 DEF TurnReturns, LastTurn, StepResult, StateDict
<1>25. CASE Close(r)
  BY <1>25 DEF Close, Finalize, EntryLifecycle, Live
<1>. QED
  BY <1>1, <1>2, <1>3, <1>4, <1>5, <1>6, <1>7, <1>8, <1>9, <1>10, <1>11, <1>12, <1>13,
     <1>14, <1>15, <1>16, <1>17, <1>18, <1>19, <1>20, <1>21, <1>22, <1>23, <1>24, <1>25
  DEF Step, Setup, Generate, Tools, Interact

\* Every step keeps all rewards booked.
LEMMA BookedStep ==
  Shipped /\ TypeOK /\ LinkInv /\ CleanInv /\ BookedInv /\ [Next]_vars => BookedInv'
<1>. SUFFICES ASSUME Shipped, TypeOK, LinkInv, CleanInv, BookedInv, [Next]_vars,
                     NEW q \in Rollouts
              PROVE  Booked(q)'
  BY DEF BookedInv
<1>1. ASSUME NEW r \in Rollouts, Step(r) PROVE Booked(q)'
  <2>1. CASE q = r
    BY <1>1, <2>1, BookedHere
  <2>2. CASE q # r
    BY <1>1, <2>2, OthersStay DEF SameAt, BookedInv, Booked, Outcome
  <2>. QED
    BY <2>1, <2>2
<1>2. CASE UNCHANGED vars
  BY <1>2 DEF vars, BookedInv, Booked, Outcome
<1>. QED
  BY <1>1, <1>2 DEF Next

\* Under the shipped settings they are booked in every state.
LEMMA BookedInvariant == Shipped => (Spec => []BookedInv)
<1>. SUFFICES ASSUME Shipped PROVE Spec => []BookedInv
  OBVIOUS
<1>1. Init => BookedInv
  BY DEF Init, BookedInv, Booked, Outcome, EpisodeOver
<1>2. TypeOK /\ LinkInv /\ CleanInv /\ BookedInv /\ [Next]_vars => BookedInv'
  BY BookedStep
<1>3. Spec => []CleanInv
  BY CleanInvariant DEF Shipped
<1>. QED
  BY <1>1, <1>2, <1>3, TypeCorrect, LinkInvariant, PTL DEF Spec

\* In the shipped configuration a finished rollout is paid the outcome of its own
\* episode, and nothing when the episode was cut.
THEOREM ScoreCorrect == Shipped => (Spec => []ScoreIsOutcome)
<1>. SUFFICES ASSUME Shipped PROVE Spec => []ScoreIsOutcome
  OBVIOUS
<1>1. BookedInv => ScoreIsOutcome
  BY DEF BookedInv, Booked, Outcome, ScoreIsOutcome
<1>. QED
  BY <1>1, BookedInvariant, PTL

-----------------------------------------------------------------------------
(* No rollout is paid without bound                                        *)

\* A replay pays once.
ReplayPays == IF ReplayLimit > 0 THEN 1 ELSE 0

\* What may have been paid at each place: nothing while the episode goes on, and once
\* per call of the message at hand after that.
PaidAt(r) ==
  /\ ~state[r].done => state[r].reward = 0
  /\ phase[r] = "replaying" => ReplayLimit > 0
  /\ phase[r] \in {"new", "resetting", "replaying", "pending", "generating", "interacting",
                   "stepping", "replied"} => state[r].reward <= ReplayPays
  /\ phase[r] = "tools" => state[r].reward + calls[r] <= ReplayPays + MaxParallelCalls
  /\ phase[r] = "replied" /\ ~reply[r].done => reply[r].reward = 0
  /\ state[r].reward <= ReplayPays + MaxParallelCalls

PaidInv == \A r \in Rollouts : PaidAt(r)

\* A turn that ended the episode pays 0 or 1.
LEMMA PaysOnce ==
  ASSUME NEW s \in StateDict, NEW t, NEW db, NEW acts
  PROVE  /\ EndedWith(s, Verdict(t, db, acts)).done
         /\ EndedWith(s, Verdict(t, db, acts)).reward \in {s.reward, s.reward + 1}
<1>1. Verdict(t, db, acts) \in {0, 1}
  BY DEF Verdict
<1>2. s.reward \in Nat
  BY DEF StateDict
<1>. QED
  BY <1>1, <1>2 DEF EndedWith

\* The rollout that moves is paid no more than that.
LEMMA PaidHere ==
  ASSUME TypeOK, LinkInv, PaidInv, NEW r \in Rollouts, Step(r)
  PROVE  PaidAt(r)'
<1>. /\ PaidAt(r)
     /\ phase[r] = "tools" => ctx[r] = r
     /\ phase[r] \in Live => r \in instances
     /\ state[r] \in StateDict /\ state[r].reward \in Nat
     /\ ReplayPays \in {0, 1} /\ (ReplayLimit > 0 => ReplayPays = 1)
     /\ MaxParallelCalls \in Nat \ {0} /\ ReplayLimit \in Nat
     /\ calls[r] \in Nat
  BY RolloutAssumption DEF LinkInv, EntryLifecycle, Live, PaidInv, TypeOK, StateDict, ReplayPays
<1>. USE DEF PaidAt, TypeOK
<1>1. CASE Launch(r)
  BY <1>1 DEF Launch
<1>2. CASE ResetReturns(r)
  BY <1>2 DEF ResetReturns, Register
<1>3. CASE ResetThenReplay(r)
  BY <1>3 DEF ResetThenReplay
<1>4. CASE ReplayContinues(r)
  BY <1>4 DEF ReplayContinues
<1>5. CASE ReplayEndsEpisode(r)
  <2>1. phase' = phase /\ reply' = reply /\ phase[r] = "replaying" /\ ~state[r].done
    BY <1>5 DEF ReplayEndsEpisode
  <2>2. state'[r].done /\ state'[r].reward \in {0, 1}
    BY <1>5, <2>1, PaysOnce DEF ReplayEndsEpisode
  <2>. QED
    BY <2>1, <2>2
<1>6. CASE ReplaySkips(r)
  BY <1>6 DEF ReplaySkips
<1>7. CASE ReplayReturns(r)
  BY <1>7 DEF ReplayReturns, Register
<1>8. CASE SetupFails(r)
  BY <1>8 DEF SetupFails
<1>9. CASE BuildPrompt(r)
  BY <1>9 DEF BuildPrompt
<1>10. CASE GenerateStops(r)
  BY <1>10 DEF GenerateStops
<1>11. CASE GenerateCalls(r)
  BY <1>11 DEF GenerateCalls
<1>12. CASE GenerateReply(r)
  BY <1>12 DEF GenerateReply
<1>13. CASE LoopFails(r)
  BY <1>13 DEF LoopFails, Finalize
<1>14. CASE CallRejected(r)
  BY <1>14 DEF CallRejected, NextCall
<1>15. CASE CallBadArguments(r)
  BY <1>15 DEF CallBadArguments, NextCall
<1>16. CASE CallRaises(r)
  BY <1>16 DEF CallRaises, NextCall
<1>17. CASE CallTool(r)
  BY <1>17 DEF CallTool, NextCall
<1>18. CASE CallTransfer(r)
  <2>1. /\ phase' = phase /\ reply' = reply /\ phase[r] = "tools" /\ ctx[r] = r
        /\ calls[r] > 0 /\ calls'[r] = calls[r] - 1
    BY <1>18 DEF CallTransfer, NextCall
  <2>2. state'[r].done /\ state'[r].reward \in {state[r].reward, state[r].reward + 1}
    BY <1>18, <2>1, PaysOnce DEF CallTransfer
  <2>. QED
    BY <2>1, <2>2
<1>19. CASE ToolsReturn(r)
  BY <1>19 DEF ToolsReturn, IsDone, Live
<1>20. CASE Respond(r)
  BY <1>20 DEF Respond
<1>21. CASE UserReplies(r)
  BY <1>21 DEF UserReplies
<1>22. CASE UserStops(r)
  BY <1>22 DEF UserStops
<1>23. CASE UserFails(r)
  BY <1>23 DEF UserFails
<1>24. CASE TurnReturns(r)
  <2>. DEFINE over == LastTurn(r, CountTurn(state[r].turns))
  <2>1. /\ phase[r] = "replied" /\ phase'[r] = (IF over THEN "closing" ELSE "generating")
        /\ state'[r].reward = state[r].reward + reply[r].reward
        /\ state'[r].done = (state[r].done \/ over)
    BY <1>24 DEF TurnReturns
  <2>2. reply[r].reward \in {0, 1} /\ state[r].done \in BOOLEAN /\ reply[r].done \in BOOLEAN
    BY DEF StepResult, StateDict
  <2>3. reply[r].done \/ state[r].done => over
    BY DEF LastTurn
  <2>. HIDE DEF over
  <2>. QED
    BY <2>1, <2>2, <2>3
<1>25. CASE Close(r)
  BY <1>25 DEF Close
<1>. QED
  BY <1>1, <1>2, <1>3, <1>4, <1>5, <1>6, <1>7, <1>8, <1>9, <1>10, <1>11, <1>12, <1>13,
     <1>14, <1>15, <1>16, <1>17, <1>18, <1>19, <1>20, <1>21, <1>22, <1>23, <1>24, <1>25
  DEF Step, Setup, Generate, Tools, Interact

\* However many calls a message may hold, and whatever was replayed before the policy
\* began, a rollout is paid at most once per call of its last message and once for the
\* replay; for every number of rollouts and every setting.
THEOREM RewardBounded == Spec => []RewardBound
<1>1. Init => PaidInv
  BY RolloutAssumption DEF Init, PaidInv, PaidAt, ReplayPays
<1>2. TypeOK /\ LinkInv /\ PaidInv /\ [Next]_vars => PaidInv'
  <2>. SUFFICES ASSUME TypeOK, LinkInv, PaidInv, [Next]_vars, NEW q \in Rollouts
                PROVE  PaidAt(q)'
    BY DEF PaidInv
  <2>1. ASSUME NEW r \in Rollouts, Step(r) PROVE PaidAt(q)'
    <3>1. CASE q = r
      BY <2>1, <3>1, PaidHere
    <3>2. CASE q # r
      BY <2>1, <3>2, OthersStay DEF SameAt, PaidInv, PaidAt
    <3>. QED
      BY <3>1, <3>2
  <2>2. CASE UNCHANGED vars
    BY <2>2 DEF vars, PaidInv, PaidAt
  <2>. QED
    BY <2>1, <2>2 DEF Next
<1>3. TypeOK /\ PaidInv => RewardBound
  BY RolloutAssumption DEF PaidInv, PaidAt, ReplayPays, RewardBound, TypeOK, StateDict
<1>. QED
  BY <1>1, <1>2, <1>3, TypeCorrect, LinkInvariant, PTL DEF Spec

-----------------------------------------------------------------------------
(* RolloutSession implements Episode                                       *)

Said == [r \in Rollouts |-> "answer" \in env[r].acts]
Status == [r \in Rollouts |-> StatusOf(r)]

\* What a step of r looks like to the abstract episodes.
EpisodeStep(r) ==
  \/ Abstract!Begin(r) \/ Abstract!Play(r) \/ Abstract!End(r)
  \/ Abstract!Judge(r) \/ Abstract!Cut(r) \/ Abstract!Abort(r)
  \/ UNCHANGED <<Status, task, policyDb, Said, score>>

\* Adding actions to one environment can only turn its answer from missing to given.
LEMMA SaidGrows ==
  ASSUME TypeOK, NEW r \in Rollouts, NEW more \in SUBSET ActKinds,
         \A q \in Rollouts \ {r} : env'[q] = env[q],
         env'[r].acts = env[r].acts \cup more
  PROVE  Said' \in {Said, [Said EXCEPT ![r] = TRUE]}
<1>1. CASE "answer" \in more
  <2>1. \A q \in Rollouts : Said'[q] = [Said EXCEPT ![r] = TRUE][q]
    BY <1>1 DEF Said
  <2>. QED
    BY <2>1 DEF Said
<1>2. CASE "answer" \notin more
  <2>1. \A q \in Rollouts : Said'[q] = Said[q]
    BY <1>2 DEF Said
  <2>. QED
    BY <2>1 DEF Said
<1>. QED
  BY <1>1, <1>2

\* A step of a rollout is a step of its episode, or none.
LEMMA EpisodeHere ==
  ASSUME TypeOK, LinkInv, CleanInv, BookedInv, Shipped, NEW r \in Rollouts, Step(r)
  PROVE  EpisodeStep(r)
<1>. /\ Booked(r) /\ CleanAt(r)
     /\ phase[r] = "tools" => ctx[r] = r
     /\ phase[r] \in Live => r \in instances
  BY DEF LinkInv, EntryLifecycle, Live, CleanInv, BookedInv
<1>. \A q \in Rollouts \ {r} : Status'[q] = Status[q] /\ Said'[q] = Said[q]
  BY OthersStay DEF SameAt, Status, StatusOf, Said
<1>. USE DEF TypeOK, EpisodeStep
<1>1. CASE Launch(r)
  <2>1. Status' = [Status EXCEPT ![r] = "playing"]
    BY <1>1 DEF Launch, Status, StatusOf, EpisodeOver, EnvType, Booked
  <2>2. Said' = Said
    BY <1>1 DEF Launch, Said, EnvType
  <2>3. Abstract!Begin(r)
    BY <1>1, <2>1, <2>2 DEF Launch, Abstract!Begin, Status, StatusOf, Said, Booked
  <2>. QED
    BY <2>3
<1>2. CASE ResetReturns(r)
  <2>1. Status'[r] = Status[r] /\ Said'[r] = Said[r]
    BY <1>2 DEF ResetReturns, Register, Status, StatusOf, Said, EpisodeOver, EnvType, Booked
  <2>2. Status' = Status /\ Said' = Said
    BY <2>1 DEF Status, Said
  <2>. QED
    BY <1>2, <2>2 DEF ResetReturns, Register
<1>3. CASE ResetThenReplay(r)
  BY <1>3 DEF ResetThenReplay, Shipped, CleanAt
<1>4. CASE ReplayContinues(r)
  BY <1>4 DEF ReplayContinues, Shipped, CleanAt
<1>5. CASE ReplayEndsEpisode(r)
  BY <1>5 DEF ReplayEndsEpisode, Shipped, CleanAt
<1>6. CASE ReplaySkips(r)
  BY <1>6 DEF ReplaySkips, Shipped, CleanAt
<1>7. CASE ReplayReturns(r)
  BY <1>7 DEF ReplayReturns, Register, Shipped, CleanAt
<1>8. CASE SetupFails(r)
  <2>1. Status' = [Status EXCEPT ![r] = "aborted"]
    BY <1>8 DEF SetupFails, Status, StatusOf, EpisodeOver, EnvType, Booked
  <2>2. Said' = Said
    BY <1>8 DEF SetupFails, Said, EnvType
  <2>3. Abstract!Abort(r)
    BY <1>8, <2>1, <2>2 DEF SetupFails, Abstract!Abort, Status, StatusOf, Said, Booked
  <2>. QED
    BY <2>3
<1>9. CASE BuildPrompt(r)
  <2>1. Status'[r] = Status[r] /\ Said'[r] = Said[r]
    BY <1>9 DEF BuildPrompt, Status, StatusOf, Said, EpisodeOver, EnvType, Booked
  <2>2. Status' = Status /\ Said' = Said
    BY <2>1 DEF Status, Said
  <2>. QED
    BY <1>9, <2>2 DEF BuildPrompt
<1>10. CASE GenerateStops(r)
  <2>1. Status'[r] = Status[r] /\ Said'[r] = Said[r]
    BY <1>10 DEF GenerateStops, Status, StatusOf, Said, EpisodeOver, EnvType, Booked
  <2>2. Status' = Status /\ Said' = Said
    BY <2>1 DEF Status, Said
  <2>. QED
    BY <1>10, <2>2 DEF GenerateStops
<1>11. CASE GenerateCalls(r)
  <2>1. Status'[r] = Status[r] /\ Said'[r] = Said[r]
    BY <1>11 DEF GenerateCalls, Status, StatusOf, Said, EpisodeOver, EnvType, Booked
  <2>2. Status' = Status /\ Said' = Said
    BY <2>1 DEF Status, Said
  <2>. QED
    BY <1>11, <2>2 DEF GenerateCalls
<1>12. CASE GenerateReply(r)
  <2>1. Status'[r] = Status[r] /\ Said'[r] = Said[r]
    BY <1>12 DEF GenerateReply, Status, StatusOf, Said, EpisodeOver, EnvType, Booked
  <2>2. Status' = Status /\ Said' = Said
    BY <2>1 DEF Status, Said
  <2>. QED
    BY <1>12, <2>2 DEF GenerateReply
<1>13. CASE LoopFails(r)
  <2>1. Status' = [Status EXCEPT ![r] = "aborted"]
    BY <1>13 DEF LoopFails, Finalize, Status, StatusOf, EpisodeOver, EnvType, Booked
  <2>2. Said' = Said
    BY <1>13 DEF LoopFails, Finalize, Said, EnvType
  <2>3. Abstract!Abort(r)
    BY <1>13, <2>1, <2>2 DEF LoopFails, Finalize, Abstract!Abort, Status, StatusOf, Said, Booked
  <2>. QED
    BY <2>3
<1>14. CASE CallRejected(r)
  <2>1. Status'[r] = Status[r] /\ Said'[r] = Said[r]
    BY <1>14 DEF CallRejected, NextCall, Status, StatusOf, Said, EpisodeOver, EnvType, Booked
  <2>2. Status' = Status /\ Said' = Said
    BY <2>1 DEF Status, Said
  <2>. QED
    BY <1>14, <2>2 DEF CallRejected, NextCall
<1>15. CASE CallBadArguments(r)
  <2>1. Status'[r] = Status[r] /\ Said'[r] = Said[r]
    BY <1>15 DEF CallBadArguments, NextCall, Status, StatusOf, Said, EpisodeOver, EnvType, Booked
  <2>2. Status' = Status /\ Said' = Said
    BY <2>1 DEF Status, Said
  <2>. QED
    BY <1>15, <2>2 DEF CallBadArguments, NextCall
<1>16. CASE CallRaises(r)
  <2>1. Status'[r] = Status[r] /\ Said'[r] = Said[r]
    BY <1>16 DEF CallRaises, NextCall, Status, StatusOf, Said, EpisodeOver, EnvType, Booked
  <2>2. Status' = Status /\ Said' = Said
    BY <2>1 DEF Status, Said
  <2>. QED
    BY <1>16, <2>2 DEF CallRaises, NextCall
<1>17. CASE CallTool(r)
  <2>1. Status' = Status /\ Said' = Said
    <3>1. Status'[r] = Status[r] /\ Said'[r] = Said[r]
      BY <1>17 DEF CallTool, NextCall, Status, StatusOf, Said, EpisodeOver, EnvType
    <3>. QED
      BY <3>1 DEF Status, Said
  <2>2. \E w \in DBs : policyDb' = [policyDb EXCEPT ![r] = w]
    BY <1>17 DEF CallTool
  <2>3. Status[r] = "playing"
    BY <1>17 DEF CallTool, NextCall, Status, StatusOf, Booked
  <2>4. Abstract!Play(r)
    BY <1>17, <2>1, <2>2, <2>3 DEF CallTool, NextCall, Abstract!Play, Status, Said
  <2>. QED
    BY <2>4
<1>18. CASE CallTransfer(r)
  <2>1. Status' = [Status EXCEPT ![r] = "over"]
    BY <1>18 DEF CallTransfer, NextCall, TransferKeepingData, StepEnds, Graded, Status,
       StatusOf, EpisodeOver, EnvType, Booked
  <2>2. Said' \in {Said, [Said EXCEPT ![r] = TRUE]}
    BY <1>18 DEF CallTransfer, NextCall, TransferKeepingData, StepEnds, Graded, Said, EnvType
  <2>3. Abstract!End(r)
    BY <1>18, <2>1, <2>2 DEF CallTransfer, NextCall, Abstract!End, Status, StatusOf, Said, Booked
  <2>. QED
    BY <2>3
<1>19. CASE ToolsReturn(r)
  <2>1. Status'[r] = Status[r] /\ Said'[r] = Said[r]
    BY <1>19 DEF ToolsReturn, Status, StatusOf, Said, EpisodeOver, EnvType, Booked
  <2>2. Status' = Status /\ Said' = Said
    BY <2>1 DEF Status, Said
  <2>. QED
    BY <1>19, <2>2 DEF ToolsReturn
<1>20. CASE Respond(r)
  <2>1. Status'[r] = Status[r] /\ Said'[r] = Said[r]
    BY <1>20 DEF Respond, Status, StatusOf, Said, EpisodeOver, EnvType, Booked
  <2>2. Status' = Status /\ Said' = Said
    BY <2>1 DEF Status, Said
  <2>. QED
    BY <1>20, <2>2 DEF Respond
<1>21. CASE UserReplies(r)
  <2>1. PICK act \in {"reply", "answer"} : env' = [env EXCEPT ![r].acts = @ \cup {act}]
    BY <1>21 DEF UserReplies
  <2>2. Status' = Status
    <3>1. Status'[r] = Status[r]
      BY <1>21, <2>1 DEF UserReplies, Status, StatusOf, EpisodeOver, EnvType
    <3>. QED
      BY <3>1 DEF Status
  <2>3. Said' \in {Said, [Said EXCEPT ![r] = TRUE]}
    <3>1. env'[r].acts = env[r].acts \cup {act} /\ {act} \in SUBSET ActKinds
      BY <2>1 DEF ActKinds, EnvType
    <3>2. \A q \in Rollouts \ {r} : env'[q] = env[q]
      BY <2>1
    <3>. QED
      BY <3>1, <3>2, SaidGrows
  <2>4. \E w \in DBs : policyDb' = [policyDb EXCEPT ![r] = w]
    BY <1>21, policyDb' = [policyDb EXCEPT ![r] = policyDb[r]] DEF UserReplies
  <2>5. Status[r] = "playing"
    BY <1>21 DEF UserReplies, Status, StatusOf, Booked
  <2>6. Abstract!Play(r)
    BY <1>21, <2>2, <2>3, <2>4, <2>5 DEF UserReplies, Abstract!Play, Status, Said
  <2>. QED
    BY <2>6
<1>22. CASE UserStops(r)
  <2>1. PICK act \in {"reply", "answer"} : env' = [env EXCEPT ![r] = StepEnds(task[r], @, act)]
    BY <1>22 DEF UserStops
  <2>2. env'[r].acts = env[r].acts \cup {act, "oracle"}
    BY <2>1 DEF StepEnds, Graded, EnvType
  <2>3. Status' = [Status EXCEPT ![r] = "over"]
    <3>1. EpisodeOver(env'[r])
      BY <2>2 DEF EpisodeOver
    <3>2. Status'[r] = "over"
      BY <1>22, <3>1 DEF UserStops, Status, StatusOf
    <3>. QED
      BY <3>2 DEF Status
  <2>4. Said' \in {Said, [Said EXCEPT ![r] = TRUE]}
    <3>1. {act, "oracle"} \in SUBSET ActKinds
      BY DEF ActKinds
    <3>2. \A q \in Rollouts \ {r} : env'[q] = env[q]
      BY <2>1
    <3>. QED
      BY <2>2, <3>1, <3>2, SaidGrows
  <2>5. Status[r] = "playing"
    BY <1>22 DEF UserStops, Status, StatusOf, Booked
  <2>6. Abstract!End(r)
    BY <1>22, <2>3, <2>4, <2>5 DEF UserStops, Abstract!End, Status, Said
  <2>. QED
    BY <2>6
<1>23. CASE UserFails(r)
  <2>1. PICK act \in {"reply", "answer"} : env' = [env EXCEPT ![r].acts = @ \cup {act}]
    BY <1>23 DEF UserFails
  <2>2. Status' = Status
    <3>1. Status'[r] = Status[r]
      BY <1>23, <2>1 DEF UserFails, Status, StatusOf, EpisodeOver, EnvType
    <3>. QED
      BY <3>1 DEF Status
  <2>3. Said' \in {Said, [Said EXCEPT ![r] = TRUE]}
    <3>1. env'[r].acts = env[r].acts \cup {act} /\ {act} \in SUBSET ActKinds
      BY <2>1 DEF ActKinds, EnvType
    <3>2. \A q \in Rollouts \ {r} : env'[q] = env[q]
      BY <2>1
    <3>. QED
      BY <3>1, <3>2, SaidGrows
  <2>4. \E w \in DBs : policyDb' = [policyDb EXCEPT ![r] = w]
    BY <1>23, policyDb' = [policyDb EXCEPT ![r] = policyDb[r]] DEF UserFails
  <2>5. Status[r] = "playing"
    BY <1>23 DEF UserFails, Status, StatusOf, Booked
  <2>6. Abstract!Play(r)
    BY <1>23, <2>2, <2>3, <2>4, <2>5 DEF UserFails, Abstract!Play, Status, Said
  <2>. QED
    BY <2>6
<1>24. CASE TurnReturns(r)
  <2>1. Status'[r] = Status[r] /\ Said'[r] = Said[r]
    BY <1>24 DEF TurnReturns, LastTurn, Status, StatusOf, Said, EpisodeOver, EnvType, Booked
  <2>2. Status' = Status /\ Said' = Said
    BY <2>1 DEF Status, Said
  <2>. QED
    BY <1>24, <2>2 DEF TurnReturns, LastTurn
<1>25. CASE Close(r)
  <2>1. Said' = Said /\ Status' = [Status EXCEPT ![r] = "scored"]
    BY <1>25 DEF Close, Finalize, Status, StatusOf, Said
  <2>2. score' = [score EXCEPT ![r] = Outcome(r)] /\ score[r] = 0
    BY <1>25 DEF Close, Finalize, Booked, Live
  <2>3. CASE EpisodeOver(env[r])
    <3>1. Abstract!Judge(r)
      BY <1>25, <2>1, <2>2, <2>3 DEF Close, Finalize, Abstract!Judge, Abstract!Worth,
         Outcome, Verdict, Status, StatusOf, Said
    <3>. QED
      BY <3>1
  <2>4. CASE ~EpisodeOver(env[r])
    <3>1. score' = score
      BY <2>2, <2>4 DEF Outcome
    <3>2. Abstract!Cut(r)
      BY <1>25, <2>1, <2>4, <3>1 DEF Close, Finalize, Abstract!Cut, Status, StatusOf, Said
    <3>. QED
      BY <3>2
  <2>. QED
    BY <2>3, <2>4
<1>. QED
  BY <1>1, <1>2, <1>3, <1>4, <1>5, <1>6, <1>7, <1>8, <1>9, <1>10, <1>11, <1>12, <1>13,
     <1>14, <1>15, <1>16, <1>17, <1>18, <1>19, <1>20, <1>21, <1>22, <1>23, <1>24, <1>25
  DEF Step, Setup, Generate, Tools, Interact

\* The batch implements the abstract episodes: every step is one of theirs, seen
\* through Status, Said and the database the policy made, or changes nothing there.
THEOREM ImplementsEpisode == Shipped => (Spec => EpisodeSpec)
<1>. SUFFICES ASSUME Shipped PROVE Spec => EpisodeSpec
  OBVIOUS
<1>1. Init => Abstract!Init
  <2>. SUFFICES ASSUME Init PROVE Abstract!Init
    OBVIOUS
  <2>1. \A r \in Rollouts : ("answer" \in env[r].acts) = FALSE
    BY DEF Init
  <2>. QED
    BY <2>1 DEF Init, Abstract!Init, StatusOf
<1>2. TypeOK /\ LinkInv /\ CleanInv /\ BookedInv /\ [Next]_vars
      => [Abstract!Next]_(Abstract!vars)
  <2>. SUFFICES ASSUME TypeOK, LinkInv, CleanInv, BookedInv, [Next]_vars
                PROVE  [Abstract!Next]_(Abstract!vars)
    OBVIOUS
  <2>1. ASSUME NEW r \in Rollouts, Step(r) PROVE [Abstract!Next]_(Abstract!vars)
    <3>1. EpisodeStep(r)
      BY <2>1, EpisodeHere
    <3>. QED
      BY <3>1 DEF EpisodeStep, Abstract!Next, Abstract!vars, Status, Said
  <2>2. CASE UNCHANGED vars
    BY <2>2 DEF vars, Abstract!vars, StatusOf
  <2>. QED
    BY <2>1, <2>2 DEF Next
<1>3. Spec => []CleanInv
  BY CleanInvariant DEF Shipped
<1>. QED
  BY <1>1, <1>2, <1>3, TypeCorrect, LinkInvariant, BookedInvariant, PTL
     DEF Spec, EpisodeSpec, Abstract!Spec
=============================================================================
