--------------------------- MODULE RolloutSession ---------------------------
(***************************************************************************)
(* The rollouts of one GRPO batch: TauBenchToolAgentLoop.run, the shared   *)
(* TauBenchInteraction, the tool adapters and the tau-bench environment    *)
(* they drive.  Every rollout is a coroutine of one event loop, each in a  *)
(* task of its own; environment calls that talk to the simulated user run  *)
(* in a worker thread, so between the steps of one rollout any other may   *)
(* move.  A phase is a place where the coroutine can be suspended.         *)
(*                                                                         *)
(* Data.  A database is a member of DBs; env.actions is the set of kinds   *)
(* of actions it holds; token counts are left to choice (a response may be *)
(* found full after any generation or tool answer).                        *)
(***************************************************************************)
EXTENDS Naturals, FiniteSets

CONSTANTS Rollouts,          \* request ids of the batch
          DBs,               \* what env.data may contain
          FreshDB,           \* data_load_func()
          Tasks,             \* [target : DBs, asks : BOOLEAN]
          MaxTurns,          \* interaction config max_turns
          MaxAssistantTurns, \* multi_turn.max_assistant_turns
          MaxUserTurns,      \* multi_turn.max_user_turns
          MaxParallelCalls,  \* multi_turn.max_parallel_calls
          ReplayLimit        \* most actions a caller gives in b_ndsr_replay_actions

ASSUME RolloutAssumption ==
  /\ FreshDB \in DBs
  /\ Tasks \subseteq [target : DBs, asks : BOOLEAN]
  /\ MaxTurns \in Nat /\ MaxAssistantTurns \in Nat /\ MaxUserTurns \in Nat
  /\ MaxParallelCalls \in Nat \ {0}
  /\ ReplayLimit \in Nat

VARIABLES phase,     \* where the coroutine run() of a rollout is suspended
          task,      \* the task of the rollout; its target is the database the
                     \* ground-truth actions make, asks: it has outputs
          env,       \* tau-bench Env: [db, acts]
          state,     \* the state dict: [reward, turns, done]
          turns,     \* AgentData: [assistant, user]
          calls,     \* tool calls (or replay actions) still to execute
          ctx,       \* CURRENT_TAU_ENV/STATE of the rollout's context: whose they are
          instances, \* keys of TauBenchInteraction._instance_dict
          reply,     \* what env.step returned in the worker thread
          score,     \* final_score of the AgentLoopOutput
          policyDb   \* history: the database as the rollout's own actions made it

vars == <<phase, task, env, state, turns, calls, ctx, instances, reply, score, policyDb>>

Phases == {"new", "resetting", "replaying", "pending", "generating", "tools",
           "interacting", "stepping", "replied", "closing", "closed", "failed"}

\* Phases of a rollout whose interaction is registered.
Live == {"pending", "generating", "tools", "interacting", "stepping", "replied", "closing"}

Nobody == "nobody"
ActKinds == {"tool", "transfer", "reply", "answer", "oracle"}

-----------------------------------------------------------------------------
(* The tau-bench environment                                               *)

\* Wrong variants: the two parts of the reward added up; the outputs not looked for.
VerdictSum(t, db, acts) ==
  (IF db = t.target THEN 1 ELSE 0) + (IF t.asks => "answer" \in acts THEN 1 ELSE 0)
VerdictOfData(t, db, acts) == IF db = t.target THEN 1 ELSE 0

\* calculate_reward compares env.data with the data the ground-truth actions
\* make, and looks for the task's outputs in the respond actions.
Verdict(t, db, acts) ==
  IF db = t.target /\ (t.asks => "answer" \in acts) THEN 1 ELSE 0

\* calculate_reward leaves env.data as the ground-truth actions made it, and
\* those actions in env.actions.
Graded(t, e) == [db |-> t.target, acts |-> e.acts \cup {"oracle"}]

\* env.step of an action that ends the episode: the reward is computed in place.
StepEnds(t, e, act) == Graded(t, [e EXCEPT !.acts = @ \cup {act}])

\* execute_tau_tool_action of a terminal tool: graded, then data and actions
\* are put back.
TransferKeepingData(t, e) ==
  LET graded == Graded(t, [e EXCEPT !.acts = @ \cup {"transfer"}])
  IN  [graded EXCEPT !.db = e.db, !.acts = e.acts \cup {"transfer"}]

\* A user or a terminal tool has ended the episode.
EpisodeOver(e) == e.acts \cap {"transfer", "oracle"} # {}

-----------------------------------------------------------------------------
(* start_interaction                                                       *)

\* A counter the code only compares with a limit: values past it are one value.
Count(n, limit) == IF n < limit THEN n + 1 ELSE limit

\* num_user_turns + num_tool_calls, compared with max_turns after a user turn.
CountTurn(n) == Count(n, MaxTurns)

\* The state dict after a turn that ended the episode and earned v.
EndedWith(s, v) == [reward |-> s.reward + v, turns |-> CountTurn(s.turns), done |-> TRUE]

Init ==
  /\ phase = [r \in Rollouts |-> "new"]
  /\ task \in [Rollouts -> Tasks]
  /\ env = [r \in Rollouts |-> [db |-> FreshDB, acts |-> {}]]
  /\ state = [r \in Rollouts |-> [reward |-> 0, turns |-> 0, done |-> FALSE]]
  /\ turns = [r \in Rollouts |-> [assistant |-> 0, user |-> 0]]
  /\ calls = [r \in Rollouts |-> 0]
  /\ ctx = [r \in Rollouts |-> Nobody]
  /\ instances = {}
  /\ reply = [r \in Rollouts |-> [reward |-> 0, done |-> FALSE]]
  /\ score = [r \in Rollouts |-> 0]
  /\ policyDb = [r \in Rollouts |-> FreshDB]

\* run() is entered; the environment is created and its reset handed to a thread.
Launch(r) ==
  /\ phase[r] = "new"
  /\ phase' = [phase EXCEPT ![r] = "resetting"]
  /\ UNCHANGED <<task, env, state, turns, calls, ctx, instances, reply, score, policyDb>>

\* Wrong variant: one context for the whole event loop.
SetContextForAll(r) == [q \in Rollouts |-> r]

\* CURRENT_TAU_ENV.set(env); CURRENT_TAU_STATE.set(state)
SetContext(r) == [ctx EXCEPT ![r] = r]

\* start_interaction's last lines; get_initial_response follows at once.
Register(r) ==
  /\ ctx' = SetContext(r)
  /\ instances' = instances \cup {r}
  /\ phase' = [phase EXCEPT ![r] = "pending"]

\* The reset thread has returned; no replay was asked for.
ResetReturns(r) ==
  /\ phase[r] = "resetting"
  /\ Register(r)
  /\ UNCHANGED <<task, env, state, turns, calls, reply, score, policyDb>>

\* The reset thread has returned, and a replay of n actions starts in another.
ResetThenReplay(r) ==
  /\ phase[r] = "resetting"
  /\ \E n \in 1 .. ReplayLimit : calls' = [calls EXCEPT ![r] = n]
  /\ phase' = [phase EXCEPT ![r] = "replaying"]
  /\ UNCHANGED <<task, env, state, turns, ctx, instances, reply, score, policyDb>>

\* One pass of the loop over the replay actions; a replayed action that ends
\* the episode is graded by env.step itself.
ReplayContinues(r) ==
  /\ phase[r] = "replaying" /\ calls[r] > 0 /\ ~state[r].done
  /\ \E d \in DBs, act \in {"tool", "reply", "answer"} :
       /\ act # "tool" => d = env[r].db
       /\ env' = [env EXCEPT ![r] = [db |-> d, acts |-> @.acts \cup {act}]]
       /\ policyDb' = [policyDb EXCEPT ![r] = d]
  /\ state' = [state EXCEPT ![r].turns = CountTurn(@)]
  /\ calls' = [calls EXCEPT ![r] = @ - 1]
  /\ UNCHANGED <<phase, task, turns, ctx, instances, reply, score>>

ReplayEndsEpisode(r) ==
  /\ phase[r] = "replaying" /\ calls[r] > 0 /\ ~state[r].done
  /\ \E act \in {"transfer", "reply", "answer"} :
       LET acts == env[r].acts \cup {act} IN
       /\ env' = [env EXCEPT ![r] = StepEnds(task[r], @, act)]
       /\ state' = [state EXCEPT ![r] = EndedWith(@, Verdict(task[r], env[r].db, acts))]
  /\ calls' = [calls EXCEPT ![r] = @ - 1]
  /\ UNCHANGED <<phase, task, turns, ctx, instances, reply, score, policyDb>>

\* A replay action without a tool name is passed over.
ReplaySkips(r) ==
  /\ phase[r] = "replaying" /\ calls[r] > 0 /\ ~state[r].done
  /\ calls' = [calls EXCEPT ![r] = @ - 1]
  /\ UNCHANGED <<phase, task, env, state, turns, ctx, instances, reply, score, policyDb>>

\* Note that run() goes on to generate whatever state["done"] says.
ReplayReturns(r) ==
  /\ phase[r] = "replaying" /\ (calls[r] = 0 \/ state[r].done)
  /\ calls' = [calls EXCEPT ![r] = 0]
  /\ Register(r)
  /\ UNCHANGED <<task, env, state, turns, reply, score, policyDb>>

\* create_tau_env, reset or the replay raises (the user model is out of reach,
\* replay is switched off, ...): run() fails before its try, nothing registered.
SetupFails(r) ==
  /\ phase[r] \in {"resetting", "replaying"}
  /\ phase' = [phase EXCEPT ![r] = "failed"]
  /\ calls' = [calls EXCEPT ![r] = 0]
  /\ UNCHANGED <<task, env, state, turns, ctx, instances, reply, score, policyDb>>

-----------------------------------------------------------------------------
(* The loop of run(): PENDING and GENERATING                               *)

BuildPrompt(r) ==
  /\ phase[r] = "pending"
  /\ phase' = [phase EXCEPT ![r] = "generating"]
  /\ UNCHANGED <<task, env, state, turns, calls, ctx, instances, reply, score, policyDb>>

AssistantTurn(r) == [turns EXCEPT ![r].assistant = Count(@, MaxAssistantTurns)]
UserTurn(r) == [turns EXCEPT ![r].user = Count(@, MaxUserTurns)]

\* Wrong variant: a loop that only ends by itself.
TurnsUnlimited(r) == FALSE

TurnsExhausted(r) ==
  \/ MaxAssistantTurns > 0 /\ turns[r].assistant + 1 >= MaxAssistantTurns
  \/ MaxUserTurns > 0 /\ turns[r].user >= MaxUserTurns

\* The response is full, or a turn limit is reached: the message is not acted on.
GenerateStops(r) ==
  /\ phase[r] = "generating"
  /\ turns' = AssistantTurn(r)
  /\ phase' = [phase EXCEPT ![r] = "closing"]
  /\ UNCHANGED <<task, env, state, calls, ctx, instances, reply, score, policyDb>>

\* The message holds tool calls; only the first MaxParallelCalls count.
GenerateCalls(r) ==
  /\ phase[r] = "generating" /\ ~TurnsExhausted(r)
  /\ turns' = AssistantTurn(r)
  /\ \E n \in 1 .. MaxParallelCalls : calls' = [calls EXCEPT ![r] = n]
  /\ phase' = [phase EXCEPT ![r] = "tools"]
  /\ UNCHANGED <<task, env, state, ctx, instances, reply, score, policyDb>>

\* The message is for the user.
GenerateReply(r) ==
  /\ phase[r] = "generating" /\ ~TurnsExhausted(r)
  /\ turns' = AssistantTurn(r)
  /\ phase' = [phase EXCEPT ![r] = "interacting"]
  /\ UNCHANGED <<task, env, state, calls, ctx, instances, reply, score, policyDb>>

\* Wrong variant: the entry is left in _instance_dict.
FinalizeForgets(r) == instances

\* finalize_interaction, in the finally of run().
Finalize(r) == instances \ {r}

\* The prompt template or the inference server raises: run() leaves through
\* its finally, which finalizes the interaction.
LoopFails(r) ==
  /\ phase[r] \in {"pending", "generating"} \/ (phase[r] = "tools" /\ calls[r] = 0)
  /\ phase' = [phase EXCEPT ![r] = "failed"]
  /\ instances' = Finalize(r)
  /\ UNCHANGED <<task, env, state, turns, calls, ctx, reply, score, policyDb>>

-----------------------------------------------------------------------------
(* PROCESSING_TOOLS: each call of the message runs in a task of its own,   *)
(* started from the rollout's context, without a suspension in between.    *)

NextCall(r) ==
  /\ phase[r] = "tools" /\ calls[r] > 0
  /\ calls' = [calls EXCEPT ![r] = @ - 1]
  /\ UNCHANGED <<phase, task, turns, ctx, instances, reply, score>>

\* _call_tool answers by itself: unknown tool, arguments that are not JSON, or
\* no environment in the context.
CallRejected(r) ==
  /\ NextCall(r)
  /\ UNCHANGED <<env, state, policyDb>>

\* execute: the arguments are not an object.
CallBadArguments(r) ==
  /\ NextCall(r) /\ ctx[r] # Nobody
  /\ state' = [state EXCEPT ![ctx[r]].turns = CountTurn(@)]
  /\ UNCHANGED <<env, policyDb>>

\* execute: env.step raises (a tool that returns no text); the action is in
\* env.actions by then.
CallRaises(r) ==
  /\ NextCall(r) /\ ctx[r] # Nobody
  /\ env' = [env EXCEPT ![ctx[r]].acts = @ \cup {"tool"}]
  /\ state' = [state EXCEPT ![ctx[r]].turns = CountTurn(@)]
  /\ UNCHANGED policyDb

\* execute: a tool that reads or writes the database, or fails half way.
CallTool(r) ==
  /\ NextCall(r) /\ ctx[r] # Nobody
  /\ \E d \in DBs :
       /\ env' = [env EXCEPT ![ctx[r]] = [db |-> d, acts |-> @.acts \cup {"tool"}]]
       /\ policyDb' = [policyDb EXCEPT ![r] = d]
  /\ state' = [state EXCEPT ![ctx[r]].turns = CountTurn(@)]

\* execute: transfer_to_human_agents.
CallTransfer(r) ==
  LET x == ctx[r] IN
  /\ NextCall(r) /\ x # Nobody
  /\ env' = [env EXCEPT ![x] = TransferKeepingData(task[x], @)]
  /\ state' = [state EXCEPT ![x] = EndedWith(@, Verdict(task[x], env[x].db, env[x].acts))]
  /\ UNCHANGED policyDb

\* Wrong variant: the override of the tools handler is missing.
IsDoneMissed(r) == FALSE

\* TauBenchInteraction.is_done, as the override of the tools handler asks it.
IsDone(r) == r \in instances /\ state[r].done

\* The rest of the handler and its override in TauBenchToolAgentLoop: the tool
\* answers may fill the response; a finished interaction ends the loop.
ToolsReturn(r) ==
  /\ phase[r] = "tools" /\ calls[r] = 0
  /\ \E full \in BOOLEAN :
       /\ turns' = IF full THEN turns ELSE UserTurn(r)
       /\ phase' = [phase EXCEPT ![r] =
                      IF full \/ IsDone(r) THEN "closing" ELSE "generating"]
  /\ UNCHANGED <<task, env, state, calls, ctx, instances, reply, score, policyDb>>

-----------------------------------------------------------------------------
(* INTERACTING: generate_response                                          *)

\* Up to the await: the entry is looked up, the context set, env.step handed
\* to a thread.
Respond(r) ==
  /\ phase[r] = "interacting" /\ r \in instances
  /\ ctx' = SetContext(r)
  /\ phase' = [phase EXCEPT ![r] = "stepping"]
  /\ UNCHANGED <<task, env, state, turns, calls, instances, reply, score, policyDb>>

\* In the thread: the user answers, and goes on.
UserReplies(r) ==
  /\ phase[r] = "stepping"
  /\ \E act \in {"reply", "answer"} : env' = [env EXCEPT ![r].acts = @ \cup {act}]
  /\ reply' = [reply EXCEPT ![r] = [reward |-> 0, done |-> FALSE]]
  /\ phase' = [phase EXCEPT ![r] = "replied"]
  /\ UNCHANGED <<task, state, turns, calls, ctx, instances, score, policyDb>>

\* In the thread: the user says ###STOP###, and env.step grades the episode.
UserStops(r) ==
  /\ phase[r] = "stepping"
  /\ \E act \in {"reply", "answer"} :
       /\ env' = [env EXCEPT ![r] = StepEnds(task[r], @, act)]
       /\ reply' = [reply EXCEPT ![r] =
                      [reward |-> Verdict(task[r], env[r].db, env[r].acts \cup {act}),
                       done |-> TRUE]]
  /\ phase' = [phase EXCEPT ![r] = "replied"]
  /\ UNCHANGED <<task, state, turns, calls, ctx, instances, score, policyDb>>

\* The thread raises (the user model fails): the episode ends unrewarded.
UserFails(r) ==
  /\ phase[r] = "stepping"
  /\ \E act \in {"reply", "answer"} : env' = [env EXCEPT ![r].acts = @ \cup {act}]
  /\ state' = [state EXCEPT ![r].done = TRUE]
  /\ turns' = UserTurn(r)
  /\ phase' = [phase EXCEPT ![r] = "closing"]
  /\ UNCHANGED <<task, calls, ctx, instances, reply, score, policyDb>>

\* Wrong variant: the turn limit alone ends the episode.
LastTurnByLimit(r, total) == total >= MaxTurns

\* The episode was ended by the user, before, or by the turn limit.
LastTurn(r, total) == reply[r].done \/ state[r].done \/ total >= MaxTurns

\* After the await: the state is updated and the turn limit tested; the veRL
\* handler counts the user turn and ends the loop when told to.
TurnReturns(r) ==
  LET total == CountTurn(state[r].turns)
      over  == LastTurn(r, total)
  IN
  /\ phase[r] = "replied"
  /\ state' = [state EXCEPT ![r] =
                 [reward |-> @.reward + reply[r].reward, turns |-> total, done |-> @.done \/ over]]
  /\ turns' = UserTurn(r)
  /\ phase' = [phase EXCEPT ![r] = IF over THEN "closing" ELSE "generating"]
  /\ UNCHANGED <<task, env, calls, ctx, instances, reply, score, policyDb>>

\* calculate_score, the AgentLoopOutput, and finalize_interaction in the finally.
Close(r) ==
  /\ phase[r] = "closing"
  /\ score' = [score EXCEPT ![r] = IF r \in instances THEN state[r].reward ELSE 0]
  /\ instances' = Finalize(r)
  /\ phase' = [phase EXCEPT ![r] = "closed"]
  /\ UNCHANGED <<task, env, state, turns, calls, ctx, reply, policyDb>>

-----------------------------------------------------------------------------
Setup(r) == \/ Launch(r) \/ ResetReturns(r) \/ ResetThenReplay(r) \/ ReplayContinues(r)
            \/ ReplayEndsEpisode(r) \/ ReplaySkips(r) \/ ReplayReturns(r) \/ SetupFails(r)

Generate(r) == \/ BuildPrompt(r) \/ GenerateStops(r) \/ GenerateCalls(r)
               \/ GenerateReply(r) \/ LoopFails(r)

Tools(r) == \/ CallRejected(r) \/ CallBadArguments(r) \/ CallRaises(r) \/ CallTool(r)
            \/ CallTransfer(r) \/ ToolsReturn(r)

Interact(r) == Respond(r) \/ UserReplies(r) \/ UserStops(r) \/ UserFails(r) \/ TurnReturns(r)

Step(r) == Setup(r) \/ Generate(r) \/ Tools(r) \/ Interact(r) \/ Close(r)

Next == \E r \in Rollouts : Step(r)

Spec == Init /\ [][Next]_vars

\* The event loop runs every task that is ready, and a thread call returns or
\* raises: no rollout that can move is left waiting for ever.
FairSpec == Spec /\ \A r \in Rollouts : WF_vars(Step(r))

-----------------------------------------------------------------------------
(* Properties                                                              *)

EnvType == [db : DBs, acts : SUBSET ActKinds]
StateDict == [reward : Nat, turns : 0 .. MaxTurns, done : BOOLEAN]
AgentTurns == [assistant : 0 .. MaxAssistantTurns, user : 0 .. MaxUserTurns]
StepResult == [reward : {0, 1}, done : BOOLEAN]

\* Type invariant: phases, state dicts and counters stay in their ranges; the
\* reward env.step returns is 0 or 1 (calculate_reward).
TypeOK ==
  /\ phase \in [Rollouts -> Phases]
  /\ task \in [Rollouts -> Tasks]
  /\ env \in [Rollouts -> EnvType]
  /\ state \in [Rollouts -> StateDict]
  /\ turns \in [Rollouts -> AgentTurns]
  /\ calls \in [Rollouts -> Nat]
  /\ ctx \in [Rollouts -> Rollouts \cup {Nobody}]
  /\ instances \subseteq Rollouts
  /\ reply \in [Rollouts -> StepResult]
  /\ score \in [Rollouts -> Nat]
  /\ policyDb \in [Rollouts -> DBs]

\* The score handed to the trainer is the outcome of the rollout's own episode:
\* 1 exactly when a user or a transfer ended it, the database is what the task
\* wants and the outputs were given; 0 when it was cut.  (calculate_score,
\* through every path of generate_response, execute_tau_tool_action and run.)
ScoreIsOutcome ==
  \A r \in Rollouts : phase[r] = "closed" =>
    score[r] = IF EpisodeOver(env[r])
               THEN Verdict(task[r], policyDb[r], env[r].acts) ELSE 0

\* The policy never acts on a database the grading has replaced, nor with
\* ground-truth actions among its own (execute_tau_tool_action's promise, and
\* the loop's ending after env.step has graded).
OracleIsolation ==
  \A r \in Rollouts :
    (phase[r] \in {"pending", "generating", "interacting", "stepping"}
       \/ (phase[r] = "tools" /\ calls[r] > 0))
    => env[r].db = policyDb[r] /\ "oracle" \notin env[r].acts

\* However many calls a message may hold and whatever was replayed, a rollout
\* is paid at most once per call of its last message and once for the replay.
RewardBound ==
  \A r \in Rollouts : state[r].reward <= MaxParallelCalls + (IF ReplayLimit > 0 THEN 1 ELSE 0)

\* _instance_dict holds exactly the rollouts between start_interaction and
\* finalize_interaction: none is lost while it runs or left behind after it,
\* whichever way run() ends.
EntryLifecycle == instances = {r \in Rollouts : phase[r] \in Live}

\* A step changes the environment and the state of the rollout whose coroutine
\* or thread moved, never those of another one of the batch (the context
\* variables and the entry looked up are the rollout's own).
EffectsStayHome ==
  [][\A r \in Rollouts :
       env'[r] # env[r] \/ state'[r] # state[r] =>
         \A q \in Rollouts \ {r} : phase'[q] = phase[q] /\ calls'[q] = calls[q]]_vars

\* Every rollout that starts comes to an end, with a score or an error, so the
\* gather over the batch returns.
EveryRolloutEnds ==
  \A r \in Rollouts : phase[r] # "new" ~> phase[r] \in {"closed", "failed"}

\* The batch implements the abstract episodes.
StatusOf(r) == CASE phase[r] = "new" -> "waiting"
                 [] phase[r] = "failed" -> "aborted"
                 [] phase[r] = "closed" -> "scored"
                 [] OTHER -> IF EpisodeOver(env[r]) THEN "over" ELSE "playing"

Abstract == INSTANCE Episode WITH
  Episodes   <- Rollouts,
  Worlds     <- DBs,
  FreshWorld <- FreshDB,
  Goals      <- Tasks,
  status     <- [r \in Rollouts |-> StatusOf(r)],
  goal       <- task,
  world      <- policyDb,
  said       <- [r \in Rollouts |-> "answer" \in env[r].acts],
  score      <- score

EpisodeSpec == Abstract!Spec
=============================================================================
