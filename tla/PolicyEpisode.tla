---------------------------- MODULE PolicyEpisode ----------------------------
(***************************************************************************)
(* The episodes outside of the trainer: run_single_task of evaluation.py,  *)
(* by which run_policy_eval.py samples a policy, and run_teacher_rollout   *)
(* of collect_sft_data.py, by which the teacher is sampled.  Both play one *)
(* episode after another, each in an environment of its own, and both talk *)
(* through OpenAICompatPolicy, which truncates the conversation when it    *)
(* has grown too long.                                                     *)
(*                                                                         *)
(* A message has a role, the length of its text, and the length of the     *)
(* names, ids and arguments that go with it.  A tool call is "bad" (its    *)
(* arguments do not parse), "broken" (it has no function), an "act", or    *)
(* the "transfer" that ends the episode.                                   *)
(***************************************************************************)
EXTENDS Integers, SequencesExt

CONSTANTS Drivers,    \* \subseteq {"eval", "teacher"}
          Samples,    \* episodes are numbered 1 .. Samples
          Worlds, FreshWorld, Goals, \* the database and the tasks, as in Episode
          MaxTurns,   \* max_turns
          Limit,      \* max_context_chars, contamination_char_limit; 0 for none
          System,     \* length of the system prompt
          UserTexts, ToolTexts,     \* lengths a user's message and a tool's answer may have
          PolicyMessages,           \* what the policy may answer: its text, its calls and their length
          ToolExtra,                \* length of a tool message's name and call id
          None

Calls == {"bad", "broken", "act", "transfer"}

ASSUME EpisodeAssumption ==
  /\ Samples \in Nat \ {0} /\ MaxTurns \in Nat /\ Limit \in Nat /\ System \in Nat /\ ToolExtra \in Nat
  /\ FreshWorld \in Worlds
  /\ None \notin Nat /\ None \notin [reward : {0, 1}, error : BOOLEAN, contaminated : Int \cup {None}]
  /\ UserTexts \subseteq Nat /\ ToolTexts \subseteq Nat
  /\ \A m \in PolicyMessages : m.calls \in Seq(Calls) /\ m.text \in Nat /\ m.extra \in Nat

VARIABLES driver,
          goal,          \* the task of every episode
          sample,        \* the episode being played
          at,            \* where its driver is
          turn,
          messages,
          todo,          \* tool calls of the last message that are still to be made
          contaminated,  \* contaminated_from_turn
          saw,           \* for every assistant message, whether it was given the whole conversation
          error,
          env,           \* by episode: the database, what was said, whether it is over, its reward
          results        \* what the drivers return

play == <<turn, messages, todo, contaminated, saw, error>>
vars == <<driver, goal, sample, at, play, env, results>>

-----------------------------------------------------------------------------
(* OpenAICompatPolicy                                                      *)

Message(role, text, extra) == [role |-> role, text |-> text, extra |-> extra]

Chars(m) == m.text + m.extra
CharsOf(ms) == SumFunction([i \in DOMAIN ms |-> Chars(ms[i])])

Smaller(a, b) == IF a < b THEN a ELSE b
Clip(m, budget) == [m EXCEPT !.text = Smaller(m.text, budget)]

\* Wrong variant: a message that is too long is left out, and the walk goes on.
WalkOn(ms, budget) ==
  LET walk[n \in 0 .. Len(ms)] ==
        IF n = 0 THEN [kept |-> <<>>, budget |-> budget]
        ELSE LET m == ms[Len(ms) + 1 - n]
                 before == walk[n - 1]
             IN  IF Chars(m) <= before.budget
                 THEN [kept |-> <<m>> \o before.kept, budget |-> before.budget - Chars(m)]
                 ELSE before
  IN  walk[Len(ms)].kept

\* An older message is kept if it fits, the newest is clipped if it does not.
Visit(m, w) ==
  IF w.stopped THEN w
  ELSE IF Chars(m) <= w.budget
  THEN [kept |-> <<m>> \o w.kept, budget |-> w.budget - Chars(m), stopped |-> FALSE]
  ELSE [kept |-> IF w.kept = <<>> THEN <<Clip(m, w.budget)>> ELSE w.kept,
        budget |-> w.budget, stopped |-> TRUE]

\* From the newest message back, up to the first that does not fit.
Walk(ms, budget) ==
  LET walk[n \in 0 .. Len(ms)] ==
        IF n = 0 THEN [kept |-> <<>>, budget |-> budget, stopped |-> FALSE]
        ELSE Visit(ms[Len(ms) + 1 - n], walk[n - 1])
  IN  walk[Len(ms)].kept

Truncates(ms) == Limit > 0 /\ CharsOf(ms) > Limit

\* What is sent for a conversation, whose first message is the system prompt.
Request(ms) ==
  IF ~Truncates(ms) THEN ms
  ELSE IF Chars(ms[1]) >= Limit THEN <<Clip(ms[1], Limit)>>
  ELSE <<ms[1]>> \o Walk(Tail(ms), Limit - Chars(ms[1]))

-----------------------------------------------------------------------------
FreshEnv == [world |-> FreshWorld, said |-> FALSE, over |-> FALSE, reward |-> 0]

Init ==
  /\ driver \in Drivers
  /\ goal \in [1 .. Samples -> Goals]
  /\ sample = 1
  /\ at = "create"
  /\ turn = 0
  /\ messages = <<>>
  /\ todo = <<>>
  /\ contaminated = None
  /\ saw = <<>>
  /\ error = FALSE
  /\ env = [s \in 1 .. Samples |-> FreshEnv]
  /\ results = [s \in 1 .. Samples |-> None]

\* A new environment, reset, and the first two messages.
Create ==
  /\ at = "create"
  /\ \E text \in UserTexts :
       messages' = <<Message("system", System, 0), Message("user", text, 0)>>
  /\ turn' = 0 /\ todo' = <<>> /\ contaminated' = None /\ saw' = <<>> /\ error' = FALSE
  /\ at' = "request"
  /\ UNCHANGED <<driver, goal, sample, env, results>>

\* The first message of the simulated user is asked for outside of the try: neither
\* driver returns, and the episodes that were to come are not played.
ResetRaises ==
  /\ at = "create"
  /\ at' = "aborted"
  /\ UNCHANGED <<driver, goal, sample, play, env, results>>

\* Wrong variant: one turn too many.
TurnLeftOrSpent == turn <= MaxTurns

TurnLeft == turn < MaxTurns

\* Wrong variant: the last truncated turn is noted.
NoteEvery(ms) == IF driver = "teacher" /\ Truncates(ms) THEN turn ELSE contaminated

Note(ms) ==
  IF driver = "teacher" /\ Truncates(ms) /\ contaminated = None THEN turn ELSE contaminated

PolicyAnswers ==
  /\ at = "request" /\ TurnLeft
  /\ \E m \in PolicyMessages :
       /\ messages' = Append(messages, Message("assistant", m.text, m.extra))
       /\ todo' = IF driver = "teacher" /\ m.calls # <<>> THEN <<Head(m.calls)>> ELSE m.calls
       /\ at' = IF m.calls = <<>> THEN "reply" ELSE "calls"
  /\ contaminated' = Note(messages)
  /\ saw' = Append(saw, Request(messages) = messages)
  /\ UNCHANGED <<driver, goal, sample, turn, error, env, results>>

\* The rest of the turn, or a call of the policy, raises: the episode is cut.
Raise ==
  /\ error' = TRUE
  /\ at' = "return"
  /\ UNCHANGED <<driver, goal, sample, turn, messages, todo, contaminated, saw, results>>

PolicyRaises == at = "request" /\ TurnLeft /\ Raise /\ UNCHANGED env

TurnsSpent ==
  /\ at = "request" /\ ~TurnLeft
  /\ at' = "return"
  /\ UNCHANGED <<driver, goal, sample, play, env, results>>

-----------------------------------------------------------------------------
(* Tool calls                                                              *)

Worth(e, g) == IF e.world = g.target /\ (g.asks => e.said) THEN 1 ELSE 0

Over(e, g) == [e EXCEPT !.over = TRUE, !.reward = Worth(e, g)]

\* The call is answered, and the next is made or the turn is over.
Answered ==
  /\ \E text \in ToolTexts : messages' = Append(messages, Message("tool", text, ToolExtra))
  /\ todo' = Tail(todo)
  /\ IF Len(todo) > 1 THEN UNCHANGED <<at, turn>> ELSE at' = "request" /\ turn' = turn + 1
  /\ UNCHANGED <<driver, goal, sample, contaminated, saw, error, results>>

Calling(call) == at = "calls" /\ Head(todo) = call

BadArguments == Calling("bad") /\ Answered /\ UNCHANGED env

BrokenCall == Calling("broken") /\ Raise /\ UNCHANGED env

\* Env.step with a tool: an exception of the tool is an answer like any other.
Act ==
  /\ Calling("act")
  /\ \E w \in Worlds : env' = [env EXCEPT ![sample].world = w]
  /\ Answered

\* Wrong variant: the calls after the one that ended the episode are made.
TransferGoesOn ==
  /\ Calling("transfer")
  /\ env' = [env EXCEPT ![sample] = Over(@, goal[sample])]
  /\ Answered

\* The episode is over and graded; calls that are left are not made.
Transfer ==
  /\ Calling("transfer")
  /\ env' = [env EXCEPT ![sample] = Over(@, goal[sample])]
  /\ \E text \in ToolTexts : messages' = Append(messages, Message("tool", text, ToolExtra))
  /\ at' = "return"
  /\ UNCHANGED <<driver, goal, sample, turn, todo, contaminated, saw, error, results>>

-----------------------------------------------------------------------------
(* Replies to the user                                                     *)

\* What is said counts for the answers the task asks for.
Heard(e) == {e, [e EXCEPT !.said = TRUE]}

UserAnswers ==
  /\ at = "reply"
  /\ \E e \in Heard(env[sample]) : env' = [env EXCEPT ![sample] = e]
  /\ \E text \in UserTexts : messages' = Append(messages, Message("user", text, 0))
  /\ at' = "request" /\ turn' = turn + 1
  /\ UNCHANGED <<driver, goal, sample, todo, contaminated, saw, error, results>>

UserStops ==
  /\ at = "reply"
  /\ \E e \in Heard(env[sample]) : env' = [env EXCEPT ![sample] = Over(e, goal[sample])]
  /\ at' = "return"
  /\ UNCHANGED <<driver, goal, sample, play, results>>

UserRaises ==
  /\ at = "reply"
  /\ \E e \in Heard(env[sample]) : env' = [env EXCEPT ![sample] = e]
  /\ Raise

-----------------------------------------------------------------------------
Return ==
  /\ at = "return"
  /\ results' = [results EXCEPT ![sample] =
                   [reward |-> env[sample].reward, error |-> error, contaminated |-> contaminated]]
  /\ IF sample < Samples THEN sample' = sample + 1 /\ at' = "create"
                         ELSE at' = "done" /\ UNCHANGED sample
  /\ UNCHANGED <<driver, goal, play, env>>

Next ==
  \/ Create \/ ResetRaises \/ PolicyAnswers \/ PolicyRaises \/ TurnsSpent
  \/ BadArguments \/ BrokenCall \/ Act \/ Transfer
  \/ UserAnswers \/ UserStops \/ UserRaises \/ Return

Spec == Init /\ [][Next]_vars

-----------------------------------------------------------------------------
(* Properties                                                              *)

Envs == [world : Worlds, said : BOOLEAN, over : BOOLEAN, reward : {0, 1}]
Results == [reward : {0, 1}, error : BOOLEAN, contaminated : 0 .. MaxTurns - 1 \cup {None}]

\* Type invariant: in particular no turn is begun beyond max_turns.
TypeOK ==
  /\ driver \in Drivers
  /\ goal \in [1 .. Samples -> Goals]
  /\ sample \in 1 .. Samples
  /\ at \in {"create", "request", "calls", "reply", "return", "done", "aborted"}
  /\ turn \in 0 .. MaxTurns /\ (at \in {"calls", "reply"} => turn < MaxTurns)
  /\ todo \in Seq(Calls) /\ (at = "calls" => todo # <<>>)
  /\ contaminated \in 0 .. MaxTurns - 1 \cup {None}
  /\ error \in BOOLEAN
  /\ env \in [1 .. Samples -> Envs]
  /\ results \in [1 .. Samples -> Results \cup {None}]

\* contaminated_from_turn tells the messages the policy wrote knowing the whole
\* conversation from the others: those of the turns before it, and no others
\* (run_teacher_rollout; what is kept of a contaminated rollout depends on it).
ContaminationTrue ==
  driver = "teacher" => \A n \in DOMAIN saw : saw[n] <=> (contaminated = None \/ n <= contaminated)

\* What is sent is the system prompt and the longest run of newest messages that fits,
\* or the newest alone, which then exceeds the limit by no more than its name and ids
\* (_truncate_messages).
RequestSound ==
  at = "request" /\ Truncates(messages) /\ System < Limit =>
    LET sent == Request(messages)
        newest(n) == <<messages[1]>> \o SubSeq(messages, Len(messages) - n + 1, Len(messages))
        fitting == {n \in 1 .. Len(messages) - 1 : CharsOf(newest(n)) <= Limit}
        last == messages[Len(messages)]
    IN  IF fitting # {} THEN sent = newest(Max(fitting))
        ELSE /\ Len(sent) = 2 /\ sent[1] = messages[1]
             /\ sent[2].role = last.role /\ CharsOf(sent) <= Limit + last.extra

\* The episodes of a driver keep the promise a rollout makes its trainer: they are worth
\* 1 exactly when the policy reached the task's target, and they leave each other alone.
Status ==
  [s \in 1 .. Samples |->
     IF results[s] # None THEN "scored"
     ELSE IF s # sample \/ at \in {"create", "aborted"} THEN "waiting"
     ELSE IF env[s].over THEN "over" ELSE "playing"]

World == [s \in 1 .. Samples |-> env[s].world]
Said == [s \in 1 .. Samples |-> env[s].said]
Score == [s \in 1 .. Samples |-> IF results[s] # None THEN results[s].reward ELSE 0]

Abstract == INSTANCE Episode WITH
  Episodes <- 1 .. Samples, status <- Status, world <- World, said <- Said, score <- Score

EpisodeSpec == Abstract!Spec
=============================================================================
