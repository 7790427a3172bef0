------------------------- MODULE PolicyEpisode_proofs -------------------------
(***************************************************************************)
(* The theorems about PolicyEpisode, for any number of samples and turns,  *)
(* any limit, policy and tasks: its types; that both drivers implement     *)
(* Episode; what is sent of a conversation that is too long; and that      *)
(* contaminated_from_turn tells the truth.                                 *)
(*                                                                         *)
(* An episode is untouched before its turn and has a result after it;      *)
(* while it is played it is not over, except just before its driver        *)
(* returns, and its reward is then its worth (PlayInv).                    *)
(*                                                                         *)
(* The walk over a conversation is followed message by message (WalkFits): *)
(* it stops after the last k messages, where k + 1 no longer fit.  That    *)
(* the request differs from a conversation that is too long (SentWhole)    *)
(* needs how every conversation begins (Opened).                           *)
(***************************************************************************)
EXTENDS PolicyEpisode, SumTheorems, TLAPS

Playing == {"request", "calls", "reply"}

PlayInv ==
  /\ \A s \in 1 .. Samples :
       /\ s > sample => env[s] = FreshEnv
       /\ (results[s] = None) <=> (s > sample \/ (s = sample /\ at # "done"))
  /\ at \in {"create", "aborted"} => env[sample] = FreshEnv
  /\ at \in Playing => ~env[sample].over
  /\ ~env[sample].over => env[sample].reward = 0
  /\ env[sample].over => env[sample].reward = Worth(env[sample], goal[sample])
  /\ at = "done" => sample = Samples

Inv == TypeOK /\ PlayInv

\* An episode's environment when it is over, after a message, and after a tool call.
LEMMA FreshType == FreshEnv \in Envs
  BY EpisodeAssumption DEF FreshEnv, Envs

LEMMA OverTypes ==
  ASSUME NEW e \in Envs, NEW g \in Goals
  PROVE  /\ Over(e, g) \in Envs /\ Over(e, g).over
         /\ Over(e, g).world = e.world /\ Over(e, g).said = e.said
         /\ Over(e, g).reward = Worth(Over(e, g), g)
<1>1. Worth(e, g) \in {0, 1}
  BY DEF Worth
<1>2. QED
  BY <1>1 DEF Over, Worth, Envs

LEMMA HeardTypes ==
  ASSUME NEW e \in Envs, NEW f \in Heard(e)
  PROVE  /\ f \in Envs /\ f.world = e.world /\ f.said \in {e.said, TRUE}
         /\ f.over = e.over /\ f.reward = e.reward
  BY DEF Heard, Envs

LEMMA WorldTypes ==
  ASSUME NEW e \in Envs, NEW w \in Worlds
  PROVE  LET f == [e EXCEPT !.world = w]
         IN  f \in Envs /\ f.world = w /\ f.said = e.said /\ f.over = e.over /\ f.reward = e.reward
  BY DEF Envs

\* The environments after a step of the episode being played.
LEMMA NextEnv ==
  ASSUME TypeOK
  PROVE  /\ sample \in 1 .. Samples /\ env[sample] \in Envs /\ goal[sample] \in Goals
         /\ \A w \in Worlds : [env EXCEPT ![sample].world = w] \in [1 .. Samples -> Envs]
         /\ \A e \in Heard(env[sample]) :
              /\ [env EXCEPT ![sample] = e] \in [1 .. Samples -> Envs]
              /\ [env EXCEPT ![sample] = Over(e, goal[sample])] \in [1 .. Samples -> Envs]
         /\ [env EXCEPT ![sample] = Over(env[sample], goal[sample])] \in [1 .. Samples -> Envs]
<1>1. /\ sample \in 1 .. Samples /\ env[sample] \in Envs /\ goal[sample] \in Goals
      /\ env \in [1 .. Samples -> Envs]
  BY DEF TypeOK
<1>2. \A e \in Envs : [env EXCEPT ![sample] = e] \in [1 .. Samples -> Envs]
  BY <1>1
<1>3. \A w \in Worlds : [env EXCEPT ![sample].world = w] \in [1 .. Samples -> Envs]
  BY <1>1 DEF Envs
<1>4. \A e \in Envs : Over(e, goal[sample]) \in Envs
  BY ONLY <1>1, OverTypes
<1>5. \A e \in Heard(env[sample]) : e \in Envs
  BY ONLY <1>1, HeardTypes
<1>6. QED
  BY <1>1, <1>2, <1>3, <1>4, <1>5

\* The tool calls that are left.
LEMMA Todo ==
  ASSUME TypeOK, at = "calls"
  PROVE  /\ Tail(todo) \in Seq(Calls) /\ Len(todo) \in Nat \ {0}
         /\ Len(todo) > 1 => Tail(todo) # <<>>
<1>1. todo \in Seq(Calls) /\ todo # <<>>
  BY DEF TypeOK
<1>2. QED
  BY <1>1

\* Every step keeps the types.
LEMMA Types == TypeOK /\ [Next]_vars => TypeOK'
<1> SUFFICES ASSUME TypeOK, [Next]_vars PROVE TypeOK'
  OBVIOUS
<1>0. Samples \in Nat \ {0} /\ MaxTurns \in Nat
  BY EpisodeAssumption, Zenon
<1> USE <1>0
<1>1. CASE Create
  <2>1. <<>> \in Seq(Calls)
    OBVIOUS
  <2>2. todo' \in Seq(Calls)
    BY <1>1, <2>1, Zenon DEF Create
  <2>3. turn' = 0 /\ contaminated' = None /\ error' = FALSE /\ at' = "request"
        /\ UNCHANGED <<driver, goal, sample, env, results>>
    BY <1>1 DEF Create
  <2>4. turn' \in 0 .. MaxTurns /\ contaminated' \in 0 .. MaxTurns - 1 \cup {None}
    BY <2>3
  <2>5. /\ driver' \in Drivers /\ goal' \in [1 .. Samples -> Goals] /\ sample' \in 1 .. Samples
        /\ env' \in [1 .. Samples -> Envs] /\ results' \in [1 .. Samples -> Results \cup {None}]
    BY <2>3 DEF TypeOK
  <2>6. QED
    BY <2>2, <2>3, <2>4, <2>5 DEF TypeOK
<1>2. CASE ResetRaises
  BY <1>2 DEF ResetRaises, play, TypeOK
<1>3. CASE PolicyAnswers
  <2>1. PICK m \in PolicyMessages :
          /\ todo' = IF driver = "teacher" /\ m.calls # <<>> THEN <<Head(m.calls)>> ELSE m.calls
          /\ at' = IF m.calls = <<>> THEN "reply" ELSE "calls"
    BY <1>3 DEF PolicyAnswers
  <2>2. m.calls \in Seq(Calls)
    BY EpisodeAssumption, Zenon
  <2>3. todo' \in Seq(Calls) /\ (at' = "calls" => todo' # <<>>)
    BY <2>1, <2>2
  <2>4. contaminated' \in 0 .. MaxTurns - 1 \cup {None}
    BY <1>3 DEF PolicyAnswers, Note, TurnLeft, TypeOK
  <2>5. QED
    BY <1>3, <2>1, <2>3, <2>4 DEF PolicyAnswers, TurnLeft, TypeOK
<1>4. CASE PolicyRaises
  BY <1>4 DEF PolicyRaises, Raise, TypeOK
<1>5. CASE TurnsSpent
  BY <1>5 DEF TurnsSpent, play, TypeOK
<1>6. ASSUME Answered, at = "calls", env' \in [1 .. Samples -> Envs] PROVE TypeOK'
  <2>1. /\ todo' \in Seq(Calls) /\ (at' = "calls" => todo' # <<>>)
        /\ turn' \in 0 .. MaxTurns /\ (at' \in {"calls", "reply"} => turn' < MaxTurns)
        /\ at' \in {"request", "calls"}
    <3>1. CASE Len(todo) > 1
      BY <1>6, <3>1, Todo DEF Answered, TypeOK
    <3>2. CASE ~(Len(todo) > 1)
      BY <1>6, <3>2, Todo DEF Answered, TypeOK
    <3>3. QED
      BY <3>1, <3>2
  <2>2. UNCHANGED <<driver, goal, sample, contaminated, error, results>>
    BY <1>6 DEF Answered
  <2>3. QED
    BY <1>6, <2>1, <2>2 DEF TypeOK
<1>7. CASE BadArguments
  BY <1>6, <1>7 DEF BadArguments, Calling, TypeOK
<1>8. CASE BrokenCall
  BY <1>8 DEF BrokenCall, Raise, TypeOK
<1>9. CASE Act
  <2>2. env' \in [1 .. Samples -> Envs]
    BY <1>9, NextEnv DEF Act
  <2>3. QED
    BY <1>6, <1>9, <2>2 DEF Act, Calling
<1>10. CASE Transfer
  <2>1. env' \in [1 .. Samples -> Envs]
    BY <1>10, NextEnv DEF Transfer
  <2>2. QED
    BY <1>10, <2>1 DEF Transfer, TypeOK
<1>11. CASE UserAnswers
  <2>1. env' \in [1 .. Samples -> Envs]
    BY <1>11, NextEnv DEF UserAnswers
  <2>2. QED
    BY <1>11, <2>1 DEF UserAnswers, TypeOK
<1>12. CASE UserStops
  <2>1. env' \in [1 .. Samples -> Envs]
    BY <1>12, NextEnv DEF UserStops
  <2>2. QED
    BY <1>12, <2>1 DEF UserStops, play, TypeOK
<1>13. CASE UserRaises
  <2>1. env' \in [1 .. Samples -> Envs]
    BY <1>13, NextEnv DEF UserRaises
  <2>2. QED
    BY <1>13, <2>1 DEF UserRaises, Raise, TypeOK
<1>14. CASE Return
  <2>1. results' \in [1 .. Samples -> Results \cup {None}]
    BY <1>14 DEF Return, TypeOK, Envs, Results
  <2>2. QED
    BY <1>14, <2>1 DEF Return, play, TypeOK
<1>15. CASE UNCHANGED vars
  BY <1>15 DEF vars, play, TypeOK
<1>16. QED
  BY <1>1, <1>2, <1>3, <1>4, <1>5, <1>7, <1>8, <1>9, <1>10, <1>11, <1>12, <1>13, <1>14, <1>15 DEF Next

\* The initial states have the types.
LEMMA InitTypes == Init => TypeOK
<1>1. <<>> \in Seq(Calls)
  OBVIOUS
<1>2. SUFFICES ASSUME Init PROVE TypeOK
  OBVIOUS
<1>3. env \in [1 .. Samples -> Envs] /\ results \in [1 .. Samples -> Results \cup {None}]
  BY <1>2, FreshType DEF Init
<1>4. Samples \in Nat \ {0} /\ MaxTurns \in Nat
  BY EpisodeAssumption, Zenon
<1>5. todo \in Seq(Calls) /\ (at = "calls" => todo # <<>>)
  BY <1>1, <1>2, Zenon DEF Init
<1>6. turn \in 0 .. MaxTurns /\ sample \in 1 .. Samples
  BY <1>2, <1>4 DEF Init
<1>7. QED
  BY <1>2, <1>3, <1>5, <1>6 DEF Init, TypeOK

\* TypeOK: the types, and no turn beyond max_turns.
THEOREM EpisodeTypes == Spec => []TypeOK
  BY InitTypes, Types, PTL DEF Spec

-----------------------------------------------------------------------------
(* The refinement                                                          *)

Waiting == {"create", "aborted"}

\* Before the first episode all of them are fresh.
LEMMA InitPlay == Init => PlayInv
<1>1. Samples \in Nat \ {0}
  BY EpisodeAssumption, Zenon
<1>2. QED
  BY <1>1 DEF Init, PlayInv, FreshEnv, Playing

\* A step within an episode that leaves its environment alone.
LEMMA Quiet ==
  ASSUME Inv, UNCHANGED <<goal, env, results, sample>>, at' # "done", at # "done",
         (at \in Waiting) <=> (at' \in Waiting), at' \in Playing => at \in Playing \cup Waiting
  PROVE  PlayInv' /\ UNCHANGED Abstract!vars
<1>1. PlayInv'
  BY DEF Inv, PlayInv, Waiting, Playing, FreshEnv, Worth
<1>2. Status' = Status
  BY DEF Status, Waiting
<1>3. World' = World /\ Said' = Said /\ Score' = Score
  BY DEF World, Said, Score
<1>4. QED
  BY <1>1, <1>2, <1>3 DEF Abstract!vars

\* A step that gives the episode being played the environment e.
LEMMA Played ==
  ASSUME Inv, at \in Playing, at' \in Playing \cup {"return"},
         UNCHANGED <<goal, results, sample>>,
         NEW e \in Envs, env' = [env EXCEPT ![sample] = e],
         e.over => at' = "return" /\ e.reward = Worth(e, goal[sample]),
         ~e.over => e.reward = 0
  PROVE  /\ PlayInv'
         /\ Status[sample] = "playing"
         /\ Status' = [Status EXCEPT ![sample] = IF e.over THEN "over" ELSE "playing"]
         /\ World' = [World EXCEPT ![sample] = e.world]
         /\ Said' = [Said EXCEPT ![sample] = e.said]
         /\ Score' = Score
<1>1. /\ sample \in 1 .. Samples /\ env \in [1 .. Samples -> Envs]
      /\ Samples \in Nat \ {0}
  BY EpisodeAssumption, Zenon DEF Inv, TypeOK
<1>2. results[sample] = None /\ ~env[sample].over
  BY <1>1 DEF Inv, PlayInv, Playing
<1>3. env'[sample] = e /\ \A s \in 1 .. Samples : s # sample => env'[s] = env[s]
  BY <1>1
<1>4. PlayInv'
  <2>1. \A s \in 1 .. Samples :
          /\ s > sample' => env'[s] = FreshEnv
          /\ (results'[s] = None) <=> (s > sample' \/ (s = sample' /\ at' # "done"))
    BY <1>1, <1>3 DEF Inv, PlayInv, Playing
  <2>2. e.over => e.reward = Worth(e, goal[sample])
    OBVIOUS
  <2>3. QED
    BY <1>3, <2>1, <2>2 DEF PlayInv, Playing, Worth
<1>5. Status[sample] = "playing"
  BY <1>1, <1>2 DEF Status, Playing
<1>6. Status' = [Status EXCEPT ![sample] = IF e.over THEN "over" ELSE "playing"]
  BY <1>1, <1>2, <1>3 DEF Status, Playing
<1>7. World' = [World EXCEPT ![sample] = e.world] /\ Said' = [Said EXCEPT ![sample] = e.said]
  BY <1>1, <1>3 DEF World, Said
<1>8. Score' = Score
  BY DEF Score
<1>9. QED
  BY <1>4, <1>5, <1>6, <1>7, <1>8

\* What an episode's environment is after each kind of step that changes it.
LEMMA PlaySteps ==
  ASSUME Inv, at \in Playing, at' \in Playing \cup {"return"}, UNCHANGED <<goal, results, sample>>,
         \/ \E w \in Worlds : env' = [env EXCEPT ![sample].world = w]
         \/ \E e \in Heard(env[sample]) : env' = [env EXCEPT ![sample] = e]
  PROVE  PlayInv' /\ Abstract!Play(sample)
<1>1. sample \in 1 .. Samples /\ env \in [1 .. Samples -> Envs]
  BY DEF Inv, TypeOK
<1>2. PICK e \in Envs : /\ env' = [env EXCEPT ![sample] = e]
                        /\ e.world \in Worlds /\ e.said \in {env[sample].said, TRUE}
                        /\ ~e.over /\ e.reward = 0
  <2>1. ~env[sample].over /\ env[sample].reward = 0 /\ env[sample] \in Envs
    BY <1>1 DEF Inv, PlayInv
  <2>2. CASE \E w \in Worlds : env' = [env EXCEPT ![sample].world = w]
    <3>1. PICK w \in Worlds : env' = [env EXCEPT ![sample].world = w]
      BY <2>2
    <3>2. env' = [env EXCEPT ![sample] = [env[sample] EXCEPT !.world = w]]
      BY <3>1, <1>1
    <3> DEFINE e == [env[sample] EXCEPT !.world = w]
    <3>3. /\ e \in Envs /\ e.world = w /\ e.said = env[sample].said
          /\ e.over = env[sample].over /\ e.reward = env[sample].reward
      BY ONLY <2>1, w \in Worlds, WorldTypes
    <3>4. e.world \in Worlds /\ ~e.over /\ e.reward = 0
      BY <2>1, <3>3
    <3> HIDE DEF e
    <3>5. env' = [env EXCEPT ![sample] = e]
      BY <3>2 DEF e
    <3>6. QED
      BY <3>3, <3>4, <3>5
  <2>3. CASE \E e \in Heard(env[sample]) : env' = [env EXCEPT ![sample] = e]
    <3>1. PICK e \in Heard(env[sample]) : env' = [env EXCEPT ![sample] = e]
      BY <2>3
    <3>2. /\ e \in Envs /\ e.world = env[sample].world /\ e.said \in {env[sample].said, TRUE}
          /\ e.over = env[sample].over /\ e.reward = env[sample].reward
      BY ONLY <2>1, e \in Heard(env[sample]), HeardTypes
    <3>3. e.world \in Worlds
      BY <3>2 DEF Envs
    <3>4. QED
      BY <2>1, <3>1, <3>2, <3>3
  <2>4. QED
    BY <2>2, <2>3
<1>3. /\ PlayInv' /\ Status[sample] = "playing"
      /\ Status' = [Status EXCEPT ![sample] = "playing"]
      /\ World' = [World EXCEPT ![sample] = e.world]
      /\ Said' = [Said EXCEPT ![sample] = e.said]
      /\ Score' = Score
  BY <1>2, Played
<1>4. Status' = Status
  BY <1>3, <1>1 DEF Status
<1>5. Said' \in {Said, [Said EXCEPT ![sample] = TRUE]}
  BY <1>1, <1>2, <1>3 DEF Said
<1>6. QED
  BY <1>2, <1>3, <1>4, <1>5 DEF Abstract!Play

\* A step that ends the episode being played.
LEMMA EndSteps ==
  ASSUME Inv, at \in Playing, at' = "return", UNCHANGED <<goal, results, sample>>,
         NEW e \in Heard(env[sample]), env' = [env EXCEPT ![sample] = Over(e, goal[sample])]
  PROVE  PlayInv' /\ Abstract!End(sample)
<1>0. /\ Inv /\ at \in Playing /\ at' = "return" /\ UNCHANGED <<goal, results, sample>>
      /\ env' = [env EXCEPT ![sample] = Over(e, goal[sample])]
  OBVIOUS
<1>1. sample \in 1 .. Samples /\ env \in [1 .. Samples -> Envs] /\ goal[sample] \in Goals
  BY DEF Inv, TypeOK
<1>2. e \in Envs /\ e.world = env[sample].world /\ e.said \in {env[sample].said, TRUE}
  <2>1. env[sample] \in Envs
    BY <1>1
  <2>2. QED
    BY ONLY <2>1, e \in Heard(env[sample]), HeardTypes
<1> DEFINE f == Over(e, goal[sample])
<1>3. /\ f \in Envs /\ f.over /\ f.world = e.world /\ f.said = e.said
      /\ f.reward = Worth(f, goal[sample])
  BY ONLY <1>1, <1>2, OverTypes
<1>4. env' = [env EXCEPT ![sample] = f]
  OBVIOUS
<1> HIDE DEF f
<1>5. /\ PlayInv' /\ Status[sample] = "playing"
      /\ Status' = [Status EXCEPT ![sample] = "over"]
      /\ World' = [World EXCEPT ![sample] = f.world]
      /\ Said' = [Said EXCEPT ![sample] = f.said]
      /\ Score' = Score
  BY ONLY <1>0, <1>3, <1>4, Played
<1>6. World' = World
  BY <1>1, <1>2, <1>3, <1>5 DEF World
<1>7. Said' \in {Said, [Said EXCEPT ![sample] = TRUE]}
  <2>1. Said \in [1 .. Samples -> BOOLEAN] /\ Said[sample] = env[sample].said
    BY ONLY <1>1 DEF Said, Envs
  <2>2. f.said = Said[sample] \/ f.said = TRUE
    BY ONLY <2>1, <1>2, <1>3
  <2>3. CASE f.said = Said[sample]
    BY ONLY <2>1, <2>3, <1>1, <1>5
  <2>4. CASE f.said = TRUE
    BY ONLY <2>4, <1>5
  <2>5. QED
    BY <2>2, <2>3, <2>4
<1>8. QED
  BY <1>5, <1>6, <1>7 DEF Abstract!End

\* The first and the last step of an episode.
LEMMA Begins ==
  ASSUME Inv, Create
  PROVE  PlayInv' /\ Abstract!Begin(sample)
<1>1. /\ at = "create" /\ at' = "request" /\ UNCHANGED <<driver, goal, sample, env, results>>
      /\ sample \in 1 .. Samples
  BY DEF Create, Inv, TypeOK
<1>2. results[sample] = None /\ env[sample] = FreshEnv
  BY <1>1 DEF Inv, PlayInv
<1>3. ~env[sample].over
  BY <1>2 DEF FreshEnv
<1>4. PlayInv'
  BY <1>1, <1>3 DEF Inv, PlayInv, Playing, Worth
<1>5. Status[sample] = "waiting" /\ Status' = [Status EXCEPT ![sample] = "playing"]
  BY <1>1, <1>2, <1>3 DEF Status
<1>6. World' = World /\ Said' = Said /\ Score' = Score
  BY <1>1 DEF World, Said, Score
<1>7. QED
  BY <1>1, <1>4, <1>5, <1>6 DEF Abstract!Begin

\* The driver takes the result of the episode, whether it is over or was cut.
LEMMA Returns ==
  ASSUME Inv, Return
  PROVE  PlayInv' /\ (Abstract!Judge(sample) \/ Abstract!Cut(sample))
<1> DEFINE result == [reward |-> env[sample].reward, error |-> error, contaminated |-> contaminated]
<1>1. /\ sample \in 1 .. Samples /\ Samples \in Nat \ {0}
      /\ results \in [1 .. Samples -> Results \cup {None}]
      /\ env \in [1 .. Samples -> Envs]
      /\ error \in BOOLEAN /\ contaminated \in 0 .. MaxTurns - 1 \cup {None} /\ MaxTurns \in Nat
  BY EpisodeAssumption, Zenon DEF Inv, TypeOK
<1>2. /\ at = "return" /\ results' = [results EXCEPT ![sample] = result]
      /\ UNCHANGED <<goal, env>>
      /\ \/ sample < Samples /\ sample' = sample + 1 /\ at' = "create"
         \/ sample = Samples /\ sample' = sample /\ at' = "done"
  BY <1>1 DEF Return
<1>3. result # None
  <2>1. env[sample].reward \in {0, 1}
    BY <1>1 DEF Envs
  <2>2. result \in [reward : {0, 1}, error : BOOLEAN, contaminated : Int \cup {None}]
    BY <1>1, <2>1
  <2>3. QED
    BY <2>2, EpisodeAssumption, Zenon
<1>4. result.reward = env[sample].reward
  OBVIOUS
<1> HIDE DEF result
<1>5. /\ results[sample] = None
      /\ \A s \in 1 .. Samples : s > sample => env[s] = FreshEnv
      /\ \A s \in 1 .. Samples : (results[s] = None) <=> s >= sample
      /\ ~env[sample].over => env[sample].reward = 0
      /\ env[sample].over => env[sample].reward = Worth(env[sample], goal[sample])
  BY <1>1, <1>2 DEF Inv, PlayInv
<1>6. results'[sample] = result /\ \A s \in 1 .. Samples : s # sample => results'[s] = results[s]
  BY <1>1, <1>2
<1>7. PlayInv'
  <2>1. CASE sample < Samples /\ sample' = sample + 1 /\ at' = "create"
    <3>1. sample' \in 1 .. Samples /\ env[sample'] = FreshEnv
      BY <1>1, <1>5, <2>1
    <3>2. \A s \in 1 .. Samples :
            /\ s > sample' => env'[s] = FreshEnv
            /\ (results'[s] = None) <=> (s > sample' \/ (s = sample' /\ at' # "done"))
      BY <1>1, <1>2, <1>3, <1>5, <1>6, <2>1
    <3>3. env'[sample'] = FreshEnv /\ ~env'[sample'].over /\ env'[sample'].reward = 0
      BY <1>2, <3>1 DEF FreshEnv
    <3>4. QED
      BY <2>1, <3>2, <3>3 DEF PlayInv, Playing
  <2>2. CASE sample = Samples /\ sample' = sample /\ at' = "done"
    <3>1. \A s \in 1 .. Samples :
            /\ s > sample' => env'[s] = FreshEnv
            /\ (results'[s] = None) <=> (s > sample' \/ (s = sample' /\ at' # "done"))
      BY <1>1, <1>2, <1>3, <1>5, <1>6, <2>2
    <3>2. QED
      BY <1>2, <1>5, <2>2, <3>1 DEF PlayInv, Playing, Worth
  <2>3. QED
    BY <1>2, <2>1, <2>2
<1>8. Status[sample] = IF env[sample].over THEN "over" ELSE "playing"
  BY <1>1, <1>2, <1>5 DEF Status
<1>9. Status' = [Status EXCEPT ![sample] = "scored"]
  BY <1>1, <1>2, <1>3, <1>5, <1>6 DEF Status
<1>10. Score' = [Score EXCEPT ![sample] = env[sample].reward]
  BY <1>1, <1>3, <1>4, <1>6 DEF Score
<1>11. World' = World /\ Said' = Said
  BY <1>2 DEF World, Said
<1>12. CASE env[sample].over
  <2>1. env[sample].reward = Abstract!Worth(sample)
    BY <1>1, <1>5, <1>12 DEF Worth, Abstract!Worth, World, Said
  <2>2. Abstract!Judge(sample)
    BY <1>2, <1>8, <1>9, <1>10, <1>11, <1>12, <2>1 DEF Abstract!Judge
  <2>3. QED
    BY <1>7, <2>2
<1>13. CASE ~env[sample].over
  <2>1. Score' = Score
    BY <1>1, <1>5, <1>10, <1>13 DEF Score
  <2>2. Abstract!Cut(sample)
    BY <1>2, <1>8, <1>9, <1>11, <1>13, <2>1 DEF Abstract!Cut
  <2>3. QED
    BY <1>7, <2>2
<1>14. QED
  BY <1>12, <1>13

\* Every step keeps PlayInv and is a step of Episode or none.
LEMMA PlayStep == Inv /\ [Next]_vars => PlayInv' /\ [Abstract!Next]_(Abstract!vars)
<1>1. SUFFICES ASSUME Inv, [Next]_vars PROVE PlayInv' /\ [Abstract!Next]_(Abstract!vars)
  OBVIOUS
<1>2. sample \in 1 .. Samples
  BY <1>1 DEF Inv, TypeOK
<1>3. CASE Create
  BY <1>1, <1>2, <1>3, Begins DEF Abstract!Next
<1>4. CASE Return
  BY <1>1, <1>2, <1>4, Returns DEF Abstract!Next
<1>5. CASE Act
  <2>1. /\ at = "calls" /\ at' \in Playing /\ UNCHANGED <<goal, results, sample>>
        /\ \E w \in Worlds : env' = [env EXCEPT ![sample].world = w]
    BY <1>5 DEF Act, Calling, Answered, Playing
  <2>2. PlayInv' /\ Abstract!Play(sample)
    BY <1>1, <2>1, PlaySteps DEF Playing
  <2>3. QED
    BY <1>2, <2>2 DEF Abstract!Next
<1>6. CASE UserAnswers
  <2>1. /\ at = "reply" /\ at' \in Playing /\ UNCHANGED <<goal, results, sample>>
        /\ \E e \in Heard(env[sample]) : env' = [env EXCEPT ![sample] = e]
    BY <1>6 DEF UserAnswers, Playing
  <2>2. PlayInv' /\ Abstract!Play(sample)
    BY <1>1, <2>1, PlaySteps DEF Playing
  <2>3. QED
    BY <1>2, <2>2 DEF Abstract!Next
<1>7. CASE UserRaises
  <2>1. /\ at = "reply" /\ at' = "return" /\ UNCHANGED <<goal, results, sample>>
        /\ \E e \in Heard(env[sample]) : env' = [env EXCEPT ![sample] = e]
    BY <1>7 DEF UserRaises, Raise
  <2>2. PlayInv' /\ Abstract!Play(sample)
    BY <1>1, <2>1, PlaySteps DEF Playing
  <2>3. QED
    BY <1>2, <2>2 DEF Abstract!Next
<1>8. CASE Transfer
  <2>1. env[sample] \in Heard(env[sample])
    BY DEF Heard
  <2>2. /\ at = "calls" /\ at' = "return" /\ UNCHANGED <<goal, results, sample>>
        /\ env' = [env EXCEPT ![sample] = Over(env[sample], goal[sample])]
    BY <1>8 DEF Transfer, Calling
  <2>3. PlayInv' /\ Abstract!End(sample)
    BY <1>1, <2>1, <2>2, EndSteps DEF Playing
  <2>4. QED
    BY <1>2, <2>3 DEF Abstract!Next
<1>9. CASE UserStops
  <2>1. /\ at = "reply" /\ at' = "return" /\ UNCHANGED <<goal, results, sample>>
        /\ \E e \in Heard(env[sample]) : env' = [env EXCEPT ![sample] = Over(e, goal[sample])]
    BY <1>9 DEF UserStops
  <2>2. PlayInv' /\ Abstract!End(sample)
    BY <1>1, <2>1, EndSteps DEF Playing
  <2>3. QED
    BY <1>2, <2>2 DEF Abstract!Next
<1>10. CASE \/ ResetRaises \/ PolicyAnswers \/ PolicyRaises \/ TurnsSpent
            \/ BadArguments \/ BrokenCall
  <2>1. /\ UNCHANGED <<goal, env, results, sample>> /\ at # "done" /\ at' # "done"
        /\ (at \in Waiting) <=> (at' \in Waiting)
        /\ at' \in Playing => at \in Playing \cup Waiting
    BY <1>10 DEF ResetRaises, PolicyAnswers, PolicyRaises, TurnsSpent, BadArguments, BrokenCall,
                Calling, Answered, Raise, play, Waiting, Playing
  <2>2. QED
    BY <1>1, <2>1, Quiet
<1>11. CASE UNCHANGED vars
  <2>1. UNCHANGED <<goal, env, results, sample, at>>
    BY <1>11 DEF vars
  <2>2. PlayInv'
    BY <1>1, <2>1 DEF Inv, PlayInv, Worth
  <2>3. UNCHANGED Abstract!vars
    BY <2>1 DEF Abstract!vars, Status, World, Said, Score
  <2>4. QED
    BY <2>2, <2>3
<1>12. QED
  BY <1>1, <1>3, <1>4, <1>5, <1>6, <1>7, <1>8, <1>9, <1>10, <1>11 DEF Next

\* The initial states are initial states of Episode.
LEMMA InitMaps == Init => Abstract!Init
<1>1. SUFFICES ASSUME Init PROVE Abstract!Init
  OBVIOUS
<1>2. FreshEnv.world = FreshWorld /\ FreshEnv.said = FALSE
  BY DEF FreshEnv
<1>3. /\ Status = [s \in 1 .. Samples |-> "waiting"]
      /\ World = [s \in 1 .. Samples |-> FreshWorld]
      /\ Said = [s \in 1 .. Samples |-> FALSE]
      /\ Score = [s \in 1 .. Samples |-> 0]
  BY <1>1, <1>2 DEF Init, Status, World, Said, Score
<1>4. QED
  BY <1>1, <1>3 DEF Init, Abstract!Init

\* EpisodeSpec: both drivers implement Episode.
THEOREM DriversKeepPromise == Spec => EpisodeSpec
<1>1. Init => Inv
  BY InitTypes, InitPlay DEF Inv
<1>2. Inv /\ [Next]_vars => Inv'
  BY Types, PlayStep DEF Inv
<1>3. Inv /\ [Next]_vars => [Abstract!Next]_(Abstract!vars)
  BY PlayStep
<1>4. QED
  BY <1>1, <1>2, <1>3, InitMaps, PTL DEF Spec, EpisodeSpec, Abstract!Spec

-----------------------------------------------------------------------------
(* What is sent of a conversation                                          *)

Messages == [role : {"system", "user", "assistant", "tool"}, text : Nat, extra : Nat]

\* The length of a message.
LEMMA MessageChars ==
  ASSUME NEW m \in Messages
  PROVE  Chars(m) \in Nat /\ m.text \in Nat /\ m.extra \in Nat /\ Chars(m) = m.text + m.extra
  BY DEF Messages, Chars

\* The length of a conversation is a sum over its messages,
LEMMA CharsAre ==
  ASSUME NEW s, s \in Seq(Messages)
  PROVE  CharsOf(s) = Valued(s, [m \in Messages |-> Chars(m)]) /\ CharsOf(s) \in Nat
<1> DEFINE f == [i \in DOMAIN s |-> Chars(s[i])]
<1>1. DOMAIN f = 1 .. Len(s) /\ Len(s) \in Nat /\ \A i \in DOMAIN s : s[i] \in Messages
  OBVIOUS
<1>2. \A i \in DOMAIN f : f[i] \in Nat
  BY <1>1, MessageChars
<1>3. f = [i \in DOMAIN s |-> [m \in Messages |-> Chars(m)][s[i]]]
  BY <1>1
<1>4. CharsOf(s) = SumFunctionOnSet(f, DOMAIN f)
  BY DEF CharsOf, SumFunction
<1> HIDE DEF f
<1>5. SumFunctionOnSet(f, DOMAIN f) \in Nat
  BY <1>1, <1>2, FiniteIndices, SumIsNat
<1>6. QED
  BY <1>3, <1>4, <1>5 DEF Valued, SumFunction

\* a number,
LEMMA CharsAreNat == \A s \in Seq(Messages) : CharsOf(s) \in Nat
  BY CharsAre

\* that adds up when conversations are joined,
LEMMA CharsJoined ==
  ASSUME NEW s, NEW t, s \in Seq(Messages), t \in Seq(Messages)
  PROVE  s \o t \in Seq(Messages) /\ CharsOf(s \o t) = CharsOf(s) + CharsOf(t)
<1> DEFINE v == [m \in Messages |-> Chars(m)]
<1>1. s \o t \in Seq(Messages)
  OBVIOUS
<1>2. v \in [Messages -> Int]
  BY MessageChars
<1>3. \A u \in Seq(Messages) : CharsOf(u) = Valued(u, v)
  BY CharsAre
<1> HIDE DEF v
<1>4. Valued(s \o t, v) = Valued(s, v) + Valued(t, v)
  BY <1>2, ValuedJoin
<1>5. QED
  BY <1>1, <1>3, <1>4

\* and is that of the message for a single one.
LEMMA CharsOfOne ==
  ASSUME NEW m \in Messages
  PROVE  <<m>> \in Seq(Messages) /\ CharsOf(<<m>>) = Chars(m)
<1> DEFINE s == <<m>>
           f == [i \in DOMAIN s |-> Chars(s[i])]
<1>1. s \in Seq(Messages) /\ DOMAIN f = {1} /\ f[1] = Chars(m)
  OBVIOUS
<1>2. CharsOf(s) = SumFunctionOnSet(f, DOMAIN f)
  BY DEF CharsOf, SumFunction
<1> HIDE DEF f, s
<1>3. f[1] \in Int
  BY <1>1, MessageChars
<1>4. SumFunctionOnSet(f, {1}) = f[1]
  BY <1>3, SumOfOne
<1>5. QED
  BY <1>1, <1>2, <1>4 DEF s

\* The last n messages, and one more.
Newest(s, n) == SubSeq(s, Len(s) - n + 1, Len(s))

\* The messages these are.
LEMMA NewestOf ==
  ASSUME NEW s, s \in Seq(Messages), NEW n \in 0 .. Len(s)
  PROVE  /\ Newest(s, n) \in Seq(Messages) /\ Len(Newest(s, n)) = n
         /\ \A i \in 1 .. n : Newest(s, n)[i] = s[Len(s) - n + i]
  BY DEF Newest

\* Sequences of the same messages are the same.
LEMMA SameMessages ==
  ASSUME NEW s, NEW t, s \in Seq(Messages), t \in Seq(Messages), Len(s) = Len(t),
         \A i \in 1 .. Len(s) : s[i] = t[i]
  PROVE  s = t
  OBVIOUS

\* The last n + 1 messages are one more than the last n.
LEMMA OneMore ==
  ASSUME NEW s, s \in Seq(Messages), NEW n \in 0 .. Len(s), n < Len(s)
  PROVE  /\ s[Len(s) - n] \in Messages
         /\ Newest(s, n + 1) = <<s[Len(s) - n]>> \o Newest(s, n)
         /\ CharsOf(Newest(s, n + 1)) = Chars(s[Len(s) - n]) + CharsOf(Newest(s, n))
         /\ n + 1 \in 0 .. Len(s)
<1> DEFINE m == s[Len(s) - n]
           t == Newest(s, n)
           u == Newest(s, n + 1)
           j == <<m>> \o t
<1>1. /\ m \in Messages /\ n + 1 \in 0 .. Len(s) /\ n \in Nat /\ Len(s) \in Nat
  OBVIOUS
<1>2. /\ t \in Seq(Messages) /\ Len(t) = n /\ \A i \in 1 .. n : t[i] = s[Len(s) - n + i]
      /\ u \in Seq(Messages) /\ Len(u) = n + 1
      /\ \A i \in 1 .. n + 1 : u[i] = s[Len(s) - (n + 1) + i]
  BY <1>1, NewestOf
<1> HIDE DEF m, t, u
<1>3. <<m>> \in Seq(Messages) /\ CharsOf(<<m>>) = Chars(m)
  BY <1>1, CharsOfOne
<1>4. j \in Seq(Messages) /\ CharsOf(j) = Chars(m) + CharsOf(t)
  <2> DEFINE one == <<m>>
  <2>1. one \in Seq(Messages) /\ CharsOf(one) = Chars(m) /\ j = one \o t
    BY <1>3
  <2> HIDE DEF one, j
  <2>2. QED
    BY <1>2, <2>1, CharsJoined
<1>5. Len(j) = n + 1 /\ j[1] = m /\ \A i \in 2 .. n + 1 : j[i] = t[i - 1]
  BY <1>1, <1>2
<1>6. \A i \in 1 .. n + 1 : u[i] = j[i]
  <2>1. u[1] = m
    BY <1>1, <1>2 DEF m
  <2>2. ASSUME NEW i \in 2 .. n + 1
        PROVE  u[i] = t[i - 1]
    <3>1. i \in 1 .. n + 1 /\ i - 1 \in 1 .. n /\ Len(s) - n + (i - 1) = Len(s) - (n + 1) + i
      BY <1>1
    <3>2. QED
      BY ONLY <1>2, <3>1
  <2> HIDE DEF j
  <2>3. \A i \in 1 .. n + 1 : i = 1 \/ i \in 2 .. n + 1
    BY <1>1
  <2>4. QED
    BY ONLY <1>5, <2>1, <2>2, <2>3
<1> HIDE DEF j
<1>7. u = j
  BY ONLY <1>2, <1>4, <1>5, <1>6, SameMessages
<1>8. QED
  BY <1>1, <1>4, <1>7 DEF m, t, u, j

\* The last n messages have no fewer characters than fewer of them.
LEMMA MoreChars ==
  ASSUME NEW s, s \in Seq(Messages), NEW k \in 0 .. Len(s), NEW n \in 0 .. Len(s), k <= n
  PROVE  CharsOf(Newest(s, k)) <= CharsOf(Newest(s, n))
<1>1. Len(s) \in Nat /\ \A i \in 0 .. Len(s) : CharsOf(Newest(s, i)) \in Nat
  <2>1. \A i \in 0 .. Len(s) : Newest(s, i) \in Seq(Messages)
    BY NewestOf
  <2>2. \A i \in 0 .. Len(s) : CharsOf(Newest(s, i)) \in Nat
    BY ONLY <2>1, CharsAreNat
  <2>3. QED
    BY <2>2
<1> DEFINE Good == {i \in 0 .. Len(s) : k <= i => CharsOf(Newest(s, k)) <= CharsOf(Newest(s, i))}
<1>2. 0 \in Good
  BY <1>1
<1>3. ASSUME NEW i \in 0 .. Len(s), i < Len(s), i \in Good
      PROVE  i + 1 \in Good
  <2>1. CharsOf(Newest(s, i + 1)) = Chars(s[Len(s) - i]) + CharsOf(Newest(s, i))
        /\ Chars(s[Len(s) - i]) \in Nat /\ i + 1 \in 0 .. Len(s)
    BY <1>3, OneMore, MessageChars
  <2>2. CASE k <= i
    BY <1>1, <1>3, <2>1, <2>2
  <2>3. CASE ~(k <= i)
    BY <1>1, <2>1, <2>3
  <2>4. QED
    BY <2>2, <2>3
<1> HIDE DEF Good
<1>4. \A i \in 0 .. Len(s) : i \in Good
  BY ONLY <1>1, <1>2, <1>3, UpTo
<1>5. QED
  BY <1>4 DEF Good

\* The walk is well defined: there is a function its recursion describes.
Start(b) == [kept |-> <<>>, budget |-> b, stopped |-> FALSE]
Walks(w, s, b) ==
  w = [n \in 0 .. Len(s) |-> IF n = 0 THEN [kept |-> <<>>, budget |-> b, stopped |-> FALSE]
                             ELSE Visit(s[Len(s) + 1 - n], w[n - 1])]
WalkOf(s, b) == CHOOSE w : Walks(w, s, b)

\* Walk takes what the walk over all messages has kept.
LEMMA WalkIs ==
  ASSUME NEW s, NEW b
  PROVE  Walk(s, b) = WalkOf(s, b)[Len(s)].kept
  BY DEF Walk, WalkOf, Walks

\* Its function starts with nothing kept and visits the messages from the newest back.
LEMMA WalkExists ==
  ASSUME NEW s, Len(s) \in Nat, NEW b
  PROVE  LET w == WalkOf(s, b)
         IN  /\ w[0] = Start(b)
             /\ \A n \in 0 .. Len(s) : n < Len(s) => w[n + 1] = Visit(s[Len(s) - n], w[n])
<1> DEFINE N == Len(s)
           Upto(w, n) == /\ DOMAIN w = 0 .. n /\ w[0] = Start(b)
                         /\ \A k \in 1 .. n : w[k] = Visit(s[N + 1 - k], w[k - 1])
           Good == {n \in 0 .. N : \E w : Upto(w, n)}
<1>1. N \in Nat
  OBVIOUS
<1>2. 0 \in Good
  <2> DEFINE w == [k \in 0 .. 0 |-> Start(b)]
  <2>1. Upto(w, 0)
    OBVIOUS
  <2> HIDE DEF Upto, w
  <2>2. QED
    BY <1>1, <2>1
<1>3. ASSUME NEW n \in 0 .. N, n < N, n \in Good
      PROVE  n + 1 \in Good
  <2>1. PICK w : Upto(w, n)
    BY <1>3
  <2> DEFINE x == [k \in 0 .. n + 1 |-> IF k <= n THEN w[k] ELSE Visit(s[N - n], w[n])]
  <2>2. n \in Nat /\ n + 1 \in 0 .. N /\ N + 1 - (n + 1) = N - n
    BY <1>1, <1>3
  <2>3. /\ DOMAIN x = 0 .. n + 1 /\ \A k \in 0 .. n : x[k] = w[k]
        /\ x[n + 1] = Visit(s[N - n], w[n])
    BY <2>2
  <2> HIDE DEF N, x
  <2>4. ASSUME NEW k \in 1 .. n + 1
        PROVE  x[k] = Visit(s[N + 1 - k], x[k - 1])
    <3>1. CASE k <= n
      <4>1. k \in 1 .. n /\ k \in 0 .. n /\ k - 1 \in 0 .. n
        BY <2>2, <3>1
      <4>2. QED
        BY <2>1, <2>3, <4>1
    <3>2. CASE ~(k <= n)
      <4>1. k = n + 1 /\ k - 1 = n /\ n \in 0 .. n
        BY <2>2, <3>2
      <4>2. QED
        BY <2>2, <2>3, <4>1
    <3>3. QED
      BY <3>1, <3>2
  <2>5. x[0] = Start(b)
    BY <2>1, <2>2, <2>3
  <2>6. Upto(x, n + 1)
    BY <2>3, <2>4, <2>5
  <2> HIDE DEF Upto
  <2>7. QED
    BY <2>2, <2>6
<1>4. N \in Good
  <2> HIDE DEF Good, N
  <2>1. \A n \in 0 .. N : n \in Good
    BY ONLY <1>1, <1>2, <1>3, UpTo
  <2>2. QED
    BY <1>1, <2>1
<1>5. PICK x : Upto(x, N)
  BY <1>4
<1> HIDE DEF Good
<1> DEFINE w == [n \in 0 .. N |-> x[n]]
<1>6. \A n \in 0 .. N : w[n] = x[n] /\ (n # 0 => n \in 1 .. N /\ n - 1 \in 0 .. N /\ w[n - 1] = x[n - 1])
  BY <1>1
<1>7. w = [n \in 0 .. N |-> IF n = 0 THEN Start(b) ELSE Visit(s[N + 1 - n], w[n - 1])]
  <2>1. \A n \in 0 .. N : w[n] = IF n = 0 THEN Start(b) ELSE Visit(s[N + 1 - n], w[n - 1])
    <3> HIDE DEF N, w
    <3>1. QED
      BY ONLY <1>5, <1>6
  <2>2. w = [n \in 0 .. N |-> w[n]]
    OBVIOUS
  <2> HIDE DEF w, N
  <2>3. QED
    BY ONLY <2>1, <2>2
<1>8. Walks(w, s, b)
  <2> HIDE DEF w
  <2>1. QED
    BY <1>7 DEF Walks, Start, N
<1> HIDE DEF w
<1>9. Walks(WalkOf(s, b), s, b)
  BY <1>8 DEF WalkOf
<1> DEFINE z == WalkOf(s, b)
<1> HIDE DEF z
<1>10. z = [n \in 0 .. N |-> IF n = 0 THEN Start(b) ELSE Visit(s[N + 1 - n], z[n - 1])]
  BY <1>9 DEF Walks, Start, z, N
<1> HIDE DEF N
<1>11. z[0] = Start(b)
  BY ONLY <1>1, <1>10
<1>12. ASSUME NEW n \in 0 .. N, n < N
       PROVE  z[n + 1] = Visit(s[N - n], z[n])
  <2>1. n + 1 \in 0 .. N /\ n + 1 # 0 /\ N + 1 - (n + 1) = N - n /\ (n + 1) - 1 = n
    BY <1>1, <1>12
  <2>2. QED
    BY ONLY <1>10, <2>1
<1>13. QED
  BY <1>11, <1>12 DEF z, N

\* The last none and the last of all.
LEMMA NoneNewest ==
  ASSUME NEW s, s \in Seq(Messages)
  PROVE  Newest(s, 0) = <<>> /\ CharsOf(Newest(s, 0)) = 0 /\ Newest(s, Len(s)) = s
<1>1. Newest(s, 0) = <<>> /\ Newest(s, Len(s)) = s
  <2>1. Newest(s, 0) \in Seq(Messages) /\ Len(Newest(s, 0)) = 0
    BY NewestOf
  <2>2. /\ Newest(s, Len(s)) \in Seq(Messages) /\ Len(Newest(s, Len(s))) = Len(s)
        /\ \A i \in 1 .. Len(s) : Newest(s, Len(s))[i] = s[Len(s) - Len(s) + i]
    BY NewestOf
  <2>3. \A i \in 1 .. Len(s) : Len(s) - Len(s) + i = i
    OBVIOUS
  <2>4. Newest(s, Len(s)) = s
    BY <2>2, <2>3, SameMessages
  <2>5. QED
    BY <2>1, <2>4
<1>2. CharsOf(<<>>) = 0
  <2> DEFINE f == [i \in DOMAIN <<>> |-> Chars(<<>>[i])]
  <2>1. DOMAIN f = {} /\ CharsOf(<<>>) = SumFunctionOnSet(f, DOMAIN f)
    BY DEF CharsOf, SumFunction
  <2> HIDE DEF f
  <2>2. QED
    BY <2>1, SumOfNone
<1>3. QED
  BY <1>1, <1>2

\* Where the walk stopped: the last k messages fit, one more does not.
Stopped(kept, s, b, k) ==
  /\ CharsOf(Newest(s, k)) <= b /\ CharsOf(Newest(s, k + 1)) > b
  /\ kept = IF k = 0 THEN <<Clip(s[Len(s)], b)>> ELSE Newest(s, k)

\* The walk keeps everything if it fits, and stops at the first message that does not.
LEMMA WalkFits ==
  ASSUME NEW s, s \in Seq(Messages), NEW b \in Nat
  PROVE  \/ CharsOf(s) <= b /\ Walk(s, b) = s
         \/ \E k \in 0 .. Len(s) : k < Len(s) /\ Stopped(Walk(s, b), s, b, k)
<1> DEFINE w == WalkOf(s, b)
           Going(n) == /\ w[n].stopped = FALSE /\ w[n].kept = Newest(s, n)
                       /\ w[n].budget = b - CharsOf(Newest(s, n)) /\ w[n].budget \in Nat
           Ended(n) == /\ w[n].stopped = TRUE
                       /\ \E k \in 0 .. Len(s) : k < Len(s) /\ Stopped(w[n].kept, s, b, k)
           Good == {n \in 0 .. Len(s) : Going(n) \/ Ended(n)}
<1>1. /\ Len(s) \in Nat
      /\ w[0] = Start(b)
      /\ \A n \in 0 .. Len(s) : n < Len(s) => w[n + 1] = Visit(s[Len(s) - n], w[n])
  <2>1. Len(s) \in Nat
    OBVIOUS
  <2>2. QED
    BY <2>1, WalkExists
<1> HIDE DEF w
<1>2. 0 \in Good
  <2>1. Going(0)
    BY <1>1, NoneNewest DEF Start
  <2>2. QED
    BY <1>1, <2>1
<1>3. ASSUME NEW n \in 0 .. Len(s), n < Len(s), n \in Good
      PROVE  n + 1 \in Good
  <2> DEFINE m == s[Len(s) - n]
  <2>1. /\ m \in Messages /\ Newest(s, n + 1) = <<m>> \o Newest(s, n)
        /\ CharsOf(Newest(s, n + 1)) = Chars(m) + CharsOf(Newest(s, n))
        /\ n + 1 \in 0 .. Len(s) /\ w[n + 1] = Visit(m, w[n])
    BY <1>1, <1>3, OneMore
  <2>2. Chars(m) \in Nat /\ CharsOf(Newest(s, n)) \in Nat
    BY <2>1, MessageChars, NewestOf, CharsAreNat
  <2>3. Going(n) \/ Ended(n)
    BY <1>3
  <2>4. CASE Ended(n)
    <3>1. w[n + 1] = w[n]
      BY <2>1, <2>4 DEF Visit
    <3>2. QED
      BY <2>1, <2>4, <3>1
  <2>5. CASE Going(n) /\ Chars(m) <= w[n].budget
    <3>1. w[n + 1] = [kept |-> <<m>> \o w[n].kept, budget |-> w[n].budget - Chars(m), stopped |-> FALSE]
      BY <2>1, <2>5 DEF Visit
    <3>2. Going(n + 1)
      <4> HIDE DEF m
      <4>1. /\ w[n + 1].stopped = FALSE /\ w[n + 1].kept = <<m>> \o w[n].kept
            /\ w[n + 1].budget = w[n].budget - Chars(m)
        BY <3>1
      <4>2. w[n + 1].kept = Newest(s, n + 1)
        BY <2>1, <2>5, <4>1
      <4>3. w[n].budget = b - CharsOf(Newest(s, n)) /\ w[n].budget \in Nat /\ Chars(m) <= w[n].budget
        BY <2>5
      <4>4. w[n + 1].budget = b - CharsOf(Newest(s, n + 1)) /\ w[n + 1].budget \in Nat
        BY ONLY <2>1, <2>2, <4>1, <4>3, b \in Nat
      <4>5. QED
        BY <4>1, <4>2, <4>4
    <3>3. QED
      BY <2>1, <3>2
  <2>6. CASE Going(n) /\ ~(Chars(m) <= w[n].budget)
    <3> DEFINE kept == IF w[n].kept = <<>> THEN <<Clip(m, w[n].budget)>> ELSE w[n].kept
    <3>1. w[n + 1] = [kept |-> kept, budget |-> w[n].budget, stopped |-> TRUE]
      BY <2>1, <2>6 DEF Visit
    <3>2. w[n + 1].kept = kept /\ w[n + 1].stopped = TRUE
      BY <3>1
    <3>3. CharsOf(Newest(s, n)) <= b /\ CharsOf(Newest(s, n + 1)) > b
      BY <2>1, <2>2, <2>6
    <3>4. kept = IF n = 0 THEN <<Clip(s[Len(s)], b)>> ELSE Newest(s, n)
      <4>1. CASE n = 0
        <5>1. w[n].kept = <<>> /\ w[n].budget = b /\ m = s[Len(s)]
          BY <1>1, <2>6, <4>1, NoneNewest
        <5>2. QED
          BY <4>1, <5>1
      <4>2. CASE n # 0
        <5>1. Newest(s, n) \in Seq(Messages) /\ Len(Newest(s, n)) = n
          BY NewestOf
        <5>2. Newest(s, n) # <<>>
          BY <4>2, <5>1
        <5>3. QED
          BY <2>6, <4>2, <5>2
      <4>3. QED
        BY <4>1, <4>2
    <3> HIDE DEF kept
    <3>5. Stopped(w[n + 1].kept, s, b, n)
      BY <3>2, <3>3, <3>4 DEF Stopped
    <3>6. QED
      BY <1>3, <2>1, <3>2, <3>5
  <2>7. QED
    BY <2>3, <2>4, <2>5, <2>6
<1>4. Len(s) \in Good
  <2> HIDE DEF Good
  <2>1. \A n \in 0 .. Len(s) : n \in Good
    BY ONLY <1>1, <1>2, <1>3, UpTo
  <2>2. QED
    BY <1>1, <2>1
<1>5. Walk(s, b) = w[Len(s)].kept
  BY WalkIs DEF w
<1>6. CASE Going(Len(s))
  <2>1. CharsOf(s) \in Nat
    BY CharsAreNat
  <2>2. QED
    BY <1>5, <1>6, <2>1, NoneNewest
<1>7. CASE Ended(Len(s))
  BY <1>5, <1>7
<1>8. QED
  BY <1>4, <1>6, <1>7

-----------------------------------------------------------------------------
(* The conversation                                                        *)

\* A conversation begins with the system prompt and a message of the user.
Opened ==
  at \in Playing =>
    /\ messages \in Seq(Messages) /\ Len(messages) >= 2
    /\ messages[1] = Message("system", System, 0) /\ messages[2].extra = 0

\* What a step does to it: it is begun, left alone, or grows by a message.
LEMMA Grows ==
  ASSUME TypeOK, [Next]_vars
  PROVE  \/ Create
         \/ messages' = messages /\ (at' \in Playing => at \in Playing)
         \/ at \in Playing /\ \E m \in Messages : messages' = Append(messages, m)
<1>0. /\ UserTexts \subseteq Nat /\ ToolTexts \subseteq Nat /\ ToolExtra \in Nat
      /\ \A m \in PolicyMessages : m.text \in Nat /\ m.extra \in Nat
  BY EpisodeAssumption, Zenon
<1>1. \A text \in Nat, extra \in Nat :
        /\ Message("user", text, extra) \in Messages
        /\ Message("tool", text, extra) \in Messages
        /\ Message("assistant", text, extra) \in Messages
  BY DEF Message, Messages
<1>2. CASE \/ ResetRaises \/ PolicyRaises \/ TurnsSpent \/ BrokenCall
           \/ UserStops \/ UserRaises \/ Return \/ UNCHANGED vars
  BY <1>2 DEF ResetRaises, PolicyRaises, TurnsSpent, BrokenCall, UserStops, UserRaises, Return, vars,
              play, Raise, Calling, Playing
<1>3. CASE PolicyAnswers
  <2>1. PICK m \in PolicyMessages :
          messages' = Append(messages, Message("assistant", m.text, m.extra))
    BY <1>3 DEF PolicyAnswers
  <2>2. Message("assistant", m.text, m.extra) \in Messages
    BY <1>0, <1>1
  <2>3. QED
    BY <1>3, <2>1, <2>2 DEF PolicyAnswers, Playing
<1>4. CASE BadArguments \/ Act \/ Transfer
  <2>1. PICK text \in ToolTexts : messages' = Append(messages, Message("tool", text, ToolExtra))
    BY <1>4 DEF BadArguments, Act, Transfer, Answered
  <2>2. Message("tool", text, ToolExtra) \in Messages
    BY <1>0, <1>1
  <2>3. at \in Playing
    BY <1>4 DEF BadArguments, Act, Transfer, Calling, Playing
  <2>4. QED
    BY <2>1, <2>2, <2>3
<1>5. CASE UserAnswers
  <2>1. PICK text \in UserTexts : messages' = Append(messages, Message("user", text, 0))
    BY <1>5 DEF UserAnswers
  <2>2. Message("user", text, 0) \in Messages
    BY <1>0, <1>1
  <2>3. QED
    BY <1>5, <2>1, <2>2 DEF UserAnswers, Playing
<1>6. QED
  BY <1>2, <1>3, <1>4, <1>5 DEF Next

\* Every step keeps the first two messages.
LEMMA OpenedStep == TypeOK /\ Opened /\ [Next]_vars => Opened'
<1> SUFFICES ASSUME TypeOK, Opened, [Next]_vars PROVE Opened'
  OBVIOUS
<1>1. CASE Create
  <2>1. PICK text \in UserTexts :
          messages' = <<Message("system", System, 0), Message("user", text, 0)>>
    BY <1>1 DEF Create
  <2>2. text \in Nat /\ System \in Nat
    BY EpisodeAssumption, Zenon
  <2>3. Message("system", System, 0) \in Messages /\ Message("user", text, 0) \in Messages
        /\ Message("user", text, 0).extra = 0
    BY <2>2 DEF Message, Messages
  <2>4. QED
    BY <2>1, <2>3 DEF Opened
<1>2. CASE messages' = messages /\ (at' \in Playing => at \in Playing)
  BY <1>2 DEF Opened
<1>3. CASE at \in Playing /\ \E m \in Messages : messages' = Append(messages, m)
  <2>1. PICK m \in Messages : messages' = Append(messages, m)
    BY <1>3
  <2>2. /\ messages \in Seq(Messages) /\ Len(messages) >= 2
        /\ messages[1] = Message("system", System, 0) /\ messages[2].extra = 0
    BY <1>3 DEF Opened
  <2>3. messages' \in Seq(Messages) /\ Len(messages') >= 2
        /\ messages'[1] = messages[1] /\ messages'[2] = messages[2]
    BY <2>1, <2>2
  <2>4. QED
    BY <2>2, <2>3 DEF Opened
<1>4. QED
  BY <1>1, <1>2, <1>3, Grows

LEMMA AlwaysOpened == Spec => [](TypeOK /\ Opened)
<1>1. Init => Opened
  BY DEF Init, Opened, Playing
<1>2. QED
  BY <1>1, OpenedStep, InitTypes, Types, PTL DEF Spec

-----------------------------------------------------------------------------
(* Truncation                                                              *)

\* A conversation of the system prompt and at least one more message.
Begun(ms) == ms \in Seq(Messages) /\ Len(ms) >= 2 /\ ms[1] = Message("system", System, 0)

\* The system prompt before the last n of the other messages.
LEMMA Prompted ==
  ASSUME NEW ms, Begun(ms), NEW n \in 0 .. Len(ms) - 1
  PROVE  /\ Tail(ms) \in Seq(Messages) /\ Len(Tail(ms)) = Len(ms) - 1
         /\ Newest(ms, n) = Newest(Tail(ms), n)
         /\ Chars(ms[1]) = System
         /\ CharsOf(<<ms[1]>> \o Newest(ms, n)) = System + CharsOf(Newest(Tail(ms), n))
<1> DEFINE t == Tail(ms)
<1>1. /\ t \in Seq(Messages) /\ Len(ms) \in Nat /\ Len(t) = Len(ms) - 1 /\ ms[1] \in Messages
      /\ \A i \in 1 .. Len(t) : t[i] = ms[i + 1]
      /\ ms \in Seq(Messages) /\ Len(ms) >= 2
  BY DEF Begun
<1> HIDE DEF t
<1>2. /\ n \in 0 .. Len(t) /\ n \in 0 .. Len(ms)
  BY <1>1
<1>3. /\ Newest(t, n) \in Seq(Messages) /\ Len(Newest(t, n)) = n
      /\ \A i \in 1 .. n : Newest(t, n)[i] = t[Len(t) - n + i]
  BY ONLY <1>1, <1>2, NewestOf
<1>4. /\ Newest(ms, n) \in Seq(Messages) /\ Len(Newest(ms, n)) = n
      /\ \A i \in 1 .. n : Newest(ms, n)[i] = ms[Len(ms) - n + i]
  BY ONLY <1>1, <1>2, NewestOf
<1>5. ASSUME NEW i \in 1 .. n
      PROVE  t[Len(t) - n + i] = ms[Len(ms) - n + i]
  <2>1. Len(t) - n + i \in 1 .. Len(t) /\ (Len(t) - n + i) + 1 = Len(ms) - n + i
    BY <1>1, <1>2
  <2>2. QED
    BY ONLY <1>1, <2>1
<1>6. Newest(ms, n) = Newest(t, n)
  BY ONLY <1>3, <1>4, <1>5, SameMessages
<1>7. Chars(ms[1]) = System
  <2>1. System \in Nat
    BY EpisodeAssumption, Zenon
  <2>2. QED
    BY <2>1 DEF Begun, Message, Chars
<1> DEFINE one == <<ms[1]>>
<1>8. one \in Seq(Messages) /\ CharsOf(one) = System
  BY <1>1, <1>7, CharsOfOne
<1> HIDE DEF one
<1>9. CharsOf(one \o Newest(ms, n)) = System + CharsOf(Newest(t, n))
  BY ONLY <1>4, <1>6, <1>8, CharsJoined
<1>10. QED
  BY <1>1, <1>6, <1>7, <1>9 DEF t, one

\* The whole conversation.
LEMMA WholeIs ==
  ASSUME NEW ms, Begun(ms)
  PROVE  /\ CharsOf(ms) = System + CharsOf(Tail(ms))
         /\ CharsOf(Tail(ms)) \in Nat /\ System \in Nat /\ Limit \in Nat
<1> DEFINE n == Len(ms) - 1
           t == Tail(ms)
<1>1. n \in 0 .. Len(ms) - 1 /\ ms \in Seq(Messages) /\ ms = <<ms[1]>> \o t
  BY DEF Begun
<1> HIDE DEF n
<1>2. /\ t \in Seq(Messages) /\ Len(t) = n /\ Newest(ms, n) = Newest(t, n)
      /\ CharsOf(<<ms[1]>> \o Newest(ms, n)) = System + CharsOf(Newest(t, n))
  BY <1>1, Prompted DEF n
<1> HIDE DEF t
<1>3. Newest(t, n) = t
  BY ONLY <1>2, NoneNewest
<1>4. CharsOf(t) \in Nat
  BY ONLY <1>2, CharsAreNat
<1>5. System \in Nat /\ Limit \in Nat
  BY EpisodeAssumption, Zenon
<1>6. CharsOf(ms) = System + CharsOf(t)
  BY ONLY <1>1, <1>2, <1>3
<1>7. QED
  BY <1>4, <1>5, <1>6 DEF t

\* A request that is truncated, when the prompt leaves room for more.
LEMMA Truncated ==
  ASSUME NEW ms, Begun(ms), Truncates(ms), System < Limit
  PROVE  LET t == Tail(ms)
             b == Limit - System
         IN  /\ b \in Nat /\ Request(ms) = <<ms[1]>> \o Walk(t, b)
             /\ \E k \in 0 .. Len(t) : k < Len(t) /\ Stopped(Walk(t, b), t, b, k)
<1> DEFINE t == Tail(ms)
           b == Limit - System
<1>1. /\ CharsOf(ms) = System + CharsOf(t) /\ CharsOf(t) \in Nat
      /\ System \in Nat /\ Limit \in Nat /\ CharsOf(ms) > Limit /\ b \in Nat /\ b = Limit - System
  BY WholeIs DEF Truncates
<1>2. t \in Seq(Messages) /\ Chars(ms[1]) = System
  <2>1. 0 \in 0 .. Len(ms) - 1
    BY DEF Begun
  <2>2. QED
    BY <2>1, Prompted
<1>3. Request(ms) = <<ms[1]>> \o Walk(t, b)
  BY <1>1, <1>2 DEF Request
<1> HIDE DEF t, b
<1>4. ~(CharsOf(t) <= b)
  BY ONLY <1>1, System < Limit
<1>5. \E k \in 0 .. Len(t) : k < Len(t) /\ Stopped(Walk(t, b), t, b, k)
  BY ONLY <1>1, <1>2, <1>4, WalkFits
<1>6. QED
  BY <1>1, <1>3, <1>5 DEF t, b

\* The newest message cut to a budget it exceeds.
LEMMA Clipped ==
  ASSUME NEW m \in Messages, NEW b \in Nat
  PROVE  /\ Clip(m, b) \in Messages /\ Clip(m, b).role = m.role
         /\ Clip(m, b).text = Smaller(m.text, b) /\ Chars(Clip(m, b)) <= b + m.extra
<1>1. Smaller(m.text, b) \in Nat /\ Smaller(m.text, b) <= b
  BY DEF Smaller, Messages
<1>2. /\ Clip(m, b) \in Messages /\ Clip(m, b).role = m.role
      /\ Clip(m, b).text = Smaller(m.text, b) /\ Clip(m, b).extra = m.extra
  BY <1>1 DEF Clip, Messages
<1>3. m.extra \in Nat
  BY DEF Messages
<1>4. QED
  BY <1>1, <1>2, <1>3 DEF Chars

\* The greatest number of a set.
LEMMA MaxIs ==
  ASSUME NEW S, S \subseteq Nat, NEW k \in S, \A n \in S : n <= k
  PROVE  Max(S) = k
<1>1. \A n \in S : k >= n
  OBVIOUS
<1>2. Max(S) \in S /\ \A n \in S : Max(S) >= n
  BY <1>1 DEF Max
<1> DEFINE max == Max(S)
<1>3. max \in Nat /\ k \in Nat /\ max <= k /\ max >= k
  BY <1>2
<1> HIDE DEF max
<1>4. max = k
  BY ONLY <1>3
<1>5. QED
  BY <1>4 DEF max

\* The numbers of newest messages that fit with the prompt.
LEMMA Fitting ==
  ASSUME NEW ms, Begun(ms), NEW b, b = Limit - System, Limit \in Nat, System \in Nat,
         NEW kept, NEW k \in 0 .. Len(Tail(ms)), k < Len(Tail(ms)), Stopped(kept, Tail(ms), b, k)
  PROVE  \A n \in 1 .. Len(ms) - 1 : CharsOf(<<ms[1]>> \o Newest(ms, n)) <= Limit <=> n <= k
<1> DEFINE t == Tail(ms)
<1>1. /\ t \in Seq(Messages) /\ Len(t) = Len(ms) - 1 /\ Len(ms) \in Nat
  BY Prompted DEF Begun
<1>2. ASSUME NEW n \in 1 .. Len(ms) - 1
      PROVE  /\ CharsOf(<<ms[1]>> \o Newest(ms, n)) = System + CharsOf(Newest(t, n))
             /\ n \in 0 .. Len(t)
             /\ Newest(t, n) \in Seq(Messages) /\ CharsOf(Newest(t, n)) \in Nat
  <2>1. n \in 0 .. Len(ms) - 1 /\ n \in 0 .. Len(t)
    BY <1>1
  <2>2. CharsOf(<<ms[1]>> \o Newest(ms, n)) = System + CharsOf(Newest(t, n))
    BY <2>1, Prompted
  <2> HIDE DEF t
  <2>3. Newest(t, n) \in Seq(Messages)
    BY <1>1, <2>1, NewestOf
  <2>4. QED
    BY <2>1, <2>2, <2>3, CharsAreNat
<1>3. /\ k \in 0 .. Len(t) /\ k + 1 \in 0 .. Len(t)
      /\ CharsOf(Newest(t, k)) <= b /\ CharsOf(Newest(t, k + 1)) > b
  BY <1>1 DEF Stopped
<1> HIDE DEF t
<1>4. \A n \in 0 .. Len(t) : CharsOf(Newest(t, n)) \in Nat
  BY <1>1, NewestOf, CharsAreNat
<1> DEFINE upto(n) == CharsOf(<<ms[1]>> \o Newest(ms, n))
           chars(n) == CharsOf(Newest(t, n))
<1>5. SUFFICES ASSUME NEW n \in 1 .. Len(ms) - 1
               PROVE  upto(n) <= Limit <=> n <= k
  OBVIOUS
<1>6. /\ upto(n) = System + chars(n) /\ chars(n) \in Nat /\ chars(k) \in Nat /\ chars(k + 1) \in Nat
      /\ chars(k) <= b /\ chars(k + 1) > b /\ b = Limit - System /\ Limit \in Nat /\ System \in Nat
  BY <1>2, <1>3, <1>4
<1>7. CASE n <= k
  <2>1. chars(n) <= chars(k)
    BY <1>1, <1>2, <1>3, <1>7, MoreChars
  <2> HIDE DEF upto, chars
  <2>2. QED
    BY ONLY <1>6, <1>7, <2>1
<1>8. CASE ~(n <= k)
  <2>1. k + 1 <= n
    BY <1>3, <1>8
  <2>2. chars(k + 1) <= chars(n)
    BY <1>1, <1>2, <1>3, <2>1, MoreChars
  <2> HIDE DEF upto, chars
  <2>3. QED
    BY ONLY <1>6, <1>8, <2>2
<1>9. QED
  BY <1>7, <1>8

\* A request that is truncated is as RequestSound says.
LEMMA SoundlySent ==
  ASSUME Begun(messages), Truncates(messages), System < Limit
  PROVE  RequestSound
<1> DEFINE ms == messages
           t == Tail(ms)
           b == Limit - System
           kept == Walk(t, b)
           sent == Request(ms)
           newest(n) == <<ms[1]>> \o Newest(ms, n)
           fitting == {n \in 1 .. Len(ms) - 1 : CharsOf(newest(n)) <= Limit}
           last == ms[Len(ms)]
<1>1. /\ b \in Nat /\ sent = <<ms[1]>> \o kept /\ System \in Nat /\ Limit \in Nat
      /\ \E k \in 0 .. Len(t) : k < Len(t) /\ Stopped(kept, t, b, k)
  BY Truncated, WholeIs
<1>2. PICK k \in 0 .. Len(t) : k < Len(t) /\ Stopped(kept, t, b, k)
  BY <1>1
<1>3. /\ ms \in Seq(Messages) /\ Len(ms) \in Nat /\ Len(ms) >= 2
      /\ ms[1] \in Messages /\ last \in Messages
  BY DEF Begun
<1>4. t \in Seq(Messages) /\ Len(t) = Len(ms) - 1 /\ Chars(ms[1]) = System /\ t[Len(t)] = last
  <2>1. 0 \in 0 .. Len(ms) - 1
    BY <1>3
  <2>2. t \in Seq(Messages) /\ Len(t) = Len(ms) - 1 /\ Chars(ms[1]) = System
    BY <2>1, Prompted
  <2>3. QED
    BY <1>3, <2>2
<1>5. \A n \in 1 .. Len(ms) - 1 : CharsOf(newest(n)) <= Limit <=> n <= k
  BY <1>1, <1>2, Fitting
<1> HIDE DEF kept, sent, t, b
<1>6. CASE k # 0
  <2>1. k \in 1 .. Len(ms) - 1 /\ k \in 0 .. Len(ms) - 1
    BY <1>2, <1>3, <1>4, <1>6
  <2>2. k \in fitting /\ \A n \in fitting : n <= k
    BY <1>5, <2>1
  <2>3. fitting \subseteq Nat
    BY <1>3
  <2> HIDE DEF fitting
  <2>4. Max(fitting) = k /\ fitting # {}
    BY <2>2, <2>3, MaxIs
  <2>5. kept = Newest(t, k)
    BY <1>2, <1>6 DEF Stopped
  <2>6. Newest(ms, k) = Newest(t, k)
    BY <2>1, Prompted DEF t
  <2>7. sent = newest(k)
    BY <1>1, <2>5, <2>6
  <2>8. QED
    BY <2>4, <2>7 DEF RequestSound, Newest, sent, fitting
<1>7. CASE k = 0
  <2>1. fitting = {}
    BY <1>3, <1>5, <1>7
  <2> DEFINE clip == Clip(last, b)
  <2>2. kept = <<clip>>
    BY <1>2, <1>4, <1>7 DEF Stopped
  <2>3. /\ clip \in Messages /\ clip.role = last.role /\ Chars(clip) <= b + last.extra
    BY <1>1, <1>3, Clipped
  <2> HIDE DEF fitting, last
  <2> HIDE DEF clip
  <2> DEFINE one == <<ms[1]>>
             two == <<clip>>
  <2>4. sent = one \o two /\ Len(sent) = 2 /\ sent[1] = ms[1] /\ sent[2] = clip
    BY <1>1, <2>2
  <2>5. /\ one \in Seq(Messages) /\ two \in Seq(Messages)
        /\ CharsOf(one) = Chars(ms[1]) /\ CharsOf(two) = Chars(clip)
    BY <1>3, <2>3, CharsOfOne
  <2> HIDE DEF one, two
  <2>6. CharsOf(sent) = System + Chars(clip)
    BY <1>4, <2>4, <2>5, CharsJoined
  <2>7. CharsOf(sent) <= Limit + last.extra
    <3>1. Chars(clip) \in Nat /\ last.extra \in Nat
      BY <1>3, <2>3, MessageChars
    <3>2. b = Limit - System
      BY DEF b
    <3>3. QED
      BY ONLY <1>1, <2>3, <2>6, <3>1, <3>2
  <2>8. fitting = {} /\ Len(sent) = 2 /\ sent[1] = messages[1]
        /\ sent[2].role = last.role /\ CharsOf(sent) <= Limit + last.extra
    BY <2>1, <2>3, <2>4, <2>7
  <2>9. QED
    BY <2>8 DEF RequestSound, Newest, sent, fitting, last
<1>8. QED
  BY <1>6, <1>7

\* RequestSound: what is sent of a conversation that is too long.
THEOREM RequestsSound == Spec => []RequestSound
<1>1. TypeOK /\ Opened => RequestSound
  <2>1. SUFFICES ASSUME Opened, at = "request", Truncates(messages), System < Limit
                 PROVE  RequestSound
    BY DEF RequestSound
  <2>2. Begun(messages)
    BY <2>1 DEF Opened, Begun, Playing
  <2>3. QED
    BY <2>1, <2>2, SoundlySent
<1>2. QED
  BY <1>1, AlwaysOpened, PTL

-----------------------------------------------------------------------------
(* What contaminated_from_turn tells                                       *)

\* A conversation whose first message of the user has no ids is sent whole exactly if
\* it is not truncated.
LEMMA SentWhole ==
  ASSUME NEW ms, Begun(ms), ms[2].extra = 0
  PROVE  (Request(ms) = ms) <=> ~Truncates(ms)
<1>1. CASE ~Truncates(ms)
  BY <1>1 DEF Request
<1>2. /\ ms \in Seq(Messages) /\ Len(ms) \in Nat /\ Len(ms) >= 2
      /\ ms[1] \in Messages /\ ms[2] \in Messages /\ ms[2].extra = 0
  BY DEF Begun
<1>3. /\ Tail(ms) \in Seq(Messages) /\ Len(Tail(ms)) = Len(ms) - 1 /\ Chars(ms[1]) = System
      /\ System \in Nat /\ Limit \in Nat
  <2>1. 0 \in 0 .. Len(ms) - 1
    BY <1>2
  <2>2. QED
    BY <2>1, Prompted, WholeIs
<1>4. CASE Truncates(ms) /\ ~(System < Limit)
  <2> DEFINE one == <<Clip(ms[1], Limit)>>
  <2>1. Request(ms) = one /\ Len(one) = 1
    BY <1>3, <1>4 DEF Request
  <2> HIDE DEF one
  <2>2. QED
    BY ONLY <1>2, <1>4, <2>1
<1>5. CASE Truncates(ms) /\ System < Limit
  <2> DEFINE t == Tail(ms)
             b == Limit - System
             kept == Walk(t, b)
             first == <<ms[1]>>
  <2>1. /\ b \in Nat /\ Request(ms) = first \o kept /\ Len(first) = 1
        /\ \E k \in 0 .. Len(t) : k < Len(t) /\ Stopped(kept, t, b, k)
    BY <1>5, Truncated
  <2>2. PICK k \in 0 .. Len(t) : k < Len(t) /\ Stopped(kept, t, b, k)
    BY <2>1
  <2>3. t \in Seq(Messages) /\ Len(t) = Len(ms) - 1 /\ \A i \in 1 .. Len(t) : t[i] = ms[i + 1]
    BY <1>2, <1>3
  <2> HIDE DEF kept, t, b, first
  <2>4. CASE k # 0
    <3>1. kept = Newest(t, k)
      BY <2>2, <2>4 DEF Stopped
    <3>2. kept \in Seq(Messages) /\ Len(kept) = k
      BY <2>2, <2>3, <3>1, NewestOf
    <3>3. Len(Request(ms)) = 1 + k
      <4>1. first \in Seq(Messages)
        BY <1>2 DEF first
      <4>2. Len(first \o kept) = Len(first) + Len(kept)
        BY ONLY <3>2, <4>1
      <4>3. QED
        BY <2>1, <3>2, <4>2
    <3>4. QED
      BY <1>2, <1>5, <2>2, <2>3, <3>3
  <2>5. CASE k = 0
    <3> DEFINE clip == Clip(t[Len(t)], b)
    <3>1. kept = <<clip>> /\ CharsOf(Newest(t, 1)) > b
      BY <2>2, <2>5 DEF Stopped
    <3> HIDE DEF clip
    <3>2. Len(Request(ms)) = 2 /\ Request(ms)[2] = clip
      BY <2>1, <3>1 DEF first
    <3>3. SUFFICES ASSUME Request(ms) = ms PROVE FALSE
      BY <1>5
    <3>4. Len(t) = 1 /\ t[1] = ms[2] /\ clip = ms[2]
      BY <1>2, <2>3, <3>2, <3>3
    <3>5. t = <<ms[2]>> /\ Newest(t, 1) = t
      <4>1. t = <<ms[2]>>
        BY <2>3, <3>4
      <4>2. Newest(t, 1) = t
        BY ONLY <2>3, <3>4, NoneNewest
      <4>3. QED
        BY <4>1, <4>2
    <3>6. Chars(ms[2]) > b /\ Chars(ms[2]) = ms[2].text /\ ms[2].text \in Nat
      <4>1. CharsOf(<<ms[2]>>) = Chars(ms[2])
        BY <1>2, CharsOfOne
      <4>2. CharsOf(<<ms[2]>>) > b
        BY ONLY <3>1, <3>5
      <4>3. ms[2].text \in Nat /\ Chars(ms[2]) = ms[2].text + ms[2].extra
        BY ONLY <1>2, MessageChars
      <4>4. ms[2].text + ms[2].extra = ms[2].text
        BY ONLY <4>3, <1>2
      <4>5. QED
        BY ONLY <4>1, <4>2, <4>3, <4>4
    <3>7. clip.text = Smaller(ms[2].text, b)
      <4>1. clip = Clip(ms[2], b)
        BY <3>4 DEF clip
      <4>2. QED
        BY ONLY <1>2, <2>1, <4>1, Clipped
    <3>8. Smaller(ms[2].text, b) = b
      BY ONLY <2>1, <3>6 DEF Smaller
    <3>9. QED
      BY ONLY <2>1, <3>4, <3>6, <3>7, <3>8
  <2>6. QED
    BY <2>4, <2>5
<1>6. QED
  BY <1>1, <1>4, <1>5

\* A conversation that is too long stays so.
LEMMA StaysTooLong ==
  ASSUME NEW ms, ms \in Seq(Messages), NEW m \in Messages, Truncates(ms)
  PROVE  Truncates(Append(ms, m))
<1> DEFINE one == <<m>>
<1>0. one \in Seq(Messages) /\ Append(ms, m) = ms \o one
  OBVIOUS
<1> HIDE DEF one
<1>1. one \in Seq(Messages) /\ CharsOf(one) \in Nat /\ Append(ms, m) = ms \o one
  BY <1>0, CharsAreNat
<1>2. CharsOf(ms \o one) = CharsOf(ms) + CharsOf(one) /\ CharsOf(ms) \in Nat
  BY <1>1, CharsJoined, CharsAreNat
<1>3. Limit \in Nat
  BY EpisodeAssumption, Zenon
<1>4. QED
  BY <1>1, <1>2, <1>3 DEF Truncates

\* The first truncated turn is noted; the conversation is too long from then on.
Told ==
  /\ saw \in Seq(BOOLEAN)
  /\ \A n \in 1 .. Len(saw) : saw[n] <=> (contaminated = None \/ n <= contaminated)

Noted ==
  driver = "teacher" =>
    /\ Told
    /\ at \in Playing =>
         /\ Len(saw) = IF at = "request" THEN turn ELSE turn + 1
         /\ contaminated # None => contaminated < Len(saw) /\ Truncates(messages)

\* Every step keeps what is noted true.
LEMMA NotedStep ==
  ASSUME TypeOK, Opened, Opened', Noted, [Next]_vars
  PROVE  Noted'
<1>0. None \notin Nat /\ turn \in Nat /\ MaxTurns \in Nat
      /\ (contaminated # None => contaminated \in Nat) /\ TypeOK
  <2>1. None \notin Nat /\ MaxTurns \in Nat
    BY EpisodeAssumption, Zenon
  <2>2. QED
    BY <2>1 DEF TypeOK
<1>1. CASE Create
  <2>1. saw' = <<>> /\ contaminated' = None /\ turn' = 0 /\ at' = "request" /\ driver' = driver
    BY <1>1 DEF Create
  <2>2. saw' \in Seq(BOOLEAN) /\ Len(saw') = 0
    BY <2>1
  <2>3. QED
    BY <2>1, <2>2 DEF Noted, Told
<1>2. CASE PolicyAnswers
  <2>1. SUFFICES ASSUME driver' = "teacher" PROVE Noted'
    BY DEF Noted
  <2> DEFINE whole == Request(messages) = messages
  <2>2. /\ at = "request" /\ at' \in {"reply", "calls"} /\ turn' = turn /\ driver = "teacher"
        /\ saw' = Append(saw, whole)
        /\ contaminated' = IF Truncates(messages) /\ contaminated = None THEN turn ELSE contaminated
        /\ \E m \in PolicyMessages :
             messages' = Append(messages, Message("assistant", m.text, m.extra))
    BY <1>2, <2>1 DEF PolicyAnswers, Note
  <2>3. /\ saw \in Seq(BOOLEAN) /\ Len(saw) = turn
        /\ \A n \in 1 .. Len(saw) : saw[n] <=> (contaminated = None \/ n <= contaminated)
        /\ contaminated # None => contaminated < turn /\ Truncates(messages)
    BY <2>2 DEF Noted, Told, Playing
  <2>4. whole <=> ~Truncates(messages)
    <3>1. Begun(messages) /\ messages[2].extra = 0
      BY <2>2 DEF Opened, Begun, Playing
    <3>2. QED
      BY <3>1, SentWhole
  <2>5. Truncates(messages) => Truncates(messages')
    <3>1. PICK m \in PolicyMessages : messages' = Append(messages, Message("assistant", m.text, m.extra))
      BY <2>2
    <3>2. Message("assistant", m.text, m.extra) \in Messages /\ messages \in Seq(Messages)
      <4>1. m.text \in Nat /\ m.extra \in Nat
        BY EpisodeAssumption, Zenon
      <4>2. QED
        BY <2>2, <4>1 DEF Message, Messages, Opened, Playing
    <3>3. QED
      BY <3>1, <3>2, StaysTooLong
  <2>6. whole \in BOOLEAN
    OBVIOUS
  <2> HIDE DEF whole
  <2>7. /\ saw' \in Seq(BOOLEAN) /\ Len(saw') = turn + 1 /\ saw'[turn + 1] = whole
        /\ \A n \in 1 .. turn : saw'[n] = saw[n]
    BY <1>0, <2>2, <2>3, <2>6
  <2> DEFINE cut == Truncates(messages)
  <2>8. /\ contaminated' = IF cut /\ contaminated = None THEN turn ELSE contaminated
        /\ contaminated # None => contaminated \in Nat /\ contaminated < turn /\ cut
        /\ whole <=> ~cut
        /\ None \notin Nat /\ turn \in Nat
    BY <1>0, <2>2, <2>3, <2>4
  <2> HIDE DEF cut
  <2>9. contaminated' # None => contaminated' < turn + 1 /\ cut
    <3>1. CASE contaminated # None
      <4>1. contaminated' = contaminated /\ contaminated < turn + 1 /\ cut
        BY ONLY <2>8, <3>1
      <4>2. QED
        BY <4>1
    <3>2. CASE contaminated = None /\ cut
      <4>1. contaminated' = turn /\ turn < turn + 1
        BY ONLY <2>8, <3>2
      <4>2. QED
        BY <3>2, <4>1
    <3>3. CASE contaminated = None /\ ~cut
      BY ONLY <2>8, <3>3
    <3>4. QED
      BY <3>1, <3>2, <3>3
  <2>10. \A n \in 1 .. turn : saw'[n] <=> (contaminated' = None \/ n <= contaminated')
    BY <1>0, <2>2, <2>3, <2>7
  <2>11. whole <=> (contaminated' = None \/ turn + 1 <= contaminated')
    <3>1. CASE contaminated # None
      BY ONLY <2>8, <3>1
    <3>2. CASE contaminated = None /\ cut
      BY ONLY <2>8, <3>2
    <3>3. CASE contaminated = None /\ ~cut
      BY ONLY <2>8, <3>3
    <3>4. QED
      BY <3>1, <3>2, <3>3
  <2>12. contaminated' # None => contaminated' < turn + 1 /\ Truncates(messages')
    BY <2>5, <2>9 DEF cut
  <2>13. \A n \in 1 .. turn + 1 : n \in 1 .. turn \/ n = turn + 1
    BY <1>0
  <2>14. \A n \in 1 .. turn + 1 : saw'[n] <=> (contaminated' = None \/ n <= contaminated')
    BY <2>7, <2>10, <2>11, <2>13
  <2>15. at' = "request" => FALSE
    BY <2>2
  <2>16. QED
    BY <2>2, <2>7, <2>12, <2>14, <2>15 DEF Noted, Told
<1>3. ASSUME UNCHANGED <<driver, saw, contaminated>>, at' \notin Playing
      PROVE  Noted'
  BY <1>3 DEF Noted, Told
<1>4. CASE \/ ResetRaises \/ PolicyRaises \/ TurnsSpent \/ BrokenCall \/ Transfer
           \/ UserStops \/ UserRaises \/ Return
  <2>1. UNCHANGED <<driver, saw, contaminated>> /\ at' \notin Playing
    BY <1>4 DEF ResetRaises, PolicyRaises, TurnsSpent, BrokenCall, Transfer, UserStops, UserRaises,
                Return, Raise, play, Playing
  <2>2. QED
    BY <1>3, <2>1
<1>5. CASE BadArguments \/ Act \/ UserAnswers
  <2>1. /\ UNCHANGED <<driver, saw, contaminated>> /\ at \in Playing /\ at # "request"
        /\ \/ at' = at /\ turn' = turn
           \/ at' = "request" /\ turn' = turn + 1
    BY <1>5 DEF BadArguments, Act, UserAnswers, Calling, Answered, Playing
  <2>2. Truncates(messages) => Truncates(messages')
    <3>1. \/ Create
          \/ messages' = messages
          \/ at \in Playing /\ \E m \in Messages : messages' = Append(messages, m)
      BY Grows
    <3>2. ~Create
      BY <2>1 DEF Create, Playing
    <3>3. messages \in Seq(Messages)
      BY <2>1 DEF Opened
    <3>4. CASE messages' = messages
      BY <3>4
    <3>5. CASE \E m \in Messages : messages' = Append(messages, m)
      BY <3>3, <3>5, StaysTooLong
    <3>6. QED
      BY <3>1, <3>2, <3>4, <3>5
  <2>3. QED
    BY <2>1, <2>2 DEF Noted, Told, Playing
<1>6. CASE UNCHANGED vars
  <2>1. UNCHANGED <<driver, saw, contaminated, at, turn, messages>>
    BY <1>6 DEF vars, play
  <2>2. QED
    BY <2>1 DEF Noted, Told
<1>7. QED
  BY <1>1, <1>2, <1>4, <1>5, <1>6 DEF Next

\* ContaminationTrue: contaminated_from_turn tells the truth about a teacher's rollout.
THEOREM ContaminationTold == Spec => []ContaminationTrue
<1>1. Init => Noted
  <2>1. SUFFICES ASSUME Init PROVE Noted
    OBVIOUS
  <2>2. saw = <<>> /\ at = "create"
    BY <2>1 DEF Init
  <2>3. saw \in Seq(BOOLEAN) /\ Len(saw) = 0
    BY <2>2
  <2>4. QED
    BY <2>2, <2>3 DEF Noted, Told, Playing
<1>2. TypeOK /\ Opened /\ Opened' /\ Noted /\ [Next]_vars => Noted'
  BY NotedStep
<1>3. Noted => ContaminationTrue
  <2>1. SUFFICES ASSUME Noted, driver = "teacher"
                 PROVE  \A n \in DOMAIN saw : saw[n] <=> (contaminated = None \/ n <= contaminated)
    BY DEF ContaminationTrue
  <2>2. DOMAIN saw = 1 .. Len(saw)
    BY <2>1 DEF Noted, Told
  <2>3. QED
    BY <2>1, <2>2 DEF Noted, Told
<1>4. QED
  BY <1>1, <1>2, <1>3, AlwaysOpened, PTL DEF Spec

=============================================================================
