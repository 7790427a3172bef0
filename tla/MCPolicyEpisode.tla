--------------------------- MODULE MCPolicyEpisode ---------------------------
(* Constants for the run of PolicyEpisode: conversations that reach the    *)
(* limit of nine after one or two turns, tools whose answer fits and does  *)
(* not fit, and messages with no call, one or two.                         *)
EXTENDS PolicyEpisode

MCDrivers == {"eval", "teacher"}
MCWorlds == {"fresh", "target"}
MCGoals == {[target |-> "target", asks |-> FALSE], [target |-> "fresh", asks |-> TRUE]}

Say(text, calls, extra) == [text |-> text, calls |-> calls, extra |-> extra]

MCPolicyMessages ==
  { Say(2, <<>>, 0), Say(0, <<"act">>, 1), Say(0, <<"act", "transfer">>, 2),
    Say(1, <<"transfer", "act">>, 2), Say(0, <<"bad", "act">>, 2), Say(0, <<"broken">>, 1) }
=============================================================================
