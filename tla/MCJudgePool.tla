----------------------------- MODULE MCJudgePool -----------------------------
(* Constants for the runs of JudgePool: two groups, of which every third   *)
(* row may be a success, a row without messages, or a trajectory of one to *)
(* three steps; and two judges whose calls time out or go wrong at times:  *)
(* one that looks at what was said only and one that looks at what was     *)
(* seen.                                                                   *)
EXTENDS JudgePool

Look == [said |-> "look", seen |-> "seats", write |-> FALSE]
Book(seen) == [said |-> "book", seen |-> seen, write |-> TRUE]
Lose == [said |-> "lose", seen |-> "seats", write |-> FALSE]
Wait == [said |-> "wait", seen |-> "seats", write |-> FALSE]

Failure(uid, messages) == [success |-> FALSE, uid |-> uid, messages |-> messages]

MCRows ==
  { [success |-> TRUE, uid |-> "g1", messages |-> <<Look>>],
    Failure("g1", NoMessages),
    Failure("g1", <<>>),
    Failure("g1", <<Look, Wait, Book("seats"), Book("error")>>),
    Failure("g1", <<Wait, Book("error"), Wait, Book("seats")>>),
    Failure("g1", <<Look, Lose>>),
    Failure("g2", <<Wait, Look, Book("seats")>>) }

MCBatches == [1 .. 3 -> MCRows]

Say(kind, score) == [kind |-> kind, score |-> score]

Prompts == [uid : {"g1", "g2"}, said : {"look", "book", "lose", "wait"}, seen : {"seats", "error"}]

ByText(uid, said) ==
  CASE said = "book" /\ uid = "g1" -> {Say("score", 1), Say("failed", 0)}
    [] said = "book" /\ uid = "g2" -> {Say("nan", 0)}
    [] said = "look" -> {Say("score", 9)}
    [] said = "wait" -> {Say("noise", 0)}
    [] said = "lose" -> {Say("list", 0), Say("score", 1)}

MCAnswersByText == [p \in Prompts |-> ByText(p.uid, p.said)]

MCAnswersByResult ==
  [p \in Prompts |-> IF p.seen = "error" THEN {Say("score", 0)} ELSE ByText(p.uid, p.said)]
=============================================================================
