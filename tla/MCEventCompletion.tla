--------------------------- MODULE MCEventCompletion ---------------------------
(* Small instances of EventCompletion for TLC. *)
EXTENDS EventCompletion, TLC

CONSTANTS s20, s21, s02

\* 2:0 and 2:1 are wins of the first side, 0:2 of the second.
MCWinner == (s20 :> "first") @@ (s21 :> "first") @@ (s02 :> "second")

\* Player 1 says 2:0 throughout; the others say 0:2 and miss one of several polls.
Skipped == IF Cardinality(Matches) > 1 THEN {CHOOSE m \in Matches : TRUE} ELSE {}
MCVote ==
    [c \in Chats |-> [m \in Matches |-> [p \in Players |->
        IF p = 1 THEN s20 ELSE IF m \in Skipped THEN NoVote ELSE s02]]]
=============================================================================
