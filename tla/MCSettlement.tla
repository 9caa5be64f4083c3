------------------------------ MODULE MCSettlement ------------------------------
(* Small instances of Settlement for TLC. *)
EXTENDS Settlement, TLC

CONSTANTS s20, s21, s02

\* 2:0 and 2:1 are wins of the first side, 0:2 of the second.
MCWinner == (s20 :> "first") @@ (s21 :> "first") @@ (s02 :> "second")

\* The first player says 2:0 throughout; everybody else once misses a poll.
Bold == CHOOSE p \in Players : TRUE
Skipped == CHOOSE m \in Matches : TRUE
MCVote ==
    [c \in Chats |-> [m \in Matches |-> [p \in Players |->
        IF p = Bold THEN s20 ELSE IF m = Skipped THEN NoVote ELSE s21]]]
=============================================================================
