-------------------------- MODULE MCPredictionPolls --------------------------
(* A small instance of PredictionPolls for TLC. *)
EXTENDS PredictionPolls, TLC

ChatSymmetry == Permutations(Chats)
=============================================================================
