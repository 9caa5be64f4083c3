----------------------------- MODULE MCSubscribing -----------------------------
(* A small instance of Subscribing for TLC. *)
EXTENDS Subscribing, TLC
=============================================================================
