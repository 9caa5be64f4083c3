---------------------------- MODULE MCUpdateDelivery ----------------------------
(* Small instances of UpdateDelivery for TLC. *)
EXTENDS UpdateDelivery, TLC

=============================================================================
