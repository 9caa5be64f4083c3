------------------------------- MODULE MCScreens -------------------------------
(***************************************************************************)
(* Two groups; the person is anything from a member to an admin of each.      *)
(***************************************************************************)
EXTENDS Screens
=============================================================================
