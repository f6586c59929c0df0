---------------------------- MODULE MCCondQueue ----------------------------
(***************************************************************************)
(* Lab24's queue with two producers of two messages each, two consumers    *)
(* and a limit of two, so that both kinds can sleep on the one condition   *)
(* variable in turns, two threads at a time, and the order of the stored   *)
(* messages can be got wrong.                                              *)
(***************************************************************************)
EXTENDS CondQueue
=============================================================================
