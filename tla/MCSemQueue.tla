----------------------------- MODULE MCSemQueue -----------------------------
(***************************************************************************)
(* Lab23's queue with two producers of two messages each, two consumers    *)
(* and a limit of two: producers and consumers contend, both semaphores    *)
(* reach 0, and the token of a drop passes through more than one thread.   *)
(***************************************************************************)
EXTENDS SemQueue
=============================================================================
