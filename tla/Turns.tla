------------------------------- MODULE Turns -------------------------------
(***************************************************************************)
(* What Lab10, Lab12 and Lab13 share: two threads, the parent (main) and   *)
(* the child it creates, each print Strings lines in a loop, and take      *)
(* turns at it, the parent first.  The three programs differ in what they  *)
(* take turns with, three mutexes, a condition variable, two semaphores,   *)
(* and in what they do when the child is not created: Lab10 does not look, *)
(* Lab12's main ends, and Lab13's says so and goes on.                     *)
(***************************************************************************)
EXTENDS Integers

CONSTANT Strings          (* the 10 of each loop                           *)

ASSUME SomeStrings == Strings \in Nat \ {0}

VARIABLES pc, printed     (* for each thread: its place, the lines printed *)

turnVars == <<pc, printed>>

Threads == {"parent", "child"}

(* pthread_create by the parent, with where the child and the parent begin, *)
(* and where the parent goes when it fails.                                *)
Create(child, parent, failed) ==
  /\ pc["parent"] = "create"
  /\ \/ pc' = [parent |-> parent, child |-> child]
     \/ pc' = [parent |-> failed, child |-> "failed"]
  /\ UNCHANGED printed

Goto(t, label) == pc' = [pc EXCEPT ![t] = label]
PrintString(t) == printed' = [printed EXCEPT ![t] = @ + 1]
InitTurns ==
  /\ pc = [parent |-> "create", child |-> "none"]
  /\ printed = [t \in Threads |-> 0]
Finished == \A t \in Threads : pc[t] = "done"
-----------------------------------------------------------------------------
(* The lines alternate, beginning with the parent's.                       *)
Alternate == printed["parent"] - printed["child"] \in {0, 1}
=============================================================================
