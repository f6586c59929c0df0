---------------------------- MODULE WaiterDinner ----------------------------
(***************************************************************************)
(* Lab9/main.c: a philosopher picks up both forks under one more mutex,    *)
(* lForks, and puts them down without it.                                  *)
(***************************************************************************)
EXTENDS ForkDinner

VARIABLE lForks   (* the philosopher that holds lForks, or Nobody            *)

Init == DinnerInit /\ ForksInit /\ lForks = Nobody

(* Mutant of AskWaiter: forks are picked up without lForks.                *)
AskNobody(p) ==
  /\ pc[p] = "waiter"
  /\ Goto(p, "left")
  /\ UNCHANGED <<food, eaten, forks, lForks>>

AskWaiter(p) ==
  /\ pc[p] = "waiter"
  /\ lForks = Nobody
  /\ lForks' = p
  /\ Goto(p, "left")
  /\ UNCHANGED <<food, eaten, forks>>

LeaveWaiter(p) ==
  /\ pc[p] = "gotBoth"
  /\ lForks' = Nobody
  /\ Goto(p, "eat")
  /\ UNCHANGED <<food, eaten, forks>>

Philosopher(p) ==
  /\ Seated(p)
  /\ \/ FoodOnTable(p, "waiter") /\ UNCHANGED <<forks, lForks>>
     \/ AskWaiter(p)
     \/ GetFork(p, LeftFork(p), "left", "right") /\ UNCHANGED lForks
     \/ GetFork(p, RightFork(p), "right", "gotBoth") /\ UNCHANGED lForks
     \/ LeaveWaiter(p)
     \/ DownLeft(p) /\ UNCHANGED lForks
     \/ DownRight(p, "table") /\ UNCHANGED lForks

Main ==
  /\ Create \/ cancel_threads \/ Join
  /\ UNCHANGED <<dinnerVars, forks, lForks>>
=============================================================================
