----------------------------- MODULE NaiveDinner ----------------------------
(***************************************************************************)
(* Lab9/din_phil.c: right fork first, then the left one, with nothing to   *)
(* break the circle but a nap of philosopher 1 before each meal, which     *)
(* ends like any sleep (its default length is 0).                          *)
(***************************************************************************)
EXTENDS ForkDinner

vars == <<dinnerVars, mainVars, forks>>

Init == DinnerInit /\ ForksInit

Nap(p) == pc[p] = "nap" /\ Goto(p, "right") /\ UNCHANGED <<food, eaten, forks>>

Philosopher(p) ==
  /\ Seated(p)
  /\ \/ FoodOnTable(p, IF p = 1 THEN "nap" ELSE "right") /\ UNCHANGED forks
     \/ Nap(p)
     \/ GetFork(p, RightFork(p), "right", "left")
     \/ GetFork(p, LeftFork(p), "left", "eat")
     \/ DownLeft(p)
     \/ DownRight(p, "table")

Main == (Create \/ Join) /\ UNCHANGED <<dinnerVars, forks>>

Next ==
  \/ Main
  \/ \E p \in Philosophers : Philosopher(p)
  \/ main = "left" /\ UNCHANGED vars

FairSpec ==
  /\ Init /\ [][Next]_vars
  /\ WF_vars(Main) /\ \A p \in Philosophers : WF_vars(Philosopher(p))

(* What the comment on the nap says: thanks to it the philosophers do not  *)
(* deadlock, each holding a fork and waiting for the next.                 *)
NoCircle == \E p \in Philosophers : ~ /\ pc[p] = "left"
                                      /\ forks[LeftFork(p)] # Nobody
=============================================================================
