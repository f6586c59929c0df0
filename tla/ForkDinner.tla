----------------------------- MODULE ForkDinner -----------------------------
(***************************************************************************)
(* The forks as mutexes: get_fork and down_forks of Lab9/main.c and        *)
(* Lab9/din_phil.c, and what Lab21/main.c does with the same array.        *)
(***************************************************************************)
EXTENDS Dinner

CONSTANT Nobody
ASSUME NobodyIsNoPhilosopher == Nobody \notin Philosophers

VARIABLE forks    (* the philosopher that has locked each fork, or Nobody    *)

ForksInit == forks = [f \in Philosophers |-> Nobody]

GetFork(p, f, from, to) ==
  /\ pc[p] = from
  /\ forks[f] = Nobody
  /\ forks' = [forks EXCEPT ![f] = p]
  /\ Goto(p, to)
  /\ UNCHANGED <<food, eaten>>

(* The meal is over and the first unlock of down_forks.                    *)
DownLeft(p) ==
  /\ pc[p] = "eat"
  /\ forks' = [forks EXCEPT ![LeftFork(p)] = Nobody]
  /\ eaten' = [eaten EXCEPT ![p] = @ + 1]
  /\ Goto(p, "downRight")
  /\ UNCHANGED food

DownRight(p, to) ==
  /\ pc[p] = "downRight"
  /\ forks' = [forks EXCEPT ![RightFork(p)] = Nobody]
  /\ Goto(p, to)
  /\ UNCHANGED <<food, eaten>>
=============================================================================
