---------------------------- MODULE TrylockDinner ---------------------------
(***************************************************************************)
(* Lab21/main.c: lock the left fork, try the right one, and on failure     *)
(* sleep on the one condition variable, which lets go of the left fork.    *)
(* down_forks broadcasts after both unlocks and without a mutex, so the    *)
(* broadcast can come between another philosopher's failed try and its     *)
(* wait.  POSIX leaves waits with several mutexes on one variable          *)
(* undefined; glibc keeps no binding to the mutex, as here.                *)
(***************************************************************************)
EXTENDS ForkDinner

VARIABLE waiting  (* the philosophers asleep on pthreadCond                  *)

Init == DinnerInit /\ ForksInit /\ waiting = {}

(* pthread_mutex_trylock on the right fork.                                *)
TryRight(p) ==
  /\ pc[p] = "try"
  /\ IF forks[RightFork(p)] = Nobody
     THEN forks' = [forks EXCEPT ![RightFork(p)] = p] /\ Goto(p, "eat")
     ELSE Goto(p, "toSleep") /\ UNCHANGED forks
  /\ UNCHANGED <<food, eaten, waiting>>

(* Mutant of Sleep: the left fork is kept.                                 *)
SleepWithFork(p) ==
  /\ pc[p] = "toSleep"
  /\ waiting' = waiting \cup {p}
  /\ Goto(p, "asleep")
  /\ UNCHANGED <<food, eaten, forks>>

Sleep(p) ==
  /\ pc[p] = "toSleep"
  /\ waiting' = waiting \cup {p}
  /\ forks' = [forks EXCEPT ![LeftFork(p)] = Nobody]
  /\ Goto(p, "asleep")
  /\ UNCHANGED <<food, eaten>>

Awake(p) ==
  /\ p \notin waiting
  /\ GetFork(p, LeftFork(p), "asleep", "try")
  /\ UNCHANGED waiting

Broadcast(p) ==
  /\ pc[p] = "wake"
  /\ waiting' = {}
  /\ Goto(p, "table")
  /\ UNCHANGED <<food, eaten, forks>>

SpuriousWakeup(p) ==
  /\ p \in waiting
  /\ waiting' = waiting \ {p}
  /\ UNCHANGED <<dinnerVars, mainVars, forks>>

Philosopher(p) ==
  /\ Seated(p)
  /\ \/ FoodOnTable(p, "left") /\ UNCHANGED <<forks, waiting>>
     \/ GetFork(p, LeftFork(p), "left", "try") /\ UNCHANGED waiting
     \/ TryRight(p)
     \/ Sleep(p)
     \/ Awake(p)
     \/ DownLeft(p) /\ UNCHANGED waiting
     \/ DownRight(p, "wake") /\ UNCHANGED waiting
     \/ Broadcast(p)

Main ==
  /\ Create \/ cancel_threads \/ Join
  /\ UNCHANGED <<dinnerVars, forks, waiting>>
=============================================================================
