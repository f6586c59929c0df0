------------------------------ MODULE MCDinner ------------------------------
(***************************************************************************)
(* The dinners of Lab9/main.c, Lab9/smartPhilo.c and Lab21/main.c, each as *)
(* one choice of program in the initial state; a program leaves the        *)
(* variables of the others as they are.  Four philosophers are the         *)
(* smallest circle with two that are no neighbours, and five portions let  *)
(* one eat twice.                                                          *)
(***************************************************************************)
EXTENDS ForkDinner

VARIABLES program, lForks, waiting, phils_states, early

vars == <<dinnerVars, mainVars, program, forks, lForks, waiting, phils_states, early>>

Waiter == INSTANCE WaiterDinner
Trylock == INSTANCE TrylockDinner
Smart == INSTANCE SmartDinner

Init ==
  /\ program \in {"Lab9/main", "Lab9/smartPhilo", "Lab21/main"}
  /\ Waiter!Init
  /\ Trylock!Init
  /\ Smart!Init

Philosopher(p) ==
  /\ UNCHANGED program
  /\ \/ /\ program = "Lab9/main"
        /\ Waiter!Philosopher(p)
        /\ UNCHANGED <<waiting, phils_states, early>>
     \/ /\ program = "Lab21/main"
        /\ Trylock!Philosopher(p)
        /\ UNCHANGED <<lForks, phils_states, early>>
     \/ /\ program = "Lab9/smartPhilo"
        /\ Smart!Philosopher(p)
        /\ UNCHANGED <<forks, lForks>>

SpuriousWakeup(p) ==
  /\ UNCHANGED <<program, lForks>>
  /\ \/ /\ program = "Lab21/main"
        /\ Trylock!SpuriousWakeup(p)
        /\ UNCHANGED <<phils_states, early>>
     \/ /\ program = "Lab9/smartPhilo"
        /\ Smart!SpuriousWakeup(p)
        /\ UNCHANGED forks

Main ==
  /\ UNCHANGED program
  /\ \/ /\ program = "Lab9/main"
        /\ Waiter!Main
        /\ UNCHANGED <<waiting, phils_states, early>>
     \/ /\ program = "Lab21/main"
        /\ Trylock!Main
        /\ UNCHANGED <<lForks, phils_states, early>>
     \/ /\ program = "Lab9/smartPhilo"
        /\ Smart!Main
        /\ UNCHANGED <<forks, lForks>>

Ended == main \in {"left", "undefined"}

Next ==
  \/ Main
  \/ \E p \in Philosophers : Philosopher(p) \/ SpuriousWakeup(p)
  \/ Ended /\ UNCHANGED vars

(* Unsignalled wakeups do not go on for ever.                              *)
FairSpec ==
  /\ Init /\ [][Next]_vars
  /\ WF_vars(Main) /\ \A p \in Philosophers : WF_vars(Philosopher(p))
  /\ <>[][\A p \in Philosophers : ~SpuriousWakeup(p)]_vars
-----------------------------------------------------------------------------
(* Neighbours do not eat together, unless a wait returned unsignalled, and  *)
(* the mutexes that main destroys are held by nobody; a philosopher with   *)
(* states sleeps beside a neighbour that eats.                             *)
Exclusion ==
  /\ Smart!Exclusion
  /\ main = "left" => lForks = Nobody /\ \A f \in Philosophers : forks[f] = Nobody
SleepersJustified == program = "Lab9/smartPhilo" => Smart!SleepersJustified

(* Nobody keeps a fork and waits for ever: every fork that is locked is    *)
(* let go, by a meal that ends or by a sleep.                              *)
NoForkKept ==
  \A f \in Philosophers : (forks[f] # Nobody) ~> (forks[f] = Nobody \/ main = "undefined")

(* The waiter and the states let every philosopher finish, and main.       *)
AllLeave == program # "Lab21/main" => <>Ended

(* Lab21's main joins every philosopher: each should be done eating.       *)
TrylockLeave == program = "Lab21/main" => <>Ended
=============================================================================
