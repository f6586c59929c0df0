----------------------------- MODULE SmartDinner ----------------------------
(***************************************************************************)
(* Lab9/smartPhilo.c: no forks, but a state for each philosopher, under    *)
(* one mutex.  get_forks sleeps on the philosopher's own condition         *)
(* variable once, without a loop, and takes its return for the permission  *)
(* to eat.  A critical section is one action: phils_states is touched      *)
(* nowhere else.                                                           *)
(***************************************************************************)
EXTENDS Dinner

VARIABLES
  phils_states,  (* "THINKING", "HUNGRY" or "EATING"                         *)
  waiting,       (* the philosophers asleep, each on its own variable        *)
  early          (* history: whose last wait returned without a signal       *)

Init ==
  /\ DinnerInit
  /\ phils_states = [p \in Philosophers |-> "THINKING"]
  /\ waiting = {}
  /\ early = {}

(* Mutant of MayEat: only the neighbour on the right is looked at.         *)
MayEatRight(states, p) ==
  states[p] = "HUNGRY" /\ states[LeftFork(p)] # "EATING"

(* The condition of test(p).                                               *)
MayEat(states, p) ==
  states[p] = "HUNGRY" /\ \A q \in Neighbours(p) : states[q] # "EATING"

(* test(p): from HUNGRY to EATING if the neighbours let it.                *)
Test(states, p) ==
  IF MayEat(states, p) THEN [states EXCEPT ![p] = "EATING"] ELSE states

GetForks(p) ==
  /\ pc[p] = "get"
  /\ phils_states' = Test([phils_states EXCEPT ![p] = "HUNGRY"], p)
  /\ IF phils_states'[p] = "EATING"
     THEN Goto(p, "eat") /\ UNCHANGED waiting
     ELSE Goto(p, "asleep") /\ waiting' = waiting \cup {p}
  /\ early' = early \ {p}
  /\ UNCHANGED <<food, eaten>>

(* pthread_cond_wait has returned: the mutex is let go, the meal begins.   *)
Awake(p) ==
  /\ pc[p] = "asleep"
  /\ p \notin waiting
  /\ Goto(p, "eat")
  /\ UNCHANGED <<food, eaten, phils_states, waiting, early>>

(* Both neighbours are tested, one after the other, and each that may eat  *)
(* now is signalled.                                                       *)
PutDown(p, tested) ==
  /\ pc[p] = "eat"
  /\ phils_states' = tested
  /\ waiting' = {q \in waiting : tested[q] # "EATING"}
  /\ eaten' = [eaten EXCEPT ![p] = @ + 1]
  /\ Goto(p, "table")
  /\ UNCHANGED <<food, early>>

Thinking(p) == [phils_states EXCEPT ![p] = "THINKING"]
Before(p) == (p + PHILOSOPHERS - 1) % PHILOSOPHERS

(* Mutant of DownForks: one neighbour only.                                *)
DownForksLeft(p) == PutDown(p, Test(Thinking(p), Before(p)))

DownForks(p) ==
  PutDown(p, Test(Test(Thinking(p), Before(p)), LeftFork(p)))

SpuriousWakeup(p) ==
  /\ p \in waiting
  /\ waiting' = waiting \ {p}
  /\ early' = early \cup {p}
  /\ UNCHANGED <<dinnerVars, mainVars, phils_states>>

Philosopher(p) ==
  /\ Seated(p)
  /\ \/ FoodOnTable(p, "get") /\ UNCHANGED <<phils_states, waiting, early>>
     \/ GetForks(p)
     \/ Awake(p)
     \/ DownForks(p)

Main == (Create \/ Join) /\ UNCHANGED <<dinnerVars, phils_states, waiting, early>>
-----------------------------------------------------------------------------
(* Neighbours eat at the same time only if one of them was woken by        *)
(* nobody: each signal comes with forks that nobody else has or takes.     *)
Exclusion ==
  \A p \in Philosophers : \A q \in Neighbours(p) :
    Eating(p) /\ Eating(q) => p \in early \/ q \in early

(* No wakeup is lost: whoever sleeps has a neighbour that eats and will    *)
(* look after it.                                                          *)
SleepersJustified ==
  \A p \in waiting : \E q \in Neighbours(p) : phils_states[q] = "EATING"
=============================================================================
