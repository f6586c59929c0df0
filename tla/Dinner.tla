------------------------------- MODULE Dinner -------------------------------
(***************************************************************************)
(* What the dining philosophers of Lab9 (main.c, din_phil.c, smartPhilo.c) *)
(* and Lab21 share: the table, food_on_table, which is the same code in    *)
(* all four, and what a dinner has to keep.  pc says where a philosopher   *)
(* stands; each program has labels of its own between "table" and "eat".   *)
(* main creates the philosophers, who begin at once, and joins them all.   *)
(* When a pthread_create fails, Lab9/main.c and Lab21 cancel PHILOSOPHERS   *)
(* threads, those that were never created too: nothing is said of the      *)
(* process from then on.  The other two do not look; there it succeeds.    *)
(***************************************************************************)
EXTENDS Integers, FiniteSets

CONSTANTS PHILOSOPHERS, FOOD

ASSUME TableSize == PHILOSOPHERS \in Nat \ {0, 1} /\ FOOD \in Nat \ {0}

VARIABLES
  food,        (* the static food of food_on_table                          *)
  pc,          (* where each philosopher stands                             *)
  eaten,       (* the meals each has finished, eatenFood in Lab21           *)
  main,        (* "create", "join", "left", "undefined"                     *)
  created      (* the philosophers created so far                           *)

mainVars == <<main, created>>
dinnerVars == <<food, pc, eaten>>

Philosophers == 0 .. PHILOSOPHERS - 1
RightFork(p) == p
LeftFork(p) == (p + 1) % PHILOSOPHERS
Neighbours(p) == {LeftFork(p), (p + PHILOSOPHERS - 1) % PHILOSOPHERS} \ {p}

DinnerInit ==
  /\ food = FOOD
  /\ pc = [p \in Philosophers |-> "table"]
  /\ eaten = [p \in Philosophers |-> 0]
  /\ main = "create" /\ created = 0

Create ==
  /\ main = "create"
  /\ created' = created + 1
  /\ main' = IF created' = PHILOSOPHERS THEN "join" ELSE "create"

cancel_threads == main = "create" /\ main' = "undefined" /\ UNCHANGED created

(* The joins of all philosophers; main then destroys the mutexes.          *)
Join ==
  /\ main = "join" /\ \A p \in Philosophers : pc[p] = "done"
  /\ main' = "left"
  /\ UNCHANGED created

(* A philosopher that was created acts, in a process that goes on.         *)
Seated(p) == p < created /\ main # "undefined" /\ UNCHANGED mainVars

Goto(p, label) == pc' = [pc EXCEPT ![p] = label]

(* Mutant of FoodOnTable: the value before the decrement is returned.      *)
FoodOnTableBefore(p, next) ==
  /\ pc[p] = "table"
  /\ food' = IF food > 0 THEN food - 1 ELSE 0
  /\ Goto(p, IF food = 0 THEN "done" ELSE next)
  /\ UNCHANGED eaten

(* f = food_on_table(), and the test of f that ends the loop.              *)
FoodOnTable(p, next) ==
  /\ pc[p] = "table"
  /\ food' = IF food > 0 THEN food - 1 ELSE 0
  /\ Goto(p, IF food' = 0 THEN "done" ELSE next)
  /\ UNCHANGED eaten
-----------------------------------------------------------------------------
Eating(p) == pc[p] = "eat"
AtDish == {p \in Philosophers : pc[p] \notin {"table", "downRight", "wake", "done"}}

MealsOf[n \in 0 .. PHILOSOPHERS] ==
  IF n = 0 THEN 0 ELSE MealsOf[n - 1] + eaten[n - 1]

(* food_on_table takes the last portion off the table and says there is    *)
(* none: FOOD portions make FOOD - 1 meals, each one of a philosopher.     *)
DishesExact ==
  MealsOf[PHILOSOPHERS] + Cardinality(AtDish)
    = FOOD - food - (IF food = 0 THEN 1 ELSE 0)
=============================================================================
