---------------------------- MODULE FirstThreads ----------------------------
(***************************************************************************)
(* Lab1, Lab2 and Lab3: main creates threads that print their lines, joins *)
(* them (Lab1 does not) and prints its own.  Each lab is a plan.  A create *)
(* that fails ends main, and the threads that run go on: pthread_exit does *)
(* not end the process.  (Lab3's threads then read their lines on the      *)
(* stack of a main that has ended; it is taken to be there still.)         *)
(***************************************************************************)
EXTENDS Integers

VARIABLES plan, main1, made,
          said,           (* the lines of each thread                      *)
          saidMain, joined1

Lab1 == [threads |-> 1, lines |-> 10, join |-> FALSE, own |-> 10]
Lab2 == [threads |-> 1, lines |-> 10, join |-> TRUE, own |-> 10]
Lab3 == [threads |-> 4, lines |-> 4, join |-> TRUE, own |-> 0]

Init ==
  /\ plan \in {Lab1, Lab2, Lab3}
  /\ main1 = "create" /\ made = 0 /\ joined1 = 0 /\ saidMain = 0
  /\ said = [t \in 1 .. 4 |-> 0]

Create ==
  /\ main1 = "create" /\ made < plan.threads
  /\ \/ /\ made' = made + 1
        /\ main1' = IF made' < plan.threads THEN "create"
                    ELSE IF plan.join THEN "join" ELSE "own"
     \/ main1' = "done" /\ UNCHANGED made
  /\ UNCHANGED <<plan, said, saidMain, joined1>>

PrintLine(t) ==
  /\ t <= made /\ said[t] < plan.lines
  /\ said' = [said EXCEPT ![t] = @ + 1]
  /\ UNCHANGED <<plan, main1, made, saidMain, joined1>>

(* Mutant of Join: the last thread is not joined.                          *)
JoinButLast ==
  /\ main1 = "join"
  /\ said[joined1 + 1] = plan.lines \/ joined1 + 1 = plan.threads
  /\ joined1' = joined1 + 1
  /\ main1' = IF joined1' < plan.threads THEN "join" ELSE "own"
  /\ UNCHANGED <<plan, made, said, saidMain>>

Join ==
  /\ main1 = "join"
  /\ said[joined1 + 1] = plan.lines
  /\ joined1' = joined1 + 1
  /\ main1' = IF joined1' < plan.threads THEN "join" ELSE "own"
  /\ UNCHANGED <<plan, made, said, saidMain>>

PrintOwn ==
  /\ main1 = "own"
  /\ IF saidMain < plan.own THEN saidMain' = saidMain + 1 /\ UNCHANGED main1
                            ELSE main1' = "done" /\ UNCHANGED saidMain
  /\ UNCHANGED <<plan, made, said, joined1>>

Main == Create \/ Join \/ PrintOwn
-----------------------------------------------------------------------------
(* When main has passed its joins, the threads have printed everything:    *)
(* main's lines come behind theirs (Lab2), and its end ends nothing (Lab3). *)
JoinedFirst ==
  plan.join /\ joined1 = plan.threads =>
    \A t \in 1 .. made : said[t] = plan.lines

(* All threads that were created print all their lines, and main ends.     *)
AllSaid == <>(main1 = "done" /\ \A t \in 1 .. made : said[t] = plan.lines)
=============================================================================
