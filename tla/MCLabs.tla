------------------------------- MODULE MCLabs -------------------------------
(***************************************************************************)
(* The small programs, each as one choice of program in the initial state; *)
(* a program leaves the variables of the others as they are, and those of  *)
(* a program that is not chosen have one initial value.                    *)
(*                                                                         *)
(* The instances: Lab10, Lab12 and Lab13 with the 10 lines of the source;  *)
(* Lab8 with three threads that may be apart by two blocks of two terms;   *)
(* Lab7 with five terms for three threads, so that not all get as many;    *)
(* Lab22 with two parts of a kind, the least that an A too many for a      *)
(* module needs; Lab6 with a directory in the root and up to three files,  *)
(* two beside each other, where two descriptors are too few for a copy and *)
(* the directory it is in; Lab16 and Lab17 with two or three strings.      *)
(***************************************************************************)
EXTENDS Turns

CONSTANTS Nobody, THREADS_NUM, ITERATIONS_NUM, MaxBlocks,
          Entries, Root, Parent, Limits,    (* the tree and descriptors of Lab6      *)
          Lines, MaxPushes                  (* the strings of Lab16 and Lab17        *)

ASSUME NobodyIsNoThread == Nobody \notin Threads \cup {"main", "sorter"}
ASSUME SizesPositive ==
  {THREADS_NUM, ITERATIONS_NUM, MaxBlocks} \subseteq Nat \ {0}
ASSUME StringsRanked == Lines \subseteq Nat

VARIABLES
  program,
  mute, ready, k, i,                                           \* Lab10
  mutex, waiting, spurious,                                    \* Lab12
  sem,                                                         \* Lab13
  main8, made8, at, flag, max_iter, com_iter, term, added,
  joined,                                                      \* Lab8
  plan, main1, made, said, saidMain, joined1,                  \* Lab1-3
  lab, main4, thread4, word, enabled, pending, cleanup,
  alarmed, flag_to_finish, handled,                            \* Lab4, Lab5
  main7, created, joined7, at7, pi, partial_sum, result,       \* Lab7
  stock, parts, made22, running, moduleAt, widgetAt, widgets,  \* Lab22
  MaxOpen, kind, copyAt, unread, held, copy, reported,
  undefined,                                                   \* Lab6
  list, pushed, listMutex, mainAt, sorterAt, alarm, line,
  printed16,                                                   \* Lab16
  relock17, str, pushed17, mutex17, main17, curNode, freed,
  flag17, sorter17, listStr, nestedNode, tmp, first, alarm17,
  installed, undefined17                                       \* Lab17

Mutexes == INSTANCE MutexTurns
Cond == INSTANCE CondTurns
Sems == INSTANCE SemTurns
Pi == INSTANCE PiBarrier WITH i <- term
First == INSTANCE FirstThreads
Cancels == INSTANCE Cancel
Shares == INSTANCE PiShares WITH ITERATIONS_NUM <- 5
Line == INSTANCE ProductionLine WITH sem <- stock, MaxParts <- 2
Tree == INSTANCE CopyTree
Sorted == INSTANCE SortedList
Nodes == INSTANCE LockedNodes

ASSUME EntriesInTree == Tree!IsTree /\ Limits \subseteq Nat

(* The parents of the instance.                                            *)
MCParent == [dir |-> "root", file |-> "root", inner |-> "dir"]

lab10 == <<mute, ready, k, i>>
lab12 == <<mutex, waiting, spurious>>
lab13 == sem
lab8 == <<main8, made8, at, flag, max_iter, com_iter, term, added, joined>>
lab1 == <<plan, main1, made, said, saidMain, joined1>>
lab4 == <<lab, main4, thread4, word, enabled, pending, cleanup, alarmed,
          flag_to_finish, handled>>
lab7 == <<main7, created, joined7, at7, pi, partial_sum, result>>
lab22 == <<stock, parts, made22, running, moduleAt, widgetAt, widgets>>
lab6 == <<MaxOpen, kind, copyAt, unread, held, copy, reported, undefined>>
lab16 == <<list, pushed, listMutex, mainAt, sorterAt, alarm, line, printed16>>
lab17 == <<relock17, str, pushed17, mutex17, main17, curNode, freed, flag17, sorter17,
           listStr, nestedNode, tmp, first, alarm17, installed, undefined17>>
vars == <<program, turnVars, lab10, lab12, lab13, lab8, lab1, lab4, lab7, lab22, lab6,
          lab16, lab17>>

Turning == {"Lab10", "Lab12", "Lab13"}
Programs == Turning \cup {"Lab1-3", "Lab4-5", "Lab6", "Lab7", "Lab8", "Lab16", "Lab17", "Lab22"}

Init ==
  /\ program \in Programs
  /\ IF program = "Lab10" THEN Mutexes!Init
     ELSE mute = <<>> /\ ready = FALSE /\ k = <<>> /\ i = <<>>
  /\ IF program = "Lab12" THEN Cond!Init
     ELSE mutex = "free" /\ waiting = {} /\ spurious = FALSE
  /\ IF program = "Lab13" THEN Sems!Init ELSE sem = <<>>
  /\ program \notin Turning =>
       pc = [t \in Threads |-> "done"] /\ printed = [t \in Threads |-> 0]
  /\ Pi!Init
  /\ First!Init /\ (program # "Lab1-3" => plan = First!Lab1)
  /\ Cancels!Init /\ (program # "Lab4-5" => lab = "Lab4")
  /\ Shares!Init
  /\ Line!Init
  /\ Tree!Init
  /\ program # "Lab6" => /\ MaxOpen = CHOOSE n \in Limits : TRUE
                         /\ \A e \in DOMAIN kind : kind[e] = "dir"
  /\ Sorted!Init
  /\ Nodes!Init /\ (program # "Lab17" => relock17 = "fails")

(* A step of program p leaves the variables of the others alone.           *)
Only(p) ==
  /\ program = p /\ UNCHANGED program
  /\ p \notin Turning => UNCHANGED turnVars
  /\ p # "Lab10" => UNCHANGED lab10
  /\ p # "Lab12" => UNCHANGED lab12
  /\ p # "Lab13" => UNCHANGED lab13
  /\ p # "Lab8" => UNCHANGED lab8
  /\ p # "Lab1-3" => UNCHANGED lab1
  /\ p # "Lab4-5" => UNCHANGED lab4
  /\ p # "Lab7" => UNCHANGED lab7
  /\ p # "Lab22" => UNCHANGED lab22
  /\ p # "Lab6" => UNCHANGED lab6
  /\ p # "Lab16" => UNCHANGED lab16
  /\ p # "Lab17" => UNCHANGED lab17

Thread(t) ==
  \/ Only("Lab10") /\ Mutexes!Thread(t)
  \/ Only("Lab12") /\ Cond!Thread(t)
  \/ Only("Lab13") /\ Sems!Thread(t)
SpuriousWakeup(t) == Only("Lab12") /\ Cond!SpuriousWakeup(t)

Worker(t) == Only("Lab8") /\ Pi!Worker(t)
Main8 == Only("Lab8") /\ Pi!Main
Sigint == Only("Lab8") /\ Pi!Sigint

PrintLine1(t) == Only("Lab1-3") /\ First!PrintLine(t)
Main1 == Only("Lab1-3") /\ First!Main

Main4 == Only("Lab4-5") /\ Cancels!Main
Thread4 == Only("Lab4-5") /\ Cancels!Thread
sigAlarm == Only("Lab4-5") /\ Cancels!sigAlarm

Main7 == Only("Lab7") /\ Shares!Main
Thread7(t) == Only("Lab7") /\ Shares!Thread(t)

createDetail(d) == Only("Lab22") /\ Line!createDetail(d)
createModule == Only("Lab22") /\ Line!createModule
Main22 == Only("Lab22") /\ Line!main

cpFunction(e) == Only("Lab6") /\ Tree!cpFunction(e)

Lab16 == Only("Lab16") /\ (Sorted!Main \/ Sorted!Sorter \/ Sorted!Alarm \/ Sorted!SpuriousWakeup)
Lab17 == Only("Lab17") /\ Nodes!Next

(* All programs but Lab16 end here; Lab12, Lab6 and Lab17 also stop where  *)
(* threads wait for ever.                                                  *)
Next ==
  \/ \E t \in Threads : Thread(t) \/ SpuriousWakeup(t)
  \/ \E t \in Pi!Workers : Worker(t)
  \/ Main8 \/ Sigint
  \/ \E t \in DOMAIN said : PrintLine1(t)
  \/ Main1
  \/ Main4 \/ Thread4 \/ sigAlarm
  \/ Main7
  \/ \E t \in Shares!Threads7 : Thread7(t)
  \/ \E d \in Line!Details : createDetail(d)
  \/ createModule \/ Main22
  \/ \E e \in Entries : cpFunction(e)
  \/ Lab16 \/ Lab17

(* Every thread of a program that is to end goes on; an alarm that is set  *)
(* goes off.  SIGINT need not come, nor a wakeup without a signal.         *)
FairSpec ==
  /\ Init /\ [][Next]_vars
  /\ \A t \in Threads : WF_vars(Thread(t))
  /\ \A t \in Pi!Workers : WF_vars(Worker(t))
  /\ WF_vars(Main8)
  /\ \A t \in 1 .. 4 : WF_vars(PrintLine1(t))
  /\ WF_vars(Main1)
  /\ WF_vars(Main4) /\ WF_vars(Thread4) /\ WF_vars(sigAlarm)
  /\ WF_vars(Main7) /\ (\A t \in Shares!Threads7 : WF_vars(Thread7(t)))
  /\ \A d \in Line!Details : WF_vars(createDetail(d))
  /\ WF_vars(createModule) /\ WF_vars(Main22)
  /\ \A e \in Entries : WF_vars(cpFunction(e))
-----------------------------------------------------------------------------
(* The threads take turns, the parent first.  In Lab12 this depends on     *)
(* every wakeup being signalled, as nothing is tested after the wait.      *)
InTurn == (program \in Turning /\ ~spurious) => Alternate

(* The terms of the series are divided among the threads: in Lab8 all end  *)
(* with as many, in Lab7 main's sum has each term once.                    *)
SharesEqual == /\ program = "Lab8" => Pi!SharesEqual
               /\ program = "Lab7" => Shares!EveryTermOnce

(* No output is cut off: what is joined has printed everything (Lab1 to    *)
(* Lab3), and a cancellation falls between two sentences (Lab4, Lab5).     *)
OutputWhole == First!JoinedFirst /\ Cancels!WholeSentences

(* The strings of both lists outlive pushes, prints and sorts.             *)
ListIntact == Sorted!ListIntact /\ Nodes!NodesIntact

(* No file of the tree is left uncopied without a message (Lab6).          *)
NothingLost == Tree!NothingLost

(* Both threads print all their lines and leave, the last one too, if the  *)
(* child was created (else Lab10 and Lab13 wait for ever); so do           *)
(* the first threads, and the one that is canceled ends and is joined.     *)
BothFinish == /\ program \in Turning => <>(Finished \/ spurious \/ pc["child"] = "failed")
              /\ program = "Lab1-3" => First!AllSaid
              /\ program = "Lab4-5" => Cancels!ThreadJoined

(* main joins all the threads of both series for pi and prints the sum.    *)
SumPrinted == /\ program = "Lab8" => Pi!SumPrinted
              /\ program = "Lab7" => Shares!SumOrFailure

(* All threads of the copy end, but for the one starvation (Lab6).         *)
CopyEnds == program = "Lab6" => Tree!CopyEnds

(* Every part ends in a widget, if all the makers are there (Lab22).       *)
WidgetsMade == program = "Lab22" => Line!WidgetsMade
=============================================================================
