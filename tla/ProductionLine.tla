--------------------------- MODULE ProductionLine ---------------------------
(***************************************************************************)
(* Lab22: three threads make parts A, B and C, one makes a module of an A  *)
(* and a B, and main makes a widget of a module and a C.  What is ready is *)
(* counted by semaphores.  The loops of the source do not end; here each   *)
(* of the three makes MaxParts parts.  main does not look at the results   *)
(* of pthread_create, which may fail, and of sem_init, which does not.     *)
(***************************************************************************)
EXTENDS Integers, Sequences

CONSTANT MaxParts         (* bound: the parts of each kind                 *)

VARIABLES sem,            (* detailA, detailB, detailC, module             *)
          parts,          (* the parts made of each kind                   *)
          made22, running,        (* the creates tried, the makers there are *)
          moduleAt, widgetAt,
          widgets

Details == {"detailA", "detailB", "detailC"}
Makers == <<"detailA", "detailB", "detailC", "module">>

Init ==
  /\ sem = [s \in Details \cup {"module"} |-> 0]
  /\ parts = [d \in Details |-> 0]
  /\ made22 = 0 /\ running = {}
  /\ moduleAt = "A" /\ widgetAt = "module" /\ widgets = 0

Post(s) == sem' = [sem EXCEPT ![s] = @ + 1]
Wait(s) == sem[s] > 0 /\ sem' = [sem EXCEPT ![s] = @ - 1]

Create ==
  /\ made22 < Len(Makers)
  /\ made22' = made22 + 1
  /\ UNCHANGED running \/ running' = running \cup {Makers[made22']}
  /\ UNCHANGED <<sem, parts, moduleAt, widgetAt, widgets>>

createDetail(d) ==
  /\ d \in running /\ parts[d] < MaxParts
  /\ parts' = [parts EXCEPT ![d] = @ + 1]
  /\ Post(d)
  /\ UNCHANGED <<made22, running, moduleAt, widgetAt, widgets>>

(* Mutant of createModule: B is taken where there was an A.                *)
createModuleOfA ==
  /\ "module" \in running
  /\ \/ moduleAt = "A" /\ Wait("detailA") /\ moduleAt' = "B"
     \/ moduleAt = "B" /\ Wait("detailA") /\ moduleAt' = "post"
     \/ moduleAt = "post" /\ Post("module") /\ moduleAt' = "A"
  /\ UNCHANGED <<parts, made22, running, widgetAt, widgets>>

createModule ==
  /\ "module" \in running
  /\ \/ moduleAt = "A" /\ Wait("detailA") /\ moduleAt' = "B"
     \/ moduleAt = "B" /\ Wait("detailB") /\ moduleAt' = "post"
     \/ moduleAt = "post" /\ Post("module") /\ moduleAt' = "A"
  /\ UNCHANGED <<parts, made22, running, widgetAt, widgets>>

createWidget ==
  /\ made22 = Len(Makers)
  /\ \/ widgetAt = "module" /\ Wait("module") /\ widgetAt' = "C" /\ UNCHANGED widgets
     \/ /\ widgetAt = "C" /\ Wait("detailC") /\ widgetAt' = "module"
        /\ widgets' = widgets + 1
  /\ UNCHANGED <<parts, made22, running, moduleAt>>

main == Create \/ createWidget
-----------------------------------------------------------------------------
(* Every part ends in a widget, in whatever order the parts are made: none *)
(* is lost at a semaphore or left in the hands of a thread.  But where one *)
(* of the makers was not created, there is never a widget.                 *)
WidgetsMade ==
  <>[](IF DOMAIN sem \subseteq running
       THEN widgets = MaxParts /\ \A s \in DOMAIN sem : sem[s] = 0
       ELSE widgets = 0)
=============================================================================
