----------------------------- MODULE CondTurns ------------------------------
(***************************************************************************)
(* Lab12: turns by one condition variable.  A thread prints, signals the   *)
(* other and waits, with the mutex held but for the wait, so one action is *)
(* the stretch from one wait to the next.  Nothing is tested around the    *)
(* wait: a wakeup that was not signalled passes for the other's turn.      *)
(***************************************************************************)
EXTENDS Turns

VARIABLES
  mutex,          (* is it held from the start of main to its first wait   *)
  waiting,        (* the threads blocked on condition                      *)
  spurious        (* history: a wait returned without a signal             *)

condVars == <<mutex, waiting, spurious>>

Init ==
  /\ InitTurns
  /\ mutex = "parent"
  /\ waiting = {}
  /\ spurious = FALSE

MayRun(t) == t \notin waiting /\ (t = "parent" \/ mutex # "parent")

(* An iteration: print, signal, wait.                                      *)
Turn(t) ==
  /\ pc[t] = "turn" /\ printed[t] < Strings
  /\ MayRun(t)
  /\ PrintString(t)
  /\ waiting' = {t}
  /\ mutex' = "free"
  /\ UNCHANGED <<pc, spurious>>

(* Mutant of Leave: the last signal is not sent.                           *)
LeaveSilent(t) ==
  /\ pc[t] = "turn" /\ printed[t] = Strings
  /\ MayRun(t)
  /\ Goto(t, "done")
  /\ UNCHANGED <<waiting, mutex, printed, spurious>>

(* After the loop: the last signal, which lets the other leave its wait.   *)
Leave(t) ==
  /\ pc[t] = "turn" /\ printed[t] = Strings
  /\ MayRun(t)
  /\ Goto(t, "done")
  /\ waiting' = {}
  /\ UNCHANGED <<mutex, printed, spurious>>

Thread(t) ==
  \/ /\ t = "parent" /\ Create("turn", "turn", "done")
     /\ UNCHANGED <<mutex, waiting, spurious>>
  \/ Turn(t) \/ Leave(t)

SpuriousWakeup(t) ==
  /\ t \in waiting
  /\ waiting' = waiting \ {t}
  /\ spurious' = TRUE
  /\ UNCHANGED <<pc, printed, mutex>>
=============================================================================
