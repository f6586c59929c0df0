------------------------------ MODULE SemTurns ------------------------------
(***************************************************************************)
(* Lab13: turns by two semaphores.  The parent waits on sem2, prints and   *)
(* posts sem1, the child the other way round.                              *)
(***************************************************************************)
EXTENDS Turns

VARIABLE sem              (* the value of sem1 and sem2                    *)

Own(t) == IF t = "parent" THEN "sem2" ELSE "sem1"
Others(t) == IF t = "parent" THEN "sem1" ELSE "sem2"

Init ==
  /\ InitTurns
  /\ sem = [sem1 |-> 0, sem2 |-> 1]

Wait(t) ==
  /\ pc[t] = "wait" /\ printed[t] < Strings
  /\ sem[Own(t)] > 0
  /\ sem' = [sem EXCEPT ![Own(t)] = @ - 1]
  /\ Goto(t, "print")
  /\ UNCHANGED printed

PrintLine(t) ==
  /\ pc[t] = "print"
  /\ PrintString(t)
  /\ Goto(t, "post")
  /\ UNCHANGED sem

Post(t) ==
  /\ pc[t] = "post"
  /\ sem' = [sem EXCEPT ![Others(t)] = @ + 1]
  /\ Goto(t, "wait")
  /\ UNCHANGED printed

(* After the loop main joins the child before it destroys the semaphores.  *)
Leave(t) ==
  /\ pc[t] = "wait" /\ printed[t] = Strings
  /\ t = "parent" => pc["child"] = "done"
  /\ Goto(t, "done")
  /\ UNCHANGED <<printed, sem>>

Thread(t) ==
  \/ t = "parent" /\ Create("wait", "wait", "wait") /\ UNCHANGED sem
  \/ Wait(t) \/ PrintLine(t) \/ Post(t) \/ Leave(t)
=============================================================================
