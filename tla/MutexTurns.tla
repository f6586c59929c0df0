----------------------------- MODULE MutexTurns -----------------------------
(***************************************************************************)
(* Lab10: turns by three error-checking mutexes.  Each step of a thread    *)
(* locks the next mutex of the ring and unlocks the one after it, which it *)
(* took the step before; a thread never holds fewer than one, so the other *)
(* cannot overtake it.  An error-checking mutex refuses to be locked by    *)
(* its holder or unlocked by another thread, and the code goes on.         *)
(***************************************************************************)
EXTENDS Turns

CONSTANT Nobody

VARIABLES
  mute,           (* the holder of each mutex                              *)
  ready,
  k, i            (* the locals of print_message                           *)

vars == <<turnVars, mute, ready, k, i>>

Init ==
  /\ InitTurns
  /\ mute = [m \in 0 .. 2 |-> IF m = 2 THEN "parent" ELSE Nobody]
  /\ ready = FALSE
  /\ k = [t \in Threads |-> 1]
  /\ i = [t \in Threads |-> 0]

Locked(t, m) == IF mute[m] = t THEN mute' = mute
                ELSE mute[m] = Nobody /\ mute' = [mute EXCEPT ![m] = t]
Unlocked(t, m) == mute' = IF mute[m] = t THEN [mute EXCEPT ![m] = Nobody] ELSE mute

(* The parent's loop: it waits for the child to hold its first mutex.      *)
Yield ==
  /\ pc["parent"] = "yield" /\ ready
  /\ Goto("parent", "begin")
  /\ UNCHANGED <<printed, mute, ready, k, i>>

(* Mutant of Begin: the first thread takes no mutex before its loop.       *)
BeginBare(t) ==
  /\ pc[t] = "begin"
  /\ IF ready THEN UNCHANGED k ELSE k' = [k EXCEPT ![t] = 0]
  /\ ready' = TRUE
  /\ Goto(t, "lock")
  /\ UNCHANGED <<printed, mute, i>>

(* The thread that finds ready unset starts with one mutex more and at 0.  *)
Begin(t) ==
  /\ pc[t] = "begin"
  /\ IF ready THEN UNCHANGED <<mute, k>>
              ELSE Locked(t, 1) /\ k' = [k EXCEPT ![t] = 0]
  /\ ready' = TRUE
  /\ Goto(t, "lock")
  /\ UNCHANGED <<printed, i>>

Lock(t) ==
  /\ pc[t] = "lock" /\ i[t] < 3 * Strings
  /\ Locked(t, k[t])
  /\ k' = [k EXCEPT ![t] = (@ + 1) % 3]
  /\ Goto(t, "unlock")
  /\ UNCHANGED <<printed, ready, i>>

Advance(t) ==
  /\ k' = [k EXCEPT ![t] = (@ + 1) % 3]
  /\ i' = [i EXCEPT ![t] = @ + 1]
  /\ Goto(t, "lock")

(* The line of every third step is printed after the unlock, while the     *)
(* other thread goes on.                                                   *)
Unlock(t) ==
  /\ pc[t] = "unlock"
  /\ Unlocked(t, k[t])
  /\ IF k[t] = 2 THEN Goto(t, "print") /\ UNCHANGED <<k, i>> ELSE Advance(t)
  /\ UNCHANGED <<printed, ready>>

PrintLine(t) ==
  /\ pc[t] = "print"
  /\ PrintString(t)
  /\ Advance(t)
  /\ UNCHANGED <<mute, ready>>

(* After the loop: one more unlock, and main joins the child.              *)
Leave(t) ==
  /\ pc[t] = "lock" /\ i[t] = 3 * Strings
  /\ Unlocked(t, 2)
  /\ Goto(t, IF t = "parent" THEN "join" ELSE "done")
  /\ UNCHANGED <<printed, ready, k, i>>

Join ==
  /\ pc["parent"] = "join" /\ pc["child"] = "done"
  /\ Goto("parent", "done")
  /\ UNCHANGED <<printed, mute, ready, k, i>>

Thread(t) ==
  \/ Begin(t) \/ Lock(t) \/ Unlock(t) \/ PrintLine(t) \/ Leave(t)
  \/ /\ t = "parent"
     /\ \/ Create("begin", "yield", "yield") /\ UNCHANGED <<mute, ready, k, i>>
        \/ Yield \/ Join
=============================================================================
