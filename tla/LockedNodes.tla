---------------------------- MODULE LockedNodes -----------------------------
(***************************************************************************)
(* Lab17: the list of Lab16 with a mutex in each node.  push locks the old *)
(* head and printList one node at a time.  The sorter locks a node and the *)
(* next one, exchanges strings with all later nodes, unlocks the first and *)
(* goes on to the next, which it still holds: a second lock by its holder, *)
(* which blocks for ever or fails (relock17).  SIGINT makes main free the  *)
(* list while the sorter may be in it, or comes back to it later.          *)
(*                                                                         *)
(* Nodes are numbered as they are made; next of k is k - 1, and main, with *)
(* one step per lock and unlock, never holds a mutex between two steps.    *)
(* Nobody but the sorter uses listMutex.  Input does not end, and what     *)
(* printList reads of a string that is being copied is left out.           *)
(***************************************************************************)
EXTENDS Integers, Sequences, FiniteSets

CONSTANTS Lines, Nobody, MaxPushes

VARIABLES
  relock17,
  str, pushed17,          (* the strings of the nodes; history             *)
  mutex17,                (* who holds the mutex of each node              *)
  main17, curNode,        (* main's place, and the node it prints or frees *)
  freed,                  (* the nodes that are freed                      *)
  flag17,
  sorter17, listStr,      (* the sorter's place, its node, the later one   *)
  nestedNode, tmp,        (* and the string between them                   *)
  first,                  (* history: the node its pass began at           *)
  alarm17, installed,     (* the alarm is set, the handlers are installed  *)
  undefined17             (* the sorter reads freed memory                 *)

sorterVars == <<sorter17, listStr, nestedNode, tmp, first>>
mainVars == <<pushed17, main17, curNode, freed>>

head == Len(str)

Init ==
  /\ relock17 \in {"blocks", "fails"}
  /\ str = <<0>> /\ pushed17 = [v \in Lines \cup {0} |-> IF v = 0 THEN 1 ELSE 0]
  /\ mutex17 = <<Nobody>>
  /\ main17 = "test" /\ curNode = 0 /\ freed = {} /\ flag17 = FALSE
  /\ sorter17 = "alarm" /\ listStr = 0 /\ nestedNode = 0 /\ tmp = 0 /\ first = 0
  /\ alarm17 = FALSE /\ installed = FALSE /\ undefined17 = FALSE

Test ==
  /\ main17 = "test"
  /\ main17' = IF flag17 THEN "free" ELSE "read"
  /\ curNode' = head
  /\ UNCHANGED <<str, pushed17, mutex17, freed>>

Read ==
  /\ main17 = "read"
  /\ \/ main17' = "print" /\ curNode' = head
     \/ Len(str) <= MaxPushes /\ main17' = "push" /\ UNCHANGED curNode
  /\ UNCHANGED <<str, pushed17, mutex17, freed>>

Push ==
  /\ main17 = "push" /\ mutex17[head] = Nobody
  /\ \E v \in Lines : str' = Append(str, v) /\ pushed17' = [pushed17 EXCEPT ![v] = @ + 1]
  /\ mutex17' = Append(mutex17, Nobody)
  /\ main17' = "test"
  /\ UNCHANGED <<curNode, freed>>

PrintNode ==
  /\ main17 = "print"
  /\ IF curNode = 0 THEN main17' = "test" /\ UNCHANGED curNode
     ELSE mutex17[curNode] = Nobody /\ curNode' = curNode - 1 /\ UNCHANGED main17
  /\ UNCHANGED <<str, pushed17, mutex17, freed>>

(* A mutex that is locked is not destroyed, and exit ends the process.     *)
FreeNode ==
  /\ main17 = "free"
  /\ \/ /\ curNode # 0 /\ mutex17[curNode] = Nobody
        /\ freed' = freed \cup {curNode} /\ curNode' = curNode - 1 /\ UNCHANGED main17
     \/ /\ curNode # 0 /\ mutex17[curNode] # Nobody
        /\ main17' = "exit" /\ UNCHANGED <<curNode, freed>>
     \/ curNode = 0 /\ main17' = "done" /\ UNCHANGED <<curNode, freed>>
  /\ UNCHANGED <<str, pushed17, mutex17>>

Main ==
  /\ Test \/ Read \/ Push \/ PrintNode \/ FreeNode
  /\ UNCHANGED <<relock17, flag17, sorterVars, alarm17, installed, undefined17>>

Sigint ==
  /\ installed /\ ~flag17
  /\ flag17' = TRUE
  /\ UNCHANGED <<relock17, str, mainVars, mutex17, sorterVars, alarm17, installed,
                 undefined17>>
-----------------------------------------------------------------------------
(* The loop of sortListener, to the wait.                                  *)
SetAlarm ==
  /\ sorter17 = "alarm"
  /\ IF flag17 THEN sorter17' = "done" /\ UNCHANGED <<alarm17, installed>>
               ELSE sorter17' = "wait" /\ alarm17' = TRUE /\ installed' = TRUE
  /\ UNCHANGED <<str, mutex17, listStr, nestedNode, tmp, first>>

SorterWait ==
  /\ sorter17 = "wait"
  /\ sorter17' = "asleep"
  /\ UNCHANGED <<str, mutex17, listStr, nestedNode, tmp, first, alarm17, installed>>

SortHead ==
  /\ sorter17 = "awake"
  /\ listStr' = head /\ first' = head
  /\ sorter17' = "node"
  /\ UNCHANGED <<str, mutex17, nestedNode, tmp, alarm17, installed>>

(* lockMutex by the sorter.                                                *)
Locks(k) ==
  \/ mutex17[k] = Nobody /\ mutex17' = [mutex17 EXCEPT ![k] = "sorter"]
  \/ mutex17[k] = "sorter" /\ relock17 = "fails" /\ UNCHANGED mutex17

unlockMutex(k) == mutex17' = [mutex17 EXCEPT ![k] = Nobody]

LockNode ==
  /\ sorter17 = "node"
  /\ IF listStr = 1 THEN sorter17' = "alarm" /\ UNCHANGED mutex17
                    ELSE Locks(listStr) /\ sorter17' = "next"
  /\ UNCHANGED <<str, listStr, nestedNode, tmp, first, alarm17, installed>>

LockNext ==
  /\ sorter17 = "next" /\ Locks(listStr - 1)
  /\ nestedNode' = listStr - 1
  /\ sorter17' = "compare"
  /\ UNCHANGED <<str, listStr, tmp, first, alarm17, installed>>

(* Mutant of Compare: the string of the later node is not kept.            *)
CompareForget ==
  /\ sorter17 = "compare" /\ nestedNode # 0
  /\ IF str[listStr] > str[nestedNode]
     THEN /\ str' = [str EXCEPT ![nestedNode] = str[listStr]]
          /\ sorter17' = "exchange"
          /\ UNCHANGED nestedNode
     ELSE nestedNode' = nestedNode - 1 /\ UNCHANGED <<str, sorter17>>
  /\ UNCHANGED <<mutex17, listStr, tmp, first, alarm17, installed>>

Compare ==
  /\ sorter17 = "compare" /\ nestedNode # 0
  /\ IF str[listStr] > str[nestedNode]
     THEN /\ tmp' = str[nestedNode]
          /\ str' = [str EXCEPT ![nestedNode] = str[listStr]]
          /\ sorter17' = "exchange"
          /\ UNCHANGED nestedNode
     ELSE nestedNode' = nestedNode - 1 /\ UNCHANGED <<str, sorter17, tmp>>
  /\ UNCHANGED <<mutex17, listStr, first, alarm17, installed>>

Exchange ==
  /\ sorter17 = "exchange"
  /\ str' = [str EXCEPT ![listStr] = tmp]
  /\ tmp' = 0
  /\ nestedNode' = nestedNode - 1
  /\ sorter17' = "compare"
  /\ UNCHANGED <<mutex17, listStr, first, alarm17, installed>>

UnlockNode ==
  /\ sorter17 = "compare" /\ nestedNode = 0
  /\ unlockMutex(listStr)
  /\ listStr' = listStr - 1
  /\ sorter17' = "node"
  /\ UNCHANGED <<str, nestedNode, tmp, first, alarm17, installed>>

InList == {"node", "next", "compare", "exchange"}

Sorter ==
  /\ \/ SetAlarm \/ SorterWait \/ SortHead
     \/ LockNode \/ LockNext \/ Compare \/ Exchange \/ UnlockNode
  /\ undefined17' = (sorter17 \in InList /\ listStr \in freed)
  /\ UNCHANGED <<relock17, mainVars, flag17>>

(* SIGALRM and its signal, or a wait that returns without one.             *)
Wakeup ==
  /\ \/ alarm17 /\ alarm17' = FALSE
     \/ sorter17 = "asleep" /\ UNCHANGED alarm17
  /\ sorter17' = IF sorter17 = "asleep" THEN "awake" ELSE sorter17
  /\ UNCHANGED <<relock17, str, mainVars, mutex17, flag17, listStr, nestedNode, tmp, first,
                 installed, undefined17>>

Next == ~undefined17 /\ main17 # "exit" /\ (Main \/ Sigint \/ Sorter \/ Wakeup)
-----------------------------------------------------------------------------
Times(s, v) == {k \in DOMAIN s : s[k] = v}
SameStrings(s) == \A v \in Lines \cup {0} : Cardinality(Times(s, v)) = pushed17[v]

(* No string is lost or doubled by exchanges in nodes that are not locked; *)
(* and when the sorter has got to the end, the part of the list it began   *)
(* with is sorted, whatever was pushed meanwhile.                          *)
NodesIntact ==
  ~undefined17 =>
    /\ SameStrings(IF sorter17 = "exchange" THEN [str EXCEPT ![listStr] = tmp] ELSE str)
    /\ sorter17 = "alarm" => \A k \in 2 .. first : str[k] <= str[k - 1]
=============================================================================
