----------------------------- MODULE SortedList -----------------------------
(***************************************************************************)
(* Lab16: main reads lines, pushes them at the head of a list and prints   *)
(* the list at an empty line; a second thread sorts the list each time the *)
(* alarm wakes it.  One mutex guards the list.                             *)
(*                                                                         *)
(* The list is the sequence of its strings, from head, the last of them    *)
(* that of the node main begins with; a string is its rank.  Input does    *)
(* not end (a read at the end of it would write before the buffer), and    *)
(* Lab16 has no handler for SIGINT, which ends the process.                *)
(***************************************************************************)
EXTENDS Integers, Sequences, SequencesExt, FiniteSets

CONSTANTS Lines, Nobody,
          MaxPushes       (* bound: the lines pushed                       *)

VARIABLES
  list, pushed,           (* the list; history: how often each string was  *)
                          (* pushed                                        *)
  listMutex,
  mainAt, sorterAt,
  alarm,                  (* the alarm is set                              *)
  line,                   (* what main has read                            *)
  printed16               (* the strings main has printed of the list      *)

Empty == 0                (* the string of the first node                  *)

Init ==
  /\ list = <<Empty>> /\ pushed = [v \in Lines \cup {Empty} |-> IF v = Empty THEN 1 ELSE 0]
  /\ listMutex = Nobody
  /\ mainAt = "read" /\ sorterAt = "lock"
  /\ alarm = FALSE /\ line = Empty /\ printed16 = <<>>

Lock(t) == listMutex = Nobody /\ listMutex' = t
Unlock == listMutex' = Nobody

push(head_ref, new_data) == <<new_data>> \o head_ref

Read ==
  /\ mainAt = "read"
  /\ \/ mainAt' = "lockToPrint" /\ UNCHANGED line
     \/ /\ Len(list) <= MaxPushes
        /\ line' \in Lines
        /\ mainAt' = "lockToPush"
  /\ UNCHANGED <<list, pushed, listMutex, sorterAt, alarm, printed16>>

Push ==
  /\ mainAt = "lockToPush" /\ listMutex = Nobody
  /\ list' = push(list, line) /\ pushed' = [pushed EXCEPT ![line] = @ + 1]
  /\ mainAt' = "read" /\ line' = Empty
  /\ UNCHANGED <<listMutex, sorterAt, alarm, printed16>>

(* Mutant of StartPrint: the list is printed without the mutex.            *)
StartPrintUnlocked ==
  /\ mainAt = "lockToPrint"
  /\ mainAt' = "print"
  /\ UNCHANGED <<list, pushed, listMutex, sorterAt, alarm, line, printed16>>

StartPrint ==
  /\ mainAt = "lockToPrint" /\ Lock("main")
  /\ mainAt' = "print"
  /\ UNCHANGED <<list, pushed, sorterAt, alarm, line, printed16>>

PrintNode ==
  /\ mainAt = "print"
  /\ IF Len(printed16) < Len(list)
     THEN /\ printed16' = Append(printed16, list[Len(printed16) + 1])
          /\ UNCHANGED <<mainAt, listMutex>>
     ELSE printed16' = <<>> /\ mainAt' = "read" /\ Unlock
  /\ UNCHANGED <<list, pushed, sorterAt, alarm, line>>

(* bubbleStrSort: for each node i, the lower string of it and each later   *)
(* one comes to it.                                                        *)
Exchange(s, i, j) == IF s[i] > s[j] THEN [s EXCEPT ![i] = s[j], ![j] = s[i]] ELSE s
Nested(s, i) ==
  LET after[j \in 0 .. Len(s)] == IF j <= i THEN s ELSE Exchange(after[j - 1], i, j)
  IN  after[Len(s)]
bubbleStrSort(s) ==
  LET after[i \in 0 .. Len(s)] == IF i = 0 THEN s ELSE Nested(after[i - 1], i)
  IN  after[Len(s)]

SorterLock ==
  /\ sorterAt = "lock" /\ Lock("sorter")
  /\ sorterAt' = "alarm"
  /\ UNCHANGED <<list, pushed, mainAt, alarm, line, printed16>>

SetAlarm ==
  /\ sorterAt \in {"alarm", "sorted"}
  /\ alarm' = TRUE
  /\ sorterAt' = "wait"
  /\ UNCHANGED <<list, pushed, listMutex, mainAt, line, printed16>>

SorterWait ==
  /\ sorterAt = "wait"
  /\ Unlock
  /\ sorterAt' = "asleep"
  /\ UNCHANGED <<list, pushed, mainAt, alarm, line, printed16>>

(* SIGALRM, with the signal to the sorter if it sleeps; a wait may also    *)
(* return without one.                                                     *)
Alarm ==
  /\ alarm
  /\ alarm' = FALSE
  /\ sorterAt' = IF sorterAt = "asleep" THEN "awake" ELSE sorterAt
  /\ UNCHANGED <<list, pushed, listMutex, mainAt, line, printed16>>
SpuriousWakeup ==
  /\ sorterAt = "asleep"
  /\ sorterAt' = "awake"
  /\ UNCHANGED <<list, pushed, listMutex, mainAt, alarm, line, printed16>>

Sort ==
  /\ sorterAt = "awake" /\ Lock("sorter")
  /\ list' = bubbleStrSort(list)
  /\ sorterAt' = "sorted"
  /\ UNCHANGED <<pushed, mainAt, alarm, line, printed16>>

Main == Read \/ Push \/ StartPrint \/ PrintNode
Sorter == SorterLock \/ SetAlarm \/ SorterWait \/ Sort
-----------------------------------------------------------------------------
Times(s, v) == {n \in DOMAIN s : s[n] = v}
SameStrings(s) == \A v \in Lines \cup {Empty} : Cardinality(Times(s, v)) = pushed[v]

(* However pushes, sorts and prints interleave, no string is lost or       *)
(* doubled, what is printed is the list as it is at one time, and the list *)
(* is sorted when the sorter has gone through it.                          *)
ListIntact ==
  /\ SameStrings(list)
  /\ IsPrefix(printed16, list)
  /\ sorterAt = "sorted" => \A i \in 1 .. Len(list) - 1 : list[i] <= list[i + 1]
=============================================================================
