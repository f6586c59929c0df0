-------------------------- MODULE MessageQueueSem ---------------------------
(***************************************************************************)
(* Lab23-24 with sem_implementation/message_queue.c: sem_put counts the    *)
(* room and sem_get the messages, and a mutex guards the list.             *)
(* is_destroyed is tested before the mutex is taken, and drop frees the    *)
(* list without it: a thread that is past its test then works on freed     *)
(* nodes.  And put measures its message when it has unlocked the list and  *)
(* posted sem_get: a consumer may have freed the node meanwhile.  What is  *)
(* done with freed nodes the language leaves undefined: the model raises   *)
(* corrupt for the list, overread for the measure, and claims nothing of   *)
(* the process from there on.                                              *)
(*                                                                         *)
(* A message is the memory cell malloc gave it, as in MessageQueueCond.    *)
(***************************************************************************)
EXTENDS Integers, Sequences, FiniteSets, MessageList

CONSTANTS Producers, Consumers, Main, Cells, messages_limit

Threads == Producers \cup Consumers \cup {Main}

VARIABLES
  mutex,           (* the thread that holds mutex_access, or Nil            *)
  sem,             (* the values of sem_put and sem_get                     *)
  list,            (* queue->in, queue->out and the nodes' pointers         *)
  is_destroyed,
  live,            (* the cells allocated and not freed                     *)
  pc,              (* where each thread stands                              *)
  new_message,     (* what each producer has put and not yet measured, or   *)
                   (* Nil if it is freed by now                             *)
  corrupt,         (* a put or get worked on a list with freed nodes, or    *)
                   (* one of them raced with the walk that frees it         *)
  overread,        (* a put measured a freed node                           *)
  buffer, got,     (* history: the stored messages, each consumer's last    *)
  caught           (* history: the threads past their test when the flag    *)
                   (* was raised                                            *)

vars == <<mutex, sem, list, is_destroyed, live, pc, new_message, corrupt, overread,
          buffer, got, caught>>
Message_Queue == <<mutex, sem, list, is_destroyed>>
dataVars == <<list, live, new_message, corrupt, overread, buffer, got>>

Init ==
  /\ mutex = Nil
  /\ sem = [put |-> messages_limit, get |-> 0]
  /\ list = EmptyList(Cells)
  /\ is_destroyed = FALSE
  /\ live = {}
  /\ pc = [t \in Threads |-> IF t \in Producers THEN "put"
                             ELSE IF t \in Consumers THEN "get" ELSE "run"]
  /\ new_message = [p \in Producers |-> Nil]
  /\ corrupt = FALSE /\ overread = FALSE
  /\ buffer = <<>>
  /\ got = [c \in Consumers |-> Nil]
  /\ caught = {}

Goto(t, label) == pc' = [pc EXCEPT ![t] = label]

SemWait(t, s, from, to) ==
  /\ pc[t] = from
  /\ sem[s] > 0
  /\ sem' = [sem EXCEPT ![s] = @ - 1]
  /\ Goto(t, to)
  /\ UNCHANGED <<mutex, is_destroyed, caught, dataVars>>

SemPost(t, s, from, to) ==
  /\ pc[t] = from
  /\ sem' = [sem EXCEPT ![s] = @ + 1]
  /\ Goto(t, to)
  /\ UNCHANGED <<mutex, is_destroyed, caught, dataVars>>

(* The look at is_destroyed, on the way from the semaphore to the mutex.   *)
Test(t, from, refused, go) ==
  /\ pc[t] = from
  /\ Goto(t, IF is_destroyed THEN refused ELSE go)
  /\ UNCHANGED <<mutex, sem, is_destroyed, caught, dataVars>>

Lock(t, from, to) ==
  /\ pc[t] = from
  /\ mutex = Nil
  /\ mutex' = t
  /\ Goto(t, to)
  /\ UNCHANGED <<sem, is_destroyed, caught, dataVars>>

Dangling(c) == c # Nil /\ c \notin live

Free(cells) ==
  /\ live' = live \ cells
  /\ new_message' = [p \in Producers |-> IF new_message[p] \in cells THEN Nil
                                                                    ELSE new_message[p]]
-----------------------------------------------------------------------------
(* message_queue_put                                                       *)
PutStore(p) ==
  /\ pc[p] = "putIn"
  /\ IF Dangling(list.head)
     THEN corrupt' = TRUE /\ UNCHANGED <<list, live, new_message, buffer>>
     ELSE /\ \E m \in Cells \ live : /\ live' = live \cup {m}
                                  /\ new_message' = [new_message EXCEPT ![p] = m]
                                  /\ list' = PushHead(list, m)
                                  /\ buffer' = Append(buffer, m)
          /\ UNCHANGED corrupt
  /\ mutex' = Nil
  /\ Goto(p, "putPost")
  /\ UNCHANGED <<sem, is_destroyed, overread, got, caught>>

(* strlen(new_message->text), outside the mutex; of a freed node it may    *)
(* still find an end.                                                      *)
PutLength(p) ==
  /\ pc[p] = "putLength"
  /\ new_message' = [new_message EXCEPT ![p] = Nil]
  /\ \/ Goto(p, "put") /\ UNCHANGED overread
     \/ new_message[p] = Nil /\ overread' = TRUE /\ UNCHANGED pc
  /\ UNCHANGED <<Message_Queue, live, corrupt, buffer, got, caught>>

Producer(p) ==
  \/ SemWait(p, "put", "put", "putTest")
  \/ Test(p, "putTest", "putBack", "putLock")
  \/ SemPost(p, "put", "putBack", "exit")
  \/ Lock(p, "putLock", "putIn")
  \/ PutStore(p)
  \/ SemPost(p, "get", "putPost", "putLength")
  \/ PutLength(p)
-----------------------------------------------------------------------------
(* message_queue_get                                                       *)
GetTake(c) ==
  /\ pc[c] = "getIn"
  /\ IF Dangling(list.tail)
     THEN corrupt' = TRUE /\ UNCHANGED <<list, live, new_message, buffer, got>>
     ELSE /\ got' = [got EXCEPT ![c] = list.tail]
          /\ Free({list.tail})
          /\ list' = PopTail(list)
          /\ buffer' = Tail(buffer)
          /\ UNCHANGED corrupt
  /\ mutex' = Nil
  /\ Goto(c, "getPost")
  /\ UNCHANGED <<sem, is_destroyed, overread, caught>>

(* Mutants of GetBack and GetTest: the token is kept; the queue is not     *)
(* looked at before the list is.                                           *)
GetBackSilent(c) ==
  /\ pc[c] = "getBack"
  /\ Goto(c, "exit")
  /\ UNCHANGED <<mutex, sem, is_destroyed, caught, dataVars>>
GetTestNone(c) ==
  /\ pc[c] = "getTest"
  /\ Goto(c, "getLock")
  /\ UNCHANGED <<mutex, sem, is_destroyed, caught, dataVars>>

GetBack(c) == SemPost(c, "get", "getBack", "exit")
GetTest(c) == Test(c, "getTest", "getBack", "getLock")

Consumer(c) ==
  \/ SemWait(c, "get", "get", "getTest")
  \/ GetTest(c)
  \/ GetBack(c)
  \/ Lock(c, "getLock", "getIn")
  \/ GetTake(c)
  \/ SemPost(c, "put", "getPost", "get")
-----------------------------------------------------------------------------
(* message_queue_drop, run by main after 20 seconds.                       *)
Inside == {t \in Threads : pc[t] \in {"putLock", "putIn", "getLock", "getIn"}}

DropRaise ==
  /\ pc[Main] = "run"
  /\ is_destroyed' = TRUE
  /\ caught' = Inside
  /\ Goto(Main, "dropPut")
  /\ UNCHANGED <<mutex, sem, dataVars>>

(* Mutant of DropFree: only the first node is freed.                       *)
DropFreeHead ==
  /\ pc[Main] = "dropFree"
  /\ corrupt' = (corrupt \/ mutex # Nil)
  /\ Free({list.head})
  /\ Goto(Main, "join")
  /\ UNCHANGED <<mutex, sem, is_destroyed, list, overread, buffer, got, caught>>

(* The walk from queue->in, which reads next of each node before the free. *)
(* A thread that holds the mutex then changes the list at the same time.   *)
DropFree ==
  /\ pc[Main] = "dropFree"
  /\ corrupt' = (corrupt \/ mutex # Nil)
  /\ Free(Walked(list))
  /\ Goto(Main, "join")
  /\ UNCHANGED <<mutex, sem, is_destroyed, list, overread, buffer, got, caught>>

Join ==
  /\ pc[Main] = "join"
  /\ \A t \in Threads \ {Main} : pc[t] = "exit"
  /\ Goto(Main, "destroy")
  /\ UNCHANGED <<mutex, sem, is_destroyed, caught, dataVars>>

(* message_queue_destroy, of the semaphores only.                          *)
Destroy ==
  /\ pc[Main] = "destroy"
  /\ Goto(Main, "done")
  /\ UNCHANGED <<mutex, sem, is_destroyed, caught, dataVars>>

MainThread ==
  \/ DropRaise
  \/ SemPost(Main, "put", "dropPut", "dropGet")
  \/ SemPost(Main, "get", "dropGet", "dropFree")
  \/ DropFree
  \/ Join
  \/ Destroy
-----------------------------------------------------------------------------
Ended == corrupt \/ overread \/ pc[Main] = "done"

Next ==
  \/ \E p \in Producers : ~Ended /\ Producer(p)
  \/ \E c \in Consumers : ~Ended /\ Consumer(c)
  \/ ~Ended /\ MainThread
  \/ Ended /\ UNCHANGED vars

Spec == Init /\ [][Next]_vars

(* Threads that can go on do, and main's sleep(20) ends; the mutex and the *)
(* semaphores need not be fair.                                            *)
FairSpec ==
  /\ Spec
  /\ \A p \in Producers : WF_vars(~Ended /\ Producer(p))
  /\ \A c \in Consumers : WF_vars(~Ended /\ Consumer(c))
  /\ WF_vars(~Ended /\ MainThread)
-----------------------------------------------------------------------------
Labels == {"put", "putTest", "putBack", "putLock", "putIn", "putPost", "putLength",
           "get", "getTest", "getBack", "getLock", "getIn", "getPost",
           "run", "dropPut", "dropGet", "dropFree", "join", "destroy", "exit", "done"}

(* The variables keep their types; a semaphore never exceeds what it began *)
(* with by more than the token of the drop.                                *)
TypeOK ==
  /\ mutex \in Threads \cup {Nil}
  /\ sem \in [{"put", "get"} -> 0 .. messages_limit + 1]
  /\ list \in Lists(Cells)
  /\ live \subseteq Cells
  /\ pc \in [Threads -> Labels]
  /\ is_destroyed \in BOOLEAN /\ corrupt \in BOOLEAN /\ overread \in BOOLEAN
  /\ new_message \in [Producers -> Cells \cup {Nil}]
  /\ got \in [Consumers -> Cells \cup {Nil}]
  /\ caught \subseteq Threads

(* The list is sound as long as main has not freed it, and stays so when   *)
(* no thread was past its test of is_destroyed as the flag rose: then no   *)
(* put, get or drop works on a list with freed nodes, and the drop frees   *)
(* all there is.  A put that measures its message may still meet a freed   *)
(* node, drop or no drop: of a message that has left the list.             *)
IntactUnlessCaught ==
  /\ corrupt => caught # {}
  /\ pc[Main] \notin {"join", "destroy", "done"} =>
       /\ Linked(list, buffer)
       /\ live = {buffer[n] : n \in DOMAIN buffer}
  /\ pc[Main] = "done" /\ caught = {} => live = {}

(* A put or get that has passed its test is one of the queue still open.   *)
Busy == Inside \cup {t \in Threads : pc[t] \in {"putPost", "getPost"}}

(* Two tokens get every thread out of the queue, however many wait, unless *)
(* the process ended in the use of a freed node before.                    *)
DropTerminates == is_destroyed ~> Ended
=============================================================================
