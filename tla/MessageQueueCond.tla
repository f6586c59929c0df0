-------------------------- MODULE MessageQueueCond --------------------------
(***************************************************************************)
(* Lab23-24 with cond_implementation/message_queue.c: the bounded queue    *)
(* whose drop raises is_destroyed and broadcasts without the mutex, then   *)
(* frees the stored messages under it, while producers and consumers run.  *)
(*                                                                         *)
(* The loop tests of put and get, the wait and what follows the loop are   *)
(* actions of their own, as is_destroyed can rise between them.  What      *)
(* follows the loop is one action although it begins with one more read of *)
(* is_destroyed: everything else in it is under the mutex.                 *)
(*                                                                         *)
(* A message is the memory cell malloc gave it, so that freed cells are    *)
(* used again and producers and consumers go on for ever.  The strlen on   *)
(* line 54 reads a cell that may be free by then, and returns some length: *)
(* put returns more than 0 whatever it is.                                 *)
(***************************************************************************)
EXTENDS Integers, Sequences, FiniteSets, MessageList

CONSTANTS Producers, Consumers, Main,
          Cells,           (* the memory cells malloc gives out             *)
          messages_limit

Threads == Producers \cup Consumers \cup {Main}

VARIABLES
  mutex,           (* the thread that holds mutex_access, or Nil            *)
  waiting,         (* the threads blocked on cond_access                    *)
  list,            (* queue->in, queue->out and the nodes' pointers         *)
  messages_count,
  is_destroyed,
  live,            (* the cells allocated and not freed                     *)
  message,         (* the local variable message of each consumer's get     *)
  pc,              (* where each thread stands                              *)
  buffer           (* history: the messages put and not yet got             *)

vars == <<mutex, waiting, list, messages_count, is_destroyed, live, message,
          pc, buffer>>
Message_Queue == <<mutex, waiting, list, messages_count, is_destroyed>>
queueVars == <<list, messages_count, live, message, buffer>>

Init ==
  /\ mutex = Nil
  /\ waiting = {}
  /\ list = EmptyList(Cells)
  /\ messages_count = 0
  /\ is_destroyed = FALSE
  /\ live = {}
  /\ message = [c \in Consumers |-> Nil]
  /\ pc = [t \in Threads |-> IF t \in Producers THEN "put"
                             ELSE IF t \in Consumers THEN "get" ELSE "run"]
  /\ buffer = <<>>

Goto(t, label) == pc' = [pc EXCEPT ![t] = label]

Lock(t, from, to) ==
  /\ pc[t] = from
  /\ mutex = Nil
  /\ mutex' = t
  /\ Goto(t, to)
  /\ UNCHANGED <<waiting, is_destroyed, queueVars>>

Unlock == mutex' = Nil

(* The test of a waiting loop, with the mutex held.                        *)
Test(t, from, full, block, go) ==
  /\ pc[t] = from
  /\ Goto(t, IF full /\ ~is_destroyed THEN block ELSE go)
  /\ UNCHANGED <<mutex, waiting, is_destroyed, queueVars>>

(* cond_try_wait: to sleep, and back with the mutex once woken.            *)
Block(t, from, to) ==
  /\ pc[t] = from
  /\ waiting' = waiting \cup {t}
  /\ mutex' = Nil
  /\ Goto(t, to)
  /\ UNCHANGED <<is_destroyed, queueVars>>

Relock(t, from, to) == t \notin waiting /\ Lock(t, from, to)

(* The queue is dropped: unlock and leave the thread.                      *)
Refuse(t, from) ==
  /\ pc[t] = from
  /\ is_destroyed
  /\ Unlock
  /\ Goto(t, "exit")
  /\ UNCHANGED <<waiting, is_destroyed, queueVars>>

(* pthread_cond_signal under a condition: one sleeper wakes, if any.       *)
SignalIf(condition) ==
  IF condition /\ waiting # {} THEN \E t \in waiting : waiting' = waiting \ {t}
                               ELSE UNCHANGED waiting
-----------------------------------------------------------------------------
(* message_queue_put                                                       *)
Store(p) ==
  /\ pc[p] = "putIn"
  /\ \E m \in Cells \ live : /\ live' = live \cup {m}
                             /\ list' = PushHead(list, m)
                             /\ buffer' = Append(buffer, m)
  /\ SignalIf(messages_count = 0)
  /\ messages_count' = messages_count + 1
  /\ Unlock
  /\ Goto(p, "put")
  /\ UNCHANGED <<is_destroyed, message>>

(* Mutant of PutTest: the limit is passed by one.                          *)
PutTestOneMore(p) ==
  Test(p, "putTest", messages_count > messages_limit, "putBlock", "putIn")

PutTest(p) ==
  Test(p, "putTest", messages_count >= messages_limit, "putBlock", "putIn")
PutStore(p) == ~is_destroyed /\ Store(p)

Producer(p) ==
  \/ Lock(p, "put", "putTest")
  \/ PutTest(p)
  \/ Block(p, "putBlock", "putWait")
  \/ Relock(p, "putWait", "putTest")
  \/ Refuse(p, "putIn")
  \/ PutStore(p)
-----------------------------------------------------------------------------
(* message_queue_get                                                       *)
GetTake(c) ==
  /\ pc[c] = "getIn"
  /\ ~is_destroyed
  /\ message' = [message EXCEPT ![c] = list.tail]
  /\ list' = PopTail(list)
  /\ buffer' = Tail(buffer)
  /\ SignalIf(messages_count = messages_limit)
  /\ messages_count' = messages_count - 1
  /\ Unlock
  /\ Goto(c, "getFree")
  /\ UNCHANGED <<is_destroyed, live>>

(* Mutant of GetFree: the message is not freed.                            *)
GetFreeKept(c) ==
  /\ pc[c] = "getFree"
  /\ Goto(c, "get")
  /\ UNCHANGED <<mutex, waiting, is_destroyed, queueVars>>

(* After the unlock: the text is copied and the message freed.             *)
GetFree(c) ==
  /\ pc[c] = "getFree"
  /\ live' = live \ {message[c]}
  /\ Goto(c, "get")
  /\ UNCHANGED <<mutex, waiting, is_destroyed, list, messages_count, message,
                 buffer>>

Consumer(c) ==
  \/ Lock(c, "get", "getTest")
  \/ Test(c, "getTest", messages_count = 0, "getBlock", "getIn")
  \/ Block(c, "getBlock", "getWait")
  \/ Relock(c, "getWait", "getTest")
  \/ Refuse(c, "getIn")
  \/ GetTake(c)
  \/ GetFree(c)
-----------------------------------------------------------------------------
(* message_queue_drop, run by main after 20 seconds, and the joins.        *)
DropRaise ==
  /\ pc[Main] = "run"
  /\ is_destroyed' = TRUE
  /\ Goto(Main, "dropWake")
  /\ UNCHANGED <<mutex, waiting, queueVars>>

Broadcast == waiting' = {}

DropWake ==
  /\ pc[Main] = "dropWake"
  /\ Broadcast
  /\ Goto(Main, "dropLock")
  /\ UNCHANGED <<mutex, is_destroyed, queueVars>>

(* in, out and messages_count keep their values.                           *)
DropFree ==
  /\ pc[Main] = "dropFree"
  /\ live' = live \ Walked(list)
  /\ Unlock
  /\ Goto(Main, "join")
  /\ UNCHANGED <<waiting, is_destroyed, list, messages_count, message, buffer>>

Join ==
  /\ pc[Main] = "join"
  /\ \A t \in Threads \ {Main} : pc[t] = "exit"
  /\ Goto(Main, "destroy")
  /\ UNCHANGED <<Message_Queue, live, message, buffer>>

(* message_queue_destroy: a mutex that is held is not destroyed, and the   *)
(* process ends with a message.                                            *)
Destroy ==
  /\ pc[Main] = "destroy"
  /\ Goto(Main, IF mutex = Nil THEN "done" ELSE "failed")
  /\ UNCHANGED <<Message_Queue, live, message, buffer>>

MainThread ==
  \/ DropRaise
  \/ DropWake
  \/ Lock(Main, "dropLock", "dropFree")
  \/ DropFree
  \/ Join
  \/ Destroy
-----------------------------------------------------------------------------
SpuriousWakeup(t) ==
  /\ t \in waiting
  /\ waiting' = waiting \ {t}
  /\ UNCHANGED <<mutex, is_destroyed, pc, queueVars>>

(* The process has ended.                                                  *)
Terminated == pc[Main] = "done" /\ UNCHANGED vars

Next ==
  \/ \E p \in Producers : Producer(p)
  \/ \E c \in Consumers : Consumer(c)
  \/ MainThread
  \/ \E t \in Threads : SpuriousWakeup(t)
  \/ Terminated

Spec == Init /\ [][Next]_vars

(* Threads that can go on do, and main's sleep(20) ends; the mutex need    *)
(* not be fair, and unsignalled wakeups do not go on for ever.             *)
FairSpec ==
  /\ Spec
  /\ \A p \in Producers : WF_vars(Producer(p))
  /\ \A c \in Consumers : WF_vars(Consumer(c))
  /\ WF_vars(MainThread)
  /\ <>[][\A t \in Threads : ~SpuriousWakeup(t)]_vars
-----------------------------------------------------------------------------
Labels == {"put", "putTest", "putBlock", "putWait", "putIn", "get", "getTest",
           "getBlock", "getWait", "getIn", "getFree", "exit", "run",
           "dropWake", "dropLock", "dropFree", "join", "destroy", "done"}

(* The variables keep their types; the count stays within the limit.       *)
TypeOK ==
  /\ mutex \in Threads \cup {Nil}
  /\ waiting \subseteq Producers \cup Consumers
  /\ list \in Lists(Cells)
  /\ messages_count \in 0 .. messages_limit
  /\ is_destroyed \in BOOLEAN
  /\ live \subseteq Cells
  /\ message \in [Consumers -> Cells \cup {Nil}]
  /\ pc \in [Threads -> Labels]
  /\ buffer \in Seq(Cells)

(* Every allocated cell has one owner, which frees it: the list, until     *)
(* drop has walked it, or the one consumer that unlinked it.  So no cell   *)
(* is freed twice, no freed cell is linked, none is lost, and whatever a   *)
(* thread does while drop runs, nothing is stored on the freed list; and   *)
(* nobody holds or waits on what main destroys.                            *)
Taking == {c \in Consumers : pc[c] = "getFree"}
OneOwner ==
  LET linked == {buffer[i] : i \in DOMAIN buffer}
      taken == {message[c] : c \in Taking}
  IN  /\ pc[Main] = "destroy" => mutex = Nil /\ waiting = {}
      /\ \A c, d \in Taking : message[c] = message[d] => c = d
      /\ IF pc[Main] \in {"join", "destroy", "done"}
         THEN live = taken
         ELSE /\ live = linked \cup taken
              /\ linked \cap taken = {}
              /\ Linked(list, buffer)
              /\ messages_count = Len(buffer)

(* If nobody stands between its loop test and its wait when is_destroyed   *)
(* rises, every thread leaves the queue and main ends.                     *)
DropTerminatesUnlessCaught ==
  (/\ pc[Main] = "dropWake"
   /\ \A t \in Threads : pc[t] \notin {"putBlock", "getBlock"})
  ~> (pc[Main] = "done")

(* What main relies on when it joins every thread right after the drop.    *)
DropTerminates == is_destroyed ~> (pc[Main] = "done")
=============================================================================
