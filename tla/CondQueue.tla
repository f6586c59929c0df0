----------------------------- MODULE CondQueue -----------------------------
(***************************************************************************)
(* Lab24/main.c: the bounded message queue on one mutex and one condition  *)
(* variable that producers and consumers share, with its producer,         *)
(* consumer and main threads.  Every shared variable is read and written   *)
(* under the mutex, so a critical section from a test of its loop          *)
(* condition to its unlock (or to the wait) is one action; locking,        *)
(* waiting and relocking are actions of their own.                         *)
(*                                                                         *)
(* doubleMutex (a lock around one log line, taken and released with mutex  *)
(* held) is never contended and is left out with the logging.  The list    *)
(* node of a message stands for the message: a node is allocated once per  *)
(* put and mymsgget does not free it.                                      *)
(***************************************************************************)
EXTENDS Integers, Sequences, FiniteSets, MessageList

CONSTANTS Producers, Consumers, Main,
          Limit,      (* the 10 of lines 77, 103 and 121                    *)
          Rounds      (* the messages one producer sends, 1000 at line 171  *)

Threads == Producers \cup Consumers \cup {Main}
Message == Producers \X (1 .. Rounds)

ASSUME ThreadsDiffer ==
  /\ Producers \cap Consumers = {}
  /\ Main \notin Producers \cup Consumers
  /\ Nil \notin Threads
  /\ Nil \notin Message
ASSUME SizesPositive == Limit \in Nat \ {0} /\ Rounds \in Nat \ {0}
ASSUME FiniteThreads == IsFiniteSet(Producers) /\ IsFiniteSet(Consumers)

VARIABLES
  mutex,       (* the thread that holds mutex, or Nil                       *)
  waiting,     (* the threads blocked in pthread_cond_wait(&cond, &mutex)   *)
  list,        (* queue->head, queue->tail and the nodes' pointers          *)
  mesCount, isDroped,
  sent,        (* each producer's loop counter i                            *)
  got,         (* each consumer's buf: the last message copied into it      *)
  pc,          (* where each thread stands                                  *)
  pleaseQuit,
  freed,       (* the nodes mymsgdestroy has freed                          *)
  buffer       (* history: the messages put and not yet got, oldest first   *)

vars == <<mutex, waiting, list, mesCount, isDroped, sent, got, pc, pleaseQuit,
          freed, buffer>>
queueVars == <<list, mesCount, isDroped, sent, got, freed, buffer>>

Init ==
  /\ mutex = Nil
  /\ waiting = {}
  /\ list = EmptyList(Message)
  /\ mesCount = 0
  /\ isDroped = FALSE
  /\ sent = [p \in Producers |-> 0]
  /\ got = [c \in Consumers |-> Nil]
  /\ pc = [t \in Threads |-> IF t \in Producers THEN "put"
                             ELSE IF t \in Consumers THEN "get" ELSE "check"]
  /\ pleaseQuit = FALSE
  /\ freed = {}
  /\ buffer = <<>>

Goto(t, label) == pc' = [pc EXCEPT ![t] = label]

Lock(t, from, to) ==
  /\ pc[t] = from
  /\ mutex = Nil
  /\ mutex' = t
  /\ Goto(t, to)
  /\ UNCHANGED <<waiting, pleaseQuit, queueVars>>

(* pthread_cond_wait: releases the mutex and blocks in one step.           *)
Block(t, label) ==
  /\ waiting' = waiting \cup {t}
  /\ mutex' = Nil
  /\ Goto(t, label)
  /\ UNCHANGED <<pleaseQuit, queueVars>>

(* pthread_cond_wait returns once the thread was woken and has the mutex.  *)
Relock(t, from, to) == t \notin waiting /\ Lock(t, from, to)

(* The queue was dropped: unlock, return 0 and leave the thread.           *)
Refuse(t, from) ==
  /\ pc[t] = from
  /\ isDroped
  /\ mutex' = Nil
  /\ Goto(t, "exit")
  /\ UNCHANGED <<waiting, pleaseQuit, queueVars>>

(* Mutant of BroadcastIf: a signal wakes one waiter only.                  *)
SignalIf(condition) ==
  IF condition /\ waiting # {} THEN \E t \in waiting : waiting' = waiting \ {t}
                               ELSE waiting' = waiting

(* pthread_cond_broadcast under a condition, among primed assignments.     *)
BroadcastIf(condition) == waiting' = IF condition THEN {} ELSE waiting
-----------------------------------------------------------------------------
(* mymsgput                                                                *)
PutWait(p) ==
  /\ pc[p] = "putTest"
  /\ mesCount >= Limit
  /\ ~isDroped
  /\ Block(p, "putWait")

(* Append message i of p at the head, wake the consumers if there was none *)
(* and unlock.                                                             *)
Store(p) ==
  /\ LET m == <<p, sent[p] + 1>>
     IN  /\ list' = PushHead(list, m)
         /\ buffer' = Append(buffer, m)
  /\ BroadcastIf(mesCount = 0)
  /\ mesCount' = mesCount + 1
  /\ sent' = [sent EXCEPT ![p] = @ + 1]
  /\ mutex' = Nil
  /\ Goto(p, IF sent[p] + 1 = Rounds THEN "exit" ELSE "put")
  /\ UNCHANGED <<isDroped, got, pleaseQuit, freed>>

(* Mutants of PutStore: one message too many; no look at isDroped.         *)
PutStoreOverfull(p) == pc[p] = "putTest" /\ mesCount <= Limit /\ ~isDroped /\ Store(p)
PutStoreDropped(p) == pc[p] = "putTest" /\ mesCount < Limit /\ Store(p)

PutStore(p) ==
  /\ pc[p] = "putTest"
  /\ mesCount < Limit
  /\ ~isDroped
  /\ Store(p)

Producer(p) ==
  \/ Lock(p, "put", "putTest")
  \/ PutWait(p)
  \/ Relock(p, "putWait", "putTest")
  \/ Refuse(p, "putTest")
  \/ PutStore(p)
-----------------------------------------------------------------------------
(* mymsgget                                                                *)
GetWait(c) ==
  /\ pc[c] = "getTest"
  /\ mesCount = 0
  /\ ~isDroped
  /\ Block(c, "getWait")

Take(c, broadcast) ==
  /\ pc[c] = "getTest"
  /\ mesCount # 0
  /\ ~isDroped
  /\ got' = [got EXCEPT ![c] = list.tail]
  /\ list' = PopTail(list)
  /\ buffer' = Tail(buffer)
  /\ BroadcastIf(broadcast)
  /\ mesCount' = mesCount - 1
  /\ mutex' = Nil
  /\ Goto(c, "get")
  /\ UNCHANGED <<isDroped, sent, pleaseQuit, freed>>

(* Mutant of GetTake: the count is lowered before it is tested.            *)
GetTakeLate(c) == Take(c, mesCount - 1 = Limit)

GetTake(c) == Take(c, mesCount = Limit)

Consumer(c) ==
  \/ Lock(c, "get", "getTest")
  \/ GetWait(c)
  \/ Relock(c, "getWait", "getTest")
  \/ Refuse(c, "getTest")
  \/ GetTake(c)
-----------------------------------------------------------------------------
(* main: while (!pleaseQuit) pause(); then drop, join, destroy.            *)
MainCheck ==
  /\ pc[Main] = "check"
  /\ Goto(Main, IF pleaseQuit THEN "drop" ELSE "toPause")
  /\ UNCHANGED <<mutex, waiting, pleaseQuit, queueVars>>

MainPause ==
  /\ pc[Main] = "toPause"
  /\ Goto(Main, "pause")
  /\ UNCHANGED <<mutex, waiting, pleaseQuit, queueVars>>

(* Mutant of MainDrop: the sleepers are not woken.                         *)
MainDropSilent ==
  /\ pc[Main] = "dropIn"
  /\ isDroped' = TRUE
  /\ mutex' = Nil
  /\ Goto(Main, "join")
  /\ UNCHANGED <<waiting, list, mesCount, sent, got, pleaseQuit, freed, buffer>>

MainDrop ==
  /\ pc[Main] = "dropIn"
  /\ isDroped' = TRUE
  /\ waiting' = {}
  /\ mutex' = Nil
  /\ Goto(Main, "join")
  /\ UNCHANGED <<list, mesCount, sent, got, pleaseQuit, freed, buffer>>

(* Mutant of MainJoin: only the producers are joined.                      *)
MainJoinProducers ==
  /\ pc[Main] = "join"
  /\ \A p \in Producers : pc[p] = "exit"
  /\ Goto(Main, "destroy")
  /\ UNCHANGED <<mutex, waiting, pleaseQuit, queueVars>>

MainJoin ==
  /\ pc[Main] = "join"
  /\ \A t \in Threads \ {Main} : pc[t] = "exit"
  /\ Goto(Main, "destroy")
  /\ UNCHANGED <<mutex, waiting, pleaseQuit, queueVars>>

MainDestroy ==
  /\ pc[Main] = "destroyIn"
  /\ freed' = Walked(list)
  /\ mutex' = Nil
  /\ Goto(Main, "done")
  /\ UNCHANGED <<waiting, list, mesCount, isDroped, sent, got, pleaseQuit, buffer>>

MainThread ==
  \/ MainCheck
  \/ MainPause
  \/ Lock(Main, "drop", "dropIn")
  \/ MainDrop
  \/ MainJoin
  \/ Lock(Main, "destroy", "destroyIn")
  \/ MainDestroy
-----------------------------------------------------------------------------
(* sigintHandler, run on the main thread, which it also takes out of       *)
(* pause().  A signal that comes between the test of pleaseQuit and        *)
(* pause() does not: main then sleeps until the next one.  A signal after  *)
(* the loop changes nothing.                                               *)
Sigint ==
  /\ pc[Main] \in {"check", "toPause", "pause"}
  /\ pleaseQuit' = TRUE
  /\ Goto(Main, IF pc[Main] = "pause" THEN "check" ELSE pc[Main])
  /\ UNCHANGED <<mutex, waiting, queueVars>>

(* POSIX lets pthread_cond_wait return with nobody having signalled.       *)
SpuriousWakeup(t) ==
  /\ t \in waiting
  /\ waiting' = waiting \ {t}
  /\ UNCHANGED <<mutex, pc, pleaseQuit, queueVars>>

(* The process has ended.                                                  *)
Terminated == pc[Main] = "done" /\ UNCHANGED vars

Next ==
  \/ \E p \in Producers : Producer(p)
  \/ \E c \in Consumers : Consumer(c)
  \/ MainThread
  \/ Sigint
  \/ \E t \in Threads : SpuriousWakeup(t)
  \/ Terminated

Spec == Init /\ [][Next]_vars

(* Every thread that can go on does, and wakeups nobody signalled do not   *)
(* go on for ever.  The mutex need not be fair, and no SIGINT need come.   *)
Fairness ==
  /\ \A p \in Producers : WF_vars(Producer(p))
  /\ \A c \in Consumers : WF_vars(Consumer(c))
  /\ WF_vars(MainThread)
  /\ <>[][\A t \in Threads : ~SpuriousWakeup(t)]_vars

FairSpec == Spec /\ Fairness
-----------------------------------------------------------------------------
Labels == {"put", "putTest", "putWait", "get", "getTest", "getWait", "exit",
           "check", "toPause", "pause", "drop", "dropIn", "join", "destroy",
           "destroyIn", "done"}

(* The variables keep their types; mesCount stays within the limit.        *)
TypeOK ==
  /\ mutex \in Threads \cup {Nil}
  /\ waiting \subseteq Producers \cup Consumers
  /\ list \in Lists(Message)
  /\ mesCount \in 0 .. Limit
  /\ isDroped \in BOOLEAN
  /\ sent \in [Producers -> 0 .. Rounds]
  /\ got \in [Consumers -> Message \cup {Nil}]
  /\ pc \in [Threads -> Labels]
  /\ pleaseQuit \in BOOLEAN
  /\ freed \subseteq Message
  /\ buffer \in Seq(Message)

(* The pointers of mymsgput and mymsgget always hold the messages put and  *)
(* not yet got, in the order of the puts, and mesCount counts them.        *)
ListFaithful == Linked(list, buffer) /\ mesCount = Len(buffer)

(* No wakeup is lost on the one condition variable, although a broadcast   *)
(* is sent only at the edges 0 and Limit: whoever sleeps still has a       *)
(* reason to, and nobody sleeps on a dropped queue.                        *)
WaitersJustified ==
  /\ \A p \in waiting \cap Producers : mesCount = Limit
  /\ \A c \in waiting \cap Consumers : mesCount = 0
  /\ isDroped => waiting = {}

(* mymsgdestroy runs after every other thread has left the queue, and      *)
(* frees exactly the messages nobody got.                                  *)
DestroyExact ==
  pc[Main] = "done" =>
    /\ \A t \in Threads \ {Main} : pc[t] = "exit"
    /\ freed = {buffer[i] : i \in DOMAIN buffer}

(* Each put, get and drop of the code takes effect as one step of a        *)
(* bounded FIFO: the consumer gets the oldest message, and neither put nor *)
(* get succeeds once the queue is dropped.                                 *)
Fifo == INSTANCE BoundedFifo
          WITH Messages <- Message, Nothing <- Nil,
               stored <- buffer, open <- ~isDroped
ImplementsFifo == Fifo!Spec

(* Once main drops the queue every thread leaves it and main ends.         *)
DropTerminates == isDroped ~> (pc[Main] = "done")

(* Without a drop every message of every producer is sent and received:    *)
(* no set of sleepers ever waits for each other.                           *)
Delivered ==
  <>(isDroped \/ (buffer = <<>> /\ \A p \in Producers : sent[p] = Rounds))
=============================================================================
