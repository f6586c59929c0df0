------------------------------ MODULE SemQueue ------------------------------
(***************************************************************************)
(* Lab23/main.c: the bounded message queue on three semaphores: isEmpty    *)
(* counts the free places, isFull the stored messages, and global guards   *)
(* the list.  Every sem_wait and sem_post is an action; the accesses to    *)
(* the list and to isDroped between taking global and posting it are one   *)
(* action, since no other thread can look at them.                         *)
(*                                                                         *)
(* A drop posts isEmpty and isFull once each: whoever that lets in finds   *)
(* isDroped set and posts the token again for the next thread.             *)
(***************************************************************************)
EXTENDS Integers, Sequences, FiniteSets, MessageList

CONSTANTS Producers, Consumers, Main,
          Limit,      (* the 10 of line 27                                  *)
          Rounds      (* the messages one producer sends, 1000 at line 133  *)

Threads == Producers \cup Consumers \cup {Main}
Message == Producers \X (1 .. Rounds)
Semaphores == {"isEmpty", "isFull", "global"}

ASSUME ThreadsDiffer ==
  /\ Producers \cap Consumers = {}
  /\ Main \notin Producers \cup Consumers
  /\ Nil \notin Threads
  /\ Nil \notin Message
ASSUME SizesPositive == Limit \in Nat \ {0} /\ Rounds \in Nat \ {0}
ASSUME FiniteThreads == IsFiniteSet(Producers) /\ IsFiniteSet(Consumers)

VARIABLES
  sem,         (* the value of each semaphore                               *)
  list,        (* queue->head, queue->tail and the nodes' pointers          *)
  isDroped,
  sent,        (* how many messages each producer has put                   *)
  got,         (* each consumer's buf                                       *)
  pc,          (* where each thread stands                                  *)
  pleaseQuit,
  freed,       (* the nodes mymsgdestroy has freed                          *)
  buffer       (* history: the messages put and not yet got, oldest first   *)

vars == <<sem, list, isDroped, sent, got, pc, pleaseQuit, freed, buffer>>
queueVars == <<list, isDroped, sent, got, freed, buffer>>

(* Init with the given first value of isEmpty.                             *)
InitWith(places) ==
  /\ sem = [s \in Semaphores |-> CASE s = "isEmpty" -> places
                                   [] s = "isFull" -> 0
                                   [] s = "global" -> 1]
  /\ list = EmptyList(Message)
  /\ isDroped = FALSE
  /\ sent = [p \in Producers |-> 0]
  /\ got = [c \in Consumers |-> Nil]
  /\ pc = [t \in Threads |-> IF t \in Producers THEN "put"
                             ELSE IF t \in Consumers THEN "get" ELSE "check"]
  /\ pleaseQuit = FALSE
  /\ freed = {}
  /\ buffer = <<>>

(* Mutant of Init: one place too many.                                     *)
InitOneMore == InitWith(Limit + 1)

Init == InitWith(Limit)

Goto(t, label) == pc' = [pc EXCEPT ![t] = label]

SemWait(t, s, from, to) ==
  /\ pc[t] = from
  /\ sem[s] > 0
  /\ sem' = [sem EXCEPT ![s] = @ - 1]
  /\ Goto(t, to)
  /\ UNCHANGED <<pleaseQuit, queueVars>>

SemPost(t, s, from, to) ==
  /\ pc[t] = from
  /\ sem' = [sem EXCEPT ![s] = @ + 1]
  /\ Goto(t, to)
  /\ UNCHANGED <<pleaseQuit, queueVars>>

(* With global held: the queue was dropped, so post global and go on to    *)
(* give the other token back.                                              *)
Refuse(t, from, to) == isDroped /\ SemPost(t, "global", from, to)
-----------------------------------------------------------------------------
(* mymsgput                                                                *)
Store(p) ==
  LET m == <<p, sent[p] + 1>>
  IN  /\ list' = PushHead(list, m)
      /\ buffer' = Append(buffer, m)
      /\ sent' = [sent EXCEPT ![p] = @ + 1]
      /\ sem' = [sem EXCEPT !["global"] = @ + 1]
      /\ Goto(p, "putFull")
      /\ UNCHANGED <<isDroped, got, pleaseQuit, freed>>

(* Mutant of PutStore: no look at isDroped.                                *)
PutStoreDropped(p) == pc[p] = "putIn" /\ Store(p)

PutStore(p) == pc[p] = "putIn" /\ ~isDroped /\ Store(p)

PutDone(p) ==
  SemPost(p, "isFull", "putFull", IF sent[p] = Rounds THEN "exit" ELSE "put")

Producer(p) ==
  \/ SemWait(p, "isEmpty", "put", "putGlobal")
  \/ SemWait(p, "global", "putGlobal", "putIn")
  \/ Refuse(p, "putIn", "putBack")
  \/ SemPost(p, "isEmpty", "putBack", "exit")
  \/ PutStore(p)
  \/ PutDone(p)
-----------------------------------------------------------------------------
(* mymsgget                                                                *)
GetTake(c) ==
  /\ pc[c] = "getIn"
  /\ ~isDroped
  /\ got' = [got EXCEPT ![c] = list.tail]
  /\ list' = PopTail(list)
  /\ buffer' = Tail(buffer)
  /\ sem' = [sem EXCEPT !["global"] = @ + 1]
  /\ Goto(c, "getEmpty")
  /\ UNCHANGED <<isDroped, sent, pleaseQuit, freed>>

(* Mutants of GetDone: the other semaphore is posted; nothing is posted.   *)
GetDoneFull(c) == SemPost(c, "isFull", "getEmpty", "get")
GetDoneSilent(c) ==
  /\ pc[c] = "getEmpty"
  /\ Goto(c, "get")
  /\ UNCHANGED <<sem, pleaseQuit, queueVars>>

GetDone(c) == SemPost(c, "isEmpty", "getEmpty", "get")

(* Mutant of GetBack: the token is kept.                                   *)
GetBackSilent(c) ==
  /\ pc[c] = "getBack"
  /\ Goto(c, "exit")
  /\ UNCHANGED <<sem, pleaseQuit, queueVars>>

GetBack(c) == SemPost(c, "isFull", "getBack", "exit")

Consumer(c) ==
  \/ SemWait(c, "isFull", "get", "getGlobal")
  \/ SemWait(c, "global", "getGlobal", "getIn")
  \/ Refuse(c, "getIn", "getBack")
  \/ GetBack(c)
  \/ GetTake(c)
  \/ GetDone(c)
-----------------------------------------------------------------------------
(* main: while (!pleaseQuit) pause(); then drop, join, destroy.            *)
MainCheck ==
  /\ pc[Main] = "check"
  /\ Goto(Main, IF pleaseQuit THEN "drop" ELSE "toPause")
  /\ UNCHANGED <<sem, pleaseQuit, queueVars>>

MainPause ==
  /\ pc[Main] = "toPause"
  /\ Goto(Main, "pause")
  /\ UNCHANGED <<sem, pleaseQuit, queueVars>>

(* mymsqdrop, from its assignment to its first post.                       *)
MainDrop ==
  /\ pc[Main] = "dropIn"
  /\ isDroped' = TRUE
  /\ sem' = [sem EXCEPT !["isEmpty"] = @ + 1]
  /\ Goto(Main, "dropFull")
  /\ UNCHANGED <<list, sent, got, pleaseQuit, freed, buffer>>

MainJoin ==
  /\ pc[Main] = "join"
  /\ \A t \in Threads \ {Main} : pc[t] = "exit"
  /\ Goto(Main, "destroy")
  /\ UNCHANGED <<sem, pleaseQuit, queueVars>>

MainDestroy ==
  /\ pc[Main] = "destroyIn"
  /\ freed' = Walked(list)
  /\ sem' = [sem EXCEPT !["global"] = @ + 1]
  /\ Goto(Main, "done")
  /\ UNCHANGED <<list, isDroped, sent, got, pleaseQuit, buffer>>

MainThread ==
  \/ MainCheck
  \/ MainPause
  \/ SemWait(Main, "global", "drop", "dropIn")
  \/ MainDrop
  \/ SemPost(Main, "isFull", "dropFull", "dropGlobal")
  \/ SemPost(Main, "global", "dropGlobal", "join")
  \/ MainJoin
  \/ SemWait(Main, "global", "destroy", "destroyIn")
  \/ MainDestroy
-----------------------------------------------------------------------------
(* sigintHandler on the main thread: it ends a pause() that has begun, and *)
(* is lost on one that has not.                                            *)
Sigint ==
  /\ pc[Main] \in {"check", "toPause", "pause"}
  /\ pleaseQuit' = TRUE
  /\ Goto(Main, IF pc[Main] = "pause" THEN "check" ELSE pc[Main])
  /\ UNCHANGED <<sem, queueVars>>

(* The process has ended.                                                  *)
Terminated == pc[Main] = "done" /\ UNCHANGED vars

Next ==
  \/ \E p \in Producers : Producer(p)
  \/ \E c \in Consumers : Consumer(c)
  \/ MainThread
  \/ Sigint
  \/ Terminated

Spec == Init /\ [][Next]_vars

(* Every thread that can go on does; semaphores need not be fair, and no   *)
(* SIGINT need come.                                                       *)
FairSpec ==
  /\ Spec
  /\ \A p \in Producers : WF_vars(Producer(p))
  /\ \A c \in Consumers : WF_vars(Consumer(c))
  /\ WF_vars(MainThread)
-----------------------------------------------------------------------------
Labels == {"put", "putGlobal", "putIn", "putBack", "putFull", "get",
           "getGlobal", "getIn", "getBack", "getEmpty", "exit", "check",
           "toPause", "pause", "drop", "dropIn", "dropFull", "dropGlobal",
           "join", "destroy", "destroyIn", "done"}

(* The variables keep their types; a drop adds one token to each count.    *)
TypeOK ==
  /\ sem \in [Semaphores -> 0 .. Limit + 1]
  /\ sem["global"] \in 0 .. 1
  /\ list \in Lists(Message)
  /\ isDroped \in BOOLEAN
  /\ sent \in [Producers -> 0 .. Rounds]
  /\ got \in [Consumers -> Message \cup {Nil}]
  /\ pc \in [Threads -> Labels]
  /\ pleaseQuit \in BOOLEAN
  /\ freed \subseteq Message
  /\ buffer \in Seq(Message)

At(labels) == Cardinality({t \in Threads : pc[t] \in labels})
DropPosted == IF pc[Main] \in {"dropGlobal", "join", "destroy", "destroyIn", "done"}
              THEN 1 ELSE 0

(* No token is lost or made: a place is free, claimed by a producer, taken *)
(* by a message or about to be given back by a consumer, and a message is  *)
(* announced, about to be, or claimed by a consumer; a drop adds one of    *)
(* each.  So the queue never holds more than Limit messages, and a         *)
(* consumer let in before the drop finds one.                              *)
TokensConserved ==
  /\ sem["isEmpty"] + At({"putGlobal", "putIn", "putBack"}) + Len(buffer)
       + At({"getEmpty"}) = Limit + (IF isDroped THEN 1 ELSE 0)
  /\ sem["isFull"] + At({"getGlobal", "getIn", "getBack"}) + At({"putFull"})
       = Len(buffer) + DropPosted

(* Each put, get and drop takes effect as one step of a bounded FIFO.      *)
Fifo == INSTANCE BoundedFifo
          WITH Messages <- Message, Nothing <- Nil,
               stored <- buffer, open <- ~isDroped
ImplementsFifo == Fifo!Spec

(* One token each is enough for every thread to leave a dropped queue.     *)
DropTerminates == isDroped ~> (pc[Main] = "done")

(* Without a drop every message of every producer is sent and received.    *)
Delivered ==
  <>(isDroped \/ (buffer = <<>> /\ \A p \in Producers : sent[p] = Rounds))

(* What the comment at the end of the waiting loop of main says: the loop  *)
(* is safe, so a SIGINT gets the queue dropped.                            *)
QuitHeeded == pleaseQuit ~> isDroped
=============================================================================
