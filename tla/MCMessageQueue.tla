--------------------------- MODULE MCMessageQueue ---------------------------
(***************************************************************************)
(* The harness of Lab23-24 with either implementation of the queue behind  *)
(* it, as the build chooses.  The build on the condition variable is the   *)
(* module this one extends, the build on semaphores an instance.           *)
(*                                                                         *)
(* On the condition variable: two producers, two consumers and a limit of  *)
(* one, so that both kinds of threads sleep on it and two consumers can    *)
(* hold messages when the list is freed; every message is stored or in a   *)
(* consumer's hands, so limit + consumers cells never run out.             *)
(*                                                                         *)
(* On semaphores: a producer, two consumers and a limit of two, the least  *)
(* with which the list has two nodes to free, and with which a consumer is *)
(* past its test, another before it or blocked, and the producer anywhere, *)
(* when the queue is dropped; as many cells as the limit never run out.    *)
(***************************************************************************)
EXTENDS MessageQueueCond

CONSTANTS SemProducers, SemCells, SemLimit      \* of the build on semaphores

ASSUME ThreadsDiffer ==
  /\ SemProducers \subseteq Producers
  /\ Producers \cap Consumers = {}
  /\ Main \notin Producers \cup Consumers
  /\ Nil \notin Producers \cup Consumers \cup {Main} \cup Cells \cup SemCells
ASSUME ThreadsFinite == IsFiniteSet(SemProducers) /\ IsFiniteSet(Consumers)
ASSUME LimitsPositive == messages_limit \in Nat \ {0} /\ SemLimit \in Nat \ {0}
ASSUME EnoughCells ==
  /\ Cardinality(Cells) >= messages_limit + Cardinality(Consumers)
  /\ Cardinality(SemCells) >= SemLimit

VARIABLES build,
          sem, new_message, corrupt,            \* of the build on semaphores
          overread, got, caught

Sem == INSTANCE MessageQueueSem
         WITH Producers <- SemProducers, Cells <- SemCells, messages_limit <- SemLimit

condOnly == <<waiting, messages_count, message>>
semOnly == <<sem, new_message, corrupt, overread, got, caught>>
eitherVars == <<build, vars, semOnly>>

EitherInit ==
  \/ /\ build = "cond" /\ Init
     /\ sem = <<>> /\ new_message = <<>> /\ corrupt = FALSE /\ overread = FALSE
     /\ got = <<>> /\ caught = {}
  \/ /\ build = "sem" /\ Sem!Init
     /\ waiting = {} /\ messages_count = 0 /\ message = <<>>

OnCond == build = "cond" /\ UNCHANGED <<build, semOnly>>
OnSem == build = "sem" /\ ~Sem!Ended /\ UNCHANGED <<build, condOnly>>

EitherProducer(p) ==
  \/ OnCond /\ Producer(p)
  \/ OnSem /\ p \in SemProducers /\ Sem!Producer(p)
EitherConsumer(c) ==
  \/ OnCond /\ Consumer(c)
  \/ OnSem /\ Sem!Consumer(c)
EitherMain ==
  \/ OnCond /\ MainThread
  \/ OnSem /\ Sem!MainThread
CondWakeup(t) == OnCond /\ SpuriousWakeup(t)

(* The process has ended, or what it does is undefined.                    *)
Ended == IF build = "cond" THEN pc[Main] = "done" ELSE Sem!Ended

EitherNext ==
  \/ \E p \in Producers : EitherProducer(p)
  \/ \E c \in Consumers : EitherConsumer(c)
  \/ EitherMain
  \/ \E t \in Producers \cup Consumers : CondWakeup(t)
  \/ Ended /\ UNCHANGED eitherVars

EitherSpec == EitherInit /\ [][EitherNext]_eitherVars

(* Threads that can go on do, and main's sleep(20) ends; the mutex and the *)
(* semaphores need not be fair, and unsignalled wakeups do not go on for   *)
(* ever.                                                                   *)
EitherFairSpec ==
  /\ EitherSpec
  /\ \A p \in Producers : WF_eitherVars(EitherProducer(p))
  /\ \A c \in Consumers : WF_eitherVars(EitherConsumer(c))
  /\ WF_eitherVars(EitherMain)
  /\ <>[][\A t \in Producers \cup Consumers : ~CondWakeup(t)]_eitherVars
-----------------------------------------------------------------------------
(* The variables keep their types: the count stays within the limit, the   *)
(* semaphores within the limit and the token of the drop.                  *)
EitherTypeOK == IF build = "cond" THEN TypeOK ELSE Sem!TypeOK

(* On the condition variable no cell is lost, shared or freed twice.       *)
OneOwnerOnCond == build = "cond" => OneOwner

(* On semaphores the list is sound but for threads the drop caught inside. *)
IntactUnlessCaught == build = "sem" => Sem!IntactUnlessCaught

(* Each put and get of either is one step of a bounded FIFO.  While one is *)
(* built, the other's FIFO stays as it begins.                             *)
CondFifo ==
  INSTANCE BoundedFifo
    WITH Messages <- Cells, Limit <- messages_limit, Nothing <- Nil,
         stored <- IF build = "cond" THEN buffer ELSE <<>>,
         got <- IF build = "cond" THEN message ELSE [c \in Consumers |-> Nil],
         open <- build = "cond" => ~is_destroyed
SemFifo ==
  INSTANCE BoundedFifo
    WITH Messages <- SemCells, Limit <- SemLimit, Nothing <- Nil,
         stored <- IF build = "sem" THEN buffer ELSE <<>>,
         got <- IF build = "sem" THEN got ELSE [c \in Consumers |-> Nil],
         open <- build = "sem" => ~is_destroyed \/ Sem!Busy # {}
ImplementsFifo == CondFifo!Spec /\ SemFifo!Spec

(* A drop gets every thread out, and main ends: on the condition variable  *)
(* unless it caught a thread between its loop test and its wait.           *)
EitherDropTerminates ==
  /\ build = "cond" => DropTerminatesUnlessCaught
  /\ build = "sem" => Sem!DropTerminates
=============================================================================
