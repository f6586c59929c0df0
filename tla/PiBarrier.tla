----------------------------- MODULE PiBarrier ------------------------------
(***************************************************************************)
(* Lab8: threads add the terms of the series for pi, every THREADS_NUM-th  *)
(* one each, until SIGINT raises flag.  A thread looks at flag after every *)
(* ITERATIONS_NUM terms; the threads then agree on the largest number of   *)
(* terms, meet at a barrier, and those behind catch up.                    *)
(*                                                                         *)
(* A term of a thread is its number in the thread's share, 0, 1, ...: the  *)
(* i of the code is offset + THREADS_NUM times that.  The variable added   *)
(* says how often each was added, in place of the floating-point sum.      *)
(* flag is read as often as the source does, as in a build that does not   *)
(* move the read out of the loop.                                          *)
(*                                                                         *)
(* After a pthread_create that fails main cancels THREADS_NUM threads and  *)
(* joins each.  A thread that was created comes to no cancellation point   *)
(* (of the loop, the mutex and the barrier none is), so main waits for it  *)
(* until it is past the barrier, where it never gets without the others;   *)
(* what the identifier of one that was not created holds is undefined.     *)
(***************************************************************************)
EXTENDS Integers, FiniteSets

CONSTANTS THREADS_NUM, ITERATIONS_NUM,
          MaxBlocks       (* bound: blocks a thread adds before SIGINT     *)

VARIABLES main8,          (* create, join, cancel, undefined               *)
          made8,          (* the threads created                           *)
          at, flag, max_iter,
          com_iter,       (* the terms a thread counted                    *)
          i,              (* the number of the term it stands at           *)
          added,          (* how often a thread added each of its terms    *)
          joined          (* the threads main has joined                   *)

mainVars == <<main8, made8>>
piVars == <<mainVars, at, flag, max_iter, com_iter, i, added, joined>>

Workers == 0 .. THREADS_NUM - 1
Terms == 0 .. (MaxBlocks + 1) * ITERATIONS_NUM

Init ==
  /\ main8 = "create" /\ made8 = 0
  /\ at = [t \in Workers |-> "loop"]
  /\ flag = FALSE
  /\ max_iter = 0
  /\ com_iter = [t \in Workers |-> 0]
  /\ i = [t \in Workers |-> 0]
  /\ added = [t \in Workers |-> [n \in Terms |-> 0]]
  /\ joined = 0

(* Terms from .. to - 1 are added once more.                               *)
Add(t, from, to) ==
  added' = [added EXCEPT ![t] = [n \in Terms |->
              IF n \in from .. to - 1 THEN @[n] + 1 ELSE @[n]]]

Sigint ==
  /\ ~flag
  /\ flag' = TRUE
  /\ UNCHANGED <<mainVars, at, max_iter, com_iter, i, added, joined>>

(* ITERATIONS_NUM terms, then the look at flag.  The break leaves i at the *)
(* last term that was added.                                               *)
Block(t) ==
  /\ at[t] = "loop"
  /\ flag \/ com_iter[t] < MaxBlocks * ITERATIONS_NUM
  /\ Add(t, i[t], i[t] + ITERATIONS_NUM)
  /\ com_iter' = [com_iter EXCEPT ![t] = @ + ITERATIONS_NUM]
  /\ i' = [i EXCEPT ![t] = @ + ITERATIONS_NUM - (IF flag THEN 1 ELSE 0)]
  /\ at' = [at EXCEPT ![t] = IF flag THEN "agree" ELSE @]
  /\ UNCHANGED <<flag, max_iter, joined>>

(* Under the mutex: the largest com_iter.                                  *)
Agree(t) ==
  /\ at[t] = "agree"
  /\ max_iter' = IF max_iter = 0 \/ max_iter < com_iter[t] THEN com_iter[t]
                                                           ELSE max_iter
  /\ at' = [at EXCEPT ![t] = "barrier"]
  /\ UNCHANGED <<flag, com_iter, i, added, joined>>

(* Mutants: the barrier lets a thread through that is not the last; and it *)
(* waits for one thread too many.                                          *)
BarrierOpen(t) ==
  /\ at[t] = "barrier"
  /\ at' = [at EXCEPT ![t] = "catchUp"]
  /\ UNCHANGED <<flag, max_iter, com_iter, i, added, joined>>
BarrierOneMore(t) ==
  /\ at[t] = "barrier"
  /\ Cardinality({u \in Workers : at[u] \notin {"loop", "agree"}}) = THREADS_NUM + 1
  /\ at' = [at EXCEPT ![t] = "catchUp"]
  /\ UNCHANGED <<flag, max_iter, com_iter, i, added, joined>>

Barrier(t) ==
  /\ at[t] = "barrier"
  /\ \A u \in Workers : at[u] \notin {"loop", "agree"}
  /\ at' = [at EXCEPT ![t] = "catchUp"]
  /\ UNCHANGED <<flag, max_iter, com_iter, i, added, joined>>

(* The second loop starts at the i the first one was left at.              *)
CatchUp(t) ==
  /\ at[t] = "catchUp"
  /\ Add(t, i[t], i[t] + max_iter - com_iter[t])
  /\ i' = [i EXCEPT ![t] = @ + max_iter - com_iter[t]]
  /\ com_iter' = [com_iter EXCEPT ![t] = max_iter]
  /\ at' = [at EXCEPT ![t] = "done"]
  /\ UNCHANGED <<flag, max_iter, joined>>

Create ==
  /\ main8 = "create"
  /\ \/ /\ made8' = made8 + 1
        /\ main8' = IF made8' = THREADS_NUM THEN "join" ELSE "create"
     \/ main8' = "cancel" /\ UNCHANGED made8
  /\ UNCHANGED <<at, flag, max_iter, com_iter, i, added, joined>>

cancel_threads ==
  /\ main8 = "cancel"
  /\ IF joined < made8 THEN at[joined] = "done" /\ joined' = joined + 1 /\ UNCHANGED main8
                       ELSE main8' = "undefined" /\ UNCHANGED joined
  /\ UNCHANGED <<made8, at, flag, max_iter, com_iter, i, added>>

(* main joins the threads in order and adds up their sums.                 *)
Join ==
  /\ main8 = "join" /\ joined < THREADS_NUM /\ at[joined] = "done"
  /\ joined' = joined + 1
  /\ UNCHANGED <<mainVars, at, flag, max_iter, com_iter, i, added>>

Main == Create \/ cancel_threads \/ Join
Worker(t) ==
  /\ t < made8 /\ UNCHANGED mainVars
  /\ Block(t) \/ Agree(t) \/ Barrier(t) \/ CatchUp(t)
-----------------------------------------------------------------------------
(* When main has joined all threads, each has added as many terms as the   *)
(* thread that was ahead, every one of its share up to there but for the   *)
(* seam: a thread that was behind adds the term before the barrier twice   *)
(* and the last one not at all.  Some thread was not behind.               *)
SharesEqual ==
  joined = THREADS_NUM =>
    LET share == 0 .. max_iter - 1
        Exact(t) == \A n \in Terms : added[t][n] = IF n \in share THEN 1 ELSE 0
        Seam(t) == \E twice \in share : \A n \in Terms :
                     added[t][n] = IF n = twice THEN 2
                                   ELSE IF n \in share \ {max_iter - 1} THEN 1 ELSE 0
    IN  /\ \A t \in Workers : Exact(t) \/ Seam(t)
        /\ \E t \in Workers : Exact(t)

(* Once SIGINT came, the threads pass the barrier and main prints pi,      *)
(* unless one was not created.                                             *)
SumPrinted == flag ~> (joined = THREADS_NUM \/ main8 \in {"cancel", "undefined"})
=============================================================================
