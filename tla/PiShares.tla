------------------------------ MODULE PiShares ------------------------------
(***************************************************************************)
(* Lab7: the first ITERATIONS_NUM terms of the series for pi, every        *)
(* THREADS_NUM-th one to a thread, whose sum main adds when it has joined  *)
(* it.  A sum is the terms in it.  After a pthread_create that fails main  *)
(* cancels and joins THREADS_NUM threads, with the identifiers of those    *)
(* that were not created too: what these hold is undefined.                *)
(***************************************************************************)
EXTENDS Integers, FiniteSets

CONSTANTS THREADS_NUM, ITERATIONS_NUM

VARIABLES main7, created, joined7,
          at7,            (* the term each thread stands at                *)
          pi,             (* the local sum of each                         *)
          partial_sum,
          result          (* how often each term is in main's sum          *)

Threads7 == 0 .. THREADS_NUM - 1
Terms7 == 0 .. ITERATIONS_NUM - 1

Init ==
  /\ main7 = "create" /\ created = 0 /\ joined7 = 0
  /\ at7 = [t \in Threads7 |-> t]
  /\ pi = [t \in Threads7 |-> {}]
  /\ partial_sum = [t \in Threads7 |-> {}]
  /\ result = [n \in Terms7 |-> 0]

Create ==
  /\ main7 = "create"
  /\ \/ /\ created' = created + 1
        /\ main7' = IF created' = THREADS_NUM THEN "join" ELSE "create"
     \/ main7' = "cancel" /\ UNCHANGED created
  /\ UNCHANGED <<joined7, at7, pi, partial_sum, result>>

AddTerm(t) ==
  /\ t < created /\ at7[t] \in Terms7
  /\ pi' = [pi EXCEPT ![t] = @ \cup {at7[t]}]
  /\ at7' = [at7 EXCEPT ![t] = @ + THREADS_NUM]
  /\ UNCHANGED <<main7, created, joined7, partial_sum, result>>

Ended == ITERATIONS_NUM + THREADS_NUM  (* where a thread stands at its end *)

(* The sum is stored, after a printf that may act on a cancellation.       *)
Finish(t) ==
  /\ t < created /\ at7[t] \in ITERATIONS_NUM .. Ended - 1
  /\ \/ partial_sum' = [partial_sum EXCEPT ![t] = pi[t]]
     \/ main7 = "cancel" /\ joined7 = t /\ UNCHANGED partial_sum
  /\ at7' = [at7 EXCEPT ![t] = Ended]
  /\ UNCHANGED <<main7, created, joined7, pi, result>>

Join ==
  /\ main7 = "join" /\ at7[joined7] = Ended
  /\ result' = [n \in Terms7 |-> result[n] + (IF n \in partial_sum[joined7] THEN 1 ELSE 0)]
  /\ joined7' = joined7 + 1
  /\ main7' = IF joined7' = THREADS_NUM THEN "done" ELSE "join"
  /\ UNCHANGED <<created, at7, pi, partial_sum>>

(* cancel_threads, one thread after the other.                             *)
CancelThread ==
  /\ main7 = "cancel"
  /\ IF joined7 < created
     THEN at7[joined7] = Ended /\ joined7' = joined7 + 1 /\ UNCHANGED main7
     ELSE main7' = "undefined" /\ UNCHANGED joined7
  /\ UNCHANGED <<created, at7, pi, partial_sum, result>>

Main == Create \/ Join \/ CancelThread
Thread(t) == AddTerm(t) \/ Finish(t)
-----------------------------------------------------------------------------
(* What main prints has every term once.                                   *)
EveryTermOnce == main7 = "done" => \A n \in Terms7 : result[n] = 1

(* All threads end, and main prints.                                       *)
SumOrFailure == <>(main7 \in {"done", "undefined"})
=============================================================================
