---------------------------- MODULE BoundedFifo ----------------------------
(***************************************************************************)
(* What a message queue of this repository promises its threads, whichever *)
(* of the implementations is behind it: a put appends one message and only *)
(* while there is room, a get hands the oldest stored message to one       *)
(* consumer, and once the queue is dropped neither happens again.          *)
(***************************************************************************)
EXTENDS Naturals, Sequences

CONSTANTS Messages,   (* what a producer may put                            *)
          Consumers,  (* the threads that get                               *)
          Limit,      (* how many messages the queue holds at most          *)
          Nothing     (* what a consumer has before its first get           *)

VARIABLES stored,     (* the messages put and not yet got, oldest first     *)
          got,        (* the last message each consumer was handed          *)
          open        (* FALSE once the queue is dropped                    *)

fifoVars == <<stored, got, open>>

Init ==
  /\ stored = <<>>
  /\ got = [c \in Consumers |-> Nothing]
  /\ open = TRUE

Put(m) ==
  /\ open
  /\ Len(stored) < Limit
  /\ stored' = Append(stored, m)
  /\ UNCHANGED <<got, open>>

Get(c) ==
  /\ open
  /\ stored # <<>>
  /\ got' = [got EXCEPT ![c] = Head(stored)]
  /\ stored' = Tail(stored)
  /\ UNCHANGED open

Close ==
  /\ open
  /\ open' = FALSE
  /\ UNCHANGED <<stored, got>>

Next == (\E m \in Messages : Put(m)) \/ (\E c \in Consumers : Get(c)) \/ Close

Spec == Init /\ [][Next]_fifoVars
=============================================================================
