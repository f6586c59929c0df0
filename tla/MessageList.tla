---------------------------- MODULE MessageList ----------------------------
(***************************************************************************)
(* The doubly linked list of messages under every message queue of the     *)
(* repository: Lab23/main.c and Lab24/main.c call its ends head and tail,  *)
(* Lab23-24/*/message_queue.c call them in and out.  A put links a node at *)
(* the head, a get unlinks the node at the tail, so the list is a FIFO     *)
(* whose oldest message is at the tail: prev leads from the tail to newer  *)
(* nodes and next from the head to older ones.                             *)
(*                                                                         *)
(* A node is a member of a set of cells; Nil is the null pointer.  The     *)
(* pointer fields are functions on cells, so a node that was unlinked      *)
(* keeps its stale pointers, as it does in memory.                         *)
(***************************************************************************)
EXTENDS Integers, Sequences

CONSTANT Nil

(* Every value a list over these cells can take, well formed or not.       *)
Lists(cells) ==
  [head : cells \cup {Nil}, tail : cells \cup {Nil},
   next : [cells -> cells \cup {Nil}], prev : [cells -> cells \cup {Nil}]]

EmptyList(cells) ==
  [head |-> Nil, tail |-> Nil,
   next |-> [c \in cells |-> Nil], prev |-> [c \in cells |-> Nil]]

(* Link a fresh node at the head (mymsgput).                               *)
PushHead(l, c) ==
  [head |-> c,
   tail |-> IF l.head = Nil THEN c ELSE l.tail,
   next |-> [l.next EXCEPT ![c] = l.head],
   prev |-> [x \in DOMAIN l.prev |->
               IF x = c THEN Nil ELSE IF x = l.head THEN c ELSE l.prev[x]]]

(* Mutant of PopTail: the last node leaves head behind.                    *)
PopTailOnly(l) ==
  IF l.head = l.tail
  THEN [l EXCEPT !.tail = Nil]
  ELSE [l EXCEPT !.tail = l.prev[l.tail],
                 !.next = [l.next EXCEPT ![l.prev[l.tail]] = Nil]]

(* Unlink the node at the tail (mymsgget).                                 *)
PopTail(l) ==
  IF l.head = l.tail
  THEN [l EXCEPT !.head = Nil, !.tail = Nil]
  ELSE [l EXCEPT !.tail = l.prev[l.tail],
                 !.next = [l.next EXCEPT ![l.prev[l.tail]] = Nil]]

(* The nodes a walk from the head along next meets (mymsgdestroy, drop):   *)
(* the least set with the head in it that next does not lead out of.       *)
Walked(l) ==
  LET cells == DOMAIN l.next
      Closed(S) == /\ l.head \in S \cup {Nil}
                   /\ \A x \in S : l.next[x] \in S \cup {Nil}
  IN  {c \in cells : \A S \in SUBSET cells : Closed(S) => c \in S}

-----------------------------------------------------------------------------
(* l is the linked form of the sequence s of cells, oldest first: the ends *)
(* are the ends of s, both pointer chains follow s and stop with it, and   *)
(* no node is linked twice.                                                *)
Ends(l, s) ==
  /\ s = <<>> => l.head = Nil /\ l.tail = Nil
  /\ s # <<>> => /\ l.tail = s[1]
                 /\ l.head = s[Len(s)]
                 /\ l.next[s[1]] = Nil
                 /\ l.prev[s[Len(s)]] = Nil

Chained(l, s) ==
  \A i \in 1 .. Len(s) - 1 : /\ l.prev[s[i]] = s[i + 1]
                             /\ l.next[s[i + 1]] = s[i]

NoRepeat(s) == \A i, j \in 1 .. Len(s) : s[i] = s[j] => i = j

Linked(l, s) == Ends(l, s) /\ Chained(l, s) /\ NoRepeat(s)
=============================================================================
