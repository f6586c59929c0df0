--------------------------- MODULE SemQueueProofs ---------------------------
(***************************************************************************)
(* Lab23's queue, for any sets of producers and consumers, any limit and   *)
(* any number of messages: its types, the conservation of its tokens and   *)
(* its implementation of a bounded FIFO.                                   *)
(*                                                                         *)
(* The code never looks at how many messages there are: that a put finds   *)
(* room and a get finds a message follows from the tokens alone.  So the   *)
(* invariant counts threads by their places (Count), and a step moves one  *)
(* thread, which changes each count by what CountMove says.                *)
(***************************************************************************)
EXTENDS SemQueue, MessageListProofs

(* How many threads stand at one of the labels.                            *)
Count(f, labels) == Cardinality({t \in Threads : f[t] \in labels})

(* Where a thread has a token of isEmpty, of isFull and of global in hand. *)
WithPlace == {"putGlobal", "putIn", "putBack", "getEmpty"}
WithMessage == {"getGlobal", "getIn", "getBack", "putFull"}
Inside == {"putIn", "getIn", "dropIn", "dropFull", "dropGlobal", "destroyIn"}
AfterDrop == {"dropFull", "dropGlobal", "join", "destroy", "destroyIn", "done"}

Places(t) ==
  IF t \in Producers
  THEN {"put", "putGlobal", "putIn", "putBack", "putFull", "exit"}
  ELSE IF t \in Consumers
  THEN {"get", "getGlobal", "getIn", "getBack", "getEmpty", "exit"}
  ELSE {"check", "toPause", "pause", "drop", "dropIn", "dropFull", "dropGlobal",
        "join", "destroy", "destroyIn", "done"}

Typed ==
  /\ sem \in [Semaphores -> Nat]
  /\ list \in Lists(Message)
  /\ isDroped \in BOOLEAN
  /\ sent \in [Producers -> 0 .. Rounds]
  /\ got \in [Consumers -> Message \cup {Nil}]
  /\ pc \in [Threads -> Labels]
  /\ pleaseQuit \in BOOLEAN
  /\ freed \subseteq Message
  /\ buffer \in Seq(Message)

Placed == \A t \in Threads : pc[t] \in Places(t)
Tokens ==
  /\ sem["isEmpty"] + Count(pc, WithPlace) + Len(buffer)
       = Limit + (IF isDroped THEN 1 ELSE 0)
  /\ sem["isFull"] + Count(pc, WithMessage) = Len(buffer) + DropPosted
  /\ sem["global"] + Count(pc, Inside) = 1
Bounded == Len(buffer) <= Limit
Dropped == isDroped <=> pc[Main] \in AfterDrop
Unsent == \A p \in Producers : pc[p] \in {"put", "putGlobal", "putIn"} => sent[p] < Rounds
Fresh == \A i \in 1 .. Len(buffer) : buffer[i][2] <= sent[buffer[i][1]]

IInv == /\ Typed
        /\ Placed
        /\ Tokens
        /\ Bounded
        /\ Dropped
        /\ Unsent
        /\ Fresh
        /\ Linked(list, buffer)
-----------------------------------------------------------------------------
(* The threads are told apart by their places.                             *)
LEMMA PlaceFacts ==
  /\ Main \in Threads /\ Nil \notin Threads
  /\ Nil \notin Message
  /\ Places(Main) = {"check", "toPause", "pause", "drop", "dropIn", "dropFull",
                     "dropGlobal", "join", "destroy", "destroyIn", "done"}
  /\ \A p \in Producers :
       /\ p \in Threads /\ p # Main /\ p \notin Consumers
       /\ Places(p) = {"put", "putGlobal", "putIn", "putBack", "putFull", "exit"}
  /\ \A c \in Consumers :
       /\ c \in Threads /\ c # Main /\ c \notin Producers
       /\ Places(c) = {"get", "getGlobal", "getIn", "getBack", "getEmpty", "exit"}
  /\ \A t \in Threads : /\ Places(t) \subseteq Labels
                        /\ t \in Producers \/ t \in Consumers \/ t = Main
BY ThreadsDiffer DEF Threads, Places, Labels

(* There are finitely many threads, so those in a place can be counted.    *)
LEMMA ThreadsFinite == IsFiniteSet(Threads)
<1>1. IsFiniteSet(Producers \cup Consumers)
  BY FiniteThreads, FS_Union
<1> QED BY <1>1, FS_AddElement DEF Threads

(* How a step of thread t to label to changes the count of some labels.    *)
Moved(t, to, L) ==
  /\ Count(pc, L) \in Nat
  /\ Count(pc', L) \in Nat
  /\ Count(pc', L) = Count(pc, L) + (IF to \in L THEN 1 ELSE 0)
                                  - (IF pc[t] \in L THEN 1 ELSE 0)

(* One thread moves: each count changes by that thread alone.              *)
LEMMA CountMove ==
  ASSUME Typed, NEW t \in Threads, NEW to \in Labels, Goto(t, to), NEW L
  PROVE  Moved(t, to, L)
<1> DEFINE F == {x \in Threads : pc[x] \in L}
           G == {x \in Threads : pc'[x] \in L}
           A == {x \in Threads \ {t} : pc[x] \in L}
<1>0. pc' = [pc EXCEPT ![t] = to] /\ pc \in [Threads -> Labels]
  BY DEF Goto, Typed
<1>1. IsFiniteSet(F) /\ IsFiniteSet(G) /\ IsFiniteSet(A)
  BY ThreadsFinite, FS_Subset
<1>2. Cardinality(F) \in Nat /\ Cardinality(G) \in Nat /\ Cardinality(A) \in Nat
  BY <1>1, FS_CardinalityType
<1>3. t \notin A /\ Cardinality(A \cup {t}) = Cardinality(A) + 1
  BY <1>1, FS_AddElement
<1>4. F = (IF pc[t] \in L THEN A \cup {t} ELSE A)
  OBVIOUS
<1>5. G = (IF to \in L THEN A \cup {t} ELSE A)
  BY <1>0
<1>6. Count(pc, L) = Cardinality(F) /\ Count(pc', L) = Cardinality(G)
  BY DEF Count
<1> HIDE DEF F, G, A
<1>7. Cardinality(F) = Cardinality(A) + (IF pc[t] \in L THEN 1 ELSE 0)
  BY <1>2, <1>3, <1>4
<1>8. Cardinality(G) = Cardinality(A) + (IF to \in L THEN 1 ELSE 0)
  BY <1>2, <1>3, <1>5
<1> QED BY <1>2, <1>6, <1>7, <1>8 DEF Moved

(* A step of one thread changes the counts of the places it leaves and     *)
(* enters.                                                                 *)
LEMMA Moves ==
  ASSUME Typed, NEW t \in Threads, NEW to \in Labels, Goto(t, to)
  PROVE  /\ Moved(t, to, WithPlace)
         /\ Moved(t, to, WithMessage)
         /\ Moved(t, to, Inside)
         /\ pc' = [pc EXCEPT ![t] = to]
         /\ pc'[t] = to
         /\ \A x \in Threads \ {t} : pc'[x] = pc[x]
         /\ pc' \in [Threads -> Labels]
<1>1. pc' = [pc EXCEPT ![t] = to] /\ pc \in [Threads -> Labels]
  BY DEF Goto, Typed
<1> QED BY <1>1, CountMove

(* The part of the invariant that a step which leaves the queue alone      *)
(* could disturb is given; the rest follows.                               *)
LEMMA QuietInv ==
  ASSUME IInv, NEW t \in Threads, NEW to \in Places(t), Goto(t, to),
         UNCHANGED queueVars, pleaseQuit' \in BOOLEAN,
         sem' \in [Semaphores -> Nat],
         t = Main => (to \in AfterDrop <=> pc[Main] \in AfterDrop),
         t \in Producers /\ to \in {"put", "putGlobal", "putIn"} => sent[t] < Rounds,
         Tokens'
  PROVE  IInv'
<1> USE DEF queueVars
<1>1. /\ pc' \in [Threads -> Labels]
      /\ pc'[t] = to
      /\ \A x \in Threads \ {t} : pc'[x] = pc[x]
  BY Moves, PlaceFacts DEF IInv
<1>2. Typed'
  BY <1>1 DEF IInv, Typed
<1>3. Placed'
  BY <1>1 DEF IInv, Placed, Places
<1>4. Dropped'
  BY <1>1, PlaceFacts DEF IInv, Dropped
<1>5. Unsent'
  BY <1>1, PlaceFacts DEF IInv, Unsent
<1>6. Bounded' /\ Fresh' /\ Linked(list, buffer)'
  BY DEF IInv, Bounded, Fresh
<1> QED BY <1>2, <1>3, <1>4, <1>5, <1>6 DEF IInv

(* A step of one semaphore that keeps the tokens.                          *)
LEMMA WaitInv ==
  ASSUME IInv, NEW t \in Threads, NEW s \in Semaphores,
         NEW from \in Labels, NEW to \in Places(t), SemWait(t, s, from, to),
         \/ s = "isEmpty" /\ from = "put" /\ to = "putGlobal"
         \/ s = "isFull" /\ from = "get" /\ to = "getGlobal"
         \/ /\ s = "global"
            /\ \/ from = "putGlobal" /\ to = "putIn"
               \/ from = "getGlobal" /\ to = "getIn"
               \/ from = "drop" /\ to = "dropIn"
               \/ from = "destroy" /\ to = "destroyIn"
  PROVE  IInv'
<1>1. /\ pc[t] = from /\ Goto(t, to) /\ UNCHANGED <<pleaseQuit, queueVars>>
      /\ sem[s] > 0 /\ sem' = [sem EXCEPT ![s] = @ - 1]
  BY DEF SemWait
<1>2. sem \in [Semaphores -> Nat] /\ sem' \in [Semaphores -> Nat]
  BY <1>1 DEF IInv, Typed
<1>3. t = Main => (to \in AfterDrop <=> pc[Main] \in AfterDrop)
  BY <1>1 DEF AfterDrop
<1>4. t \in Producers /\ to \in {"put", "putGlobal", "putIn"} => sent[t] < Rounds
  BY <1>1 DEF IInv, Unsent
<1>5. Tokens'
  <2>1. Moved(t, to, WithPlace) /\ Moved(t, to, WithMessage) /\ Moved(t, to, Inside)
    BY <1>1, Moves, PlaceFacts DEF IInv
  <2>2. DropPosted' = DropPosted
    BY <1>1, Moves, PlaceFacts DEF IInv, DropPosted
  <2>3. UNCHANGED <<buffer, isDroped>>
    BY <1>1 DEF queueVars
  <2>4. CASE s = "isEmpty"
    <3>1. Count(pc', WithPlace) = Count(pc, WithPlace) + 1
      BY <1>1, <2>1, <2>4 DEF Moved, WithPlace
    <3>2. Count(pc', WithMessage) = Count(pc, WithMessage)
      BY <1>1, <2>1, <2>4 DEF Moved, WithMessage
    <3>3. Count(pc', Inside) = Count(pc, Inside)
      BY <1>1, <2>1, <2>4 DEF Moved, Inside
    <3> QED BY <1>1, <1>2, <2>1, <2>2, <2>3, <2>4, <3>1, <3>2, <3>3
            DEF IInv, Tokens, Semaphores, Moved
  <2>5. CASE s = "isFull"
    <3>1. Count(pc', WithPlace) = Count(pc, WithPlace)
      BY <1>1, <2>1, <2>5 DEF Moved, WithPlace
    <3>2. Count(pc', WithMessage) = Count(pc, WithMessage) + 1
      BY <1>1, <2>1, <2>5 DEF Moved, WithMessage
    <3>3. Count(pc', Inside) = Count(pc, Inside)
      BY <1>1, <2>1, <2>5 DEF Moved, Inside
    <3> QED BY <1>1, <1>2, <2>1, <2>2, <2>3, <2>5, <3>1, <3>2, <3>3
            DEF IInv, Tokens, Semaphores, Moved
  <2>6. CASE s = "global"
    <3>1. Count(pc', WithPlace) = Count(pc, WithPlace)
      BY <1>1, <2>1, <2>6 DEF Moved, WithPlace
    <3>2. Count(pc', WithMessage) = Count(pc, WithMessage)
      BY <1>1, <2>1, <2>6 DEF Moved, WithMessage
    <3>3. Count(pc', Inside) = Count(pc, Inside) + 1
      BY <1>1, <2>1, <2>6 DEF Moved, Inside
    <3> QED BY <1>1, <1>2, <2>1, <2>2, <2>3, <2>6, <3>1, <3>2, <3>3
            DEF IInv, Tokens, Semaphores, Moved
  <2> QED BY <2>4, <2>5, <2>6 DEF Semaphores
<1> QED BY <1>1, <1>2, <1>3, <1>4, <1>5, QuietInv DEF IInv, Typed

(* A post of the token that the thread has in hand, or of main's extra one.*)
LEMMA PostInv ==
  ASSUME IInv, NEW t \in Threads, NEW s \in Semaphores,
         NEW from \in Labels, NEW to \in Places(t), SemPost(t, s, from, to),
         to = "put" => sent[t] < Rounds,
         \/ /\ s = "isEmpty"
            /\ \/ from = "putBack" /\ to = "exit"
               \/ from = "getEmpty" /\ to = "get"
         \/ /\ s = "isFull"
            /\ \/ from = "putFull" /\ to \in {"exit", "put"}
               \/ from = "getBack" /\ to = "exit"
               \/ from = "dropFull" /\ to = "dropGlobal"
         \/ /\ s = "global"
            /\ \/ from = "putIn" /\ to = "putBack"
               \/ from = "getIn" /\ to = "getBack"
               \/ from = "dropGlobal" /\ to = "join"
  PROVE  IInv'
<1>1. /\ pc[t] = from /\ Goto(t, to) /\ UNCHANGED <<pleaseQuit, queueVars>>
      /\ sem' = [sem EXCEPT ![s] = @ + 1]
  BY DEF SemPost
<1>2. sem \in [Semaphores -> Nat] /\ sem' \in [Semaphores -> Nat]
  BY <1>1 DEF IInv, Typed
<1>3. t = Main => (to \in AfterDrop <=> pc[Main] \in AfterDrop)
  BY <1>1, PlaceFacts DEF AfterDrop
<1>4. t \in Producers /\ to \in {"put", "putGlobal", "putIn"} => sent[t] < Rounds
  OBVIOUS
<1>5. Tokens'
  <2>1. Moved(t, to, WithPlace) /\ Moved(t, to, WithMessage) /\ Moved(t, to, Inside)
    BY <1>1, Moves, PlaceFacts DEF IInv
  <2>2. DropPosted' = IF from = "dropFull" THEN DropPosted + 1 ELSE DropPosted
    <3>1. /\ pc'[t] = to /\ pc[t] \in Places(t)
          /\ t # Main => pc'[Main] = pc[Main]
      BY <1>1, Moves, PlaceFacts DEF IInv, Placed
    <3>2. CASE t = Main
      BY <1>1, <3>1, <3>2, PlaceFacts DEF DropPosted
    <3>3. CASE t # Main
      BY <1>1, <3>1, <3>3, PlaceFacts DEF DropPosted
    <3> QED BY <3>2, <3>3
  <2>3. UNCHANGED <<buffer, isDroped>> /\ Len(buffer) \in Nat /\ DropPosted \in Nat
    BY <1>1 DEF queueVars, IInv, Typed, DropPosted
  <2>4. CASE s = "isEmpty"
    <3>1. Count(pc', WithPlace) = Count(pc, WithPlace) - 1
      BY <1>1, <2>1, <2>4 DEF Moved, WithPlace
    <3>2. Count(pc', WithMessage) = Count(pc, WithMessage)
      BY <1>1, <2>1, <2>4 DEF Moved, WithMessage
    <3>3. Count(pc', Inside) = Count(pc, Inside)
      BY <1>1, <2>1, <2>4 DEF Moved, Inside
    <3>4. DropPosted' = DropPosted
      BY <2>2, <2>4
    <3> QED BY <1>1, <1>2, <2>1, <2>3, <2>4, <3>1, <3>2, <3>3, <3>4
            DEF IInv, Tokens, Semaphores, Moved
  <2>5. CASE s = "isFull" /\ from # "dropFull"
    <3>1. Count(pc', WithPlace) = Count(pc, WithPlace)
      BY <1>1, <2>1, <2>5 DEF Moved, WithPlace
    <3>2. Count(pc', WithMessage) = Count(pc, WithMessage) - 1
      BY <1>1, <2>1, <2>5 DEF Moved, WithMessage
    <3>3. Count(pc', Inside) = Count(pc, Inside)
      BY <1>1, <2>1, <2>5 DEF Moved, Inside
    <3> QED BY <1>1, <1>2, <2>1, <2>2, <2>3, <2>5, <3>1, <3>2, <3>3
            DEF IInv, Tokens, Semaphores, Moved
  <2>6. CASE s = "isFull" /\ from = "dropFull"
    <3>1. Count(pc', WithPlace) = Count(pc, WithPlace)
      BY <1>1, <2>1, <2>6 DEF Moved, WithPlace
    <3>2. Count(pc', WithMessage) = Count(pc, WithMessage)
      BY <1>1, <2>1, <2>6 DEF Moved, WithMessage
    <3>3. Count(pc', Inside) = Count(pc, Inside)
      BY <1>1, <2>1, <2>6 DEF Moved, Inside
    <3>4. /\ sem'["isFull"] = sem["isFull"] + 1 /\ sem["isFull"] \in Nat
          /\ sem'["isEmpty"] = sem["isEmpty"] /\ sem'["global"] = sem["global"]
      BY <1>1, <1>2, <2>6 DEF Semaphores
    <3>5. DropPosted' = DropPosted + 1 /\ Count(pc, WithMessage) \in Nat
      BY <2>1, <2>2, <2>6 DEF Moved
    <3> QED BY <2>3, <3>1, <3>2, <3>3, <3>4, <3>5 DEF IInv, Tokens
  <2>7. CASE s = "global"
    <3>1. Count(pc', WithPlace) = Count(pc, WithPlace)
      BY <1>1, <2>1, <2>7 DEF Moved, WithPlace
    <3>2. Count(pc', WithMessage) = Count(pc, WithMessage)
      BY <1>1, <2>1, <2>7 DEF Moved, WithMessage
    <3>3. Count(pc', Inside) = Count(pc, Inside) - 1
      BY <1>1, <2>1, <2>7 DEF Moved, Inside
    <3>4. DropPosted' = DropPosted
      BY <2>2, <2>7
    <3> QED BY <1>1, <1>2, <2>1, <2>3, <2>7, <3>1, <3>2, <3>3, <3>4
            DEF IInv, Tokens, Semaphores, Moved
  <2> QED BY <2>4, <2>5, <2>6, <2>7 DEF Semaphores
<1> QED BY <1>1, <1>2, <1>3, <1>4, <1>5, QuietInv DEF IInv, Typed

(* A put finds room and a new node: its token says so, not the list.       *)
LEMMA StoreInv ==
  ASSUME IInv, NEW p \in Producers, PutStore(p)
  PROVE  IInv' /\ <<p, sent[p] + 1>> \in Message /\ Len(buffer) < Limit
<1> DEFINE m == <<p, sent[p] + 1>>
<1>1. /\ pc[p] = "putIn" /\ ~isDroped
      /\ list' = PushHead(list, m)
      /\ buffer' = Append(buffer, m)
      /\ sent' = [sent EXCEPT ![p] = @ + 1]
      /\ sem' = [sem EXCEPT !["global"] = @ + 1]
      /\ Goto(p, "putFull")
      /\ UNCHANGED <<isDroped, got, pleaseQuit, freed>>
  BY DEF PutStore, Store
<1>2. /\ p \in Threads /\ p # Main /\ "putFull" \in Labels
      /\ sent \in [Producers -> 0 .. Rounds]
      /\ sent[p] < Rounds /\ sent[p] \in Nat /\ Rounds \in Nat /\ Limit \in Nat
      /\ sem \in [Semaphores -> Nat]
      /\ buffer \in Seq(Message) /\ list \in Lists(Message)
      /\ Len(buffer) \in Nat
      /\ Linked(list, buffer)
  BY <1>1, PlaceFacts, SizesPositive DEF IInv, Unsent, Typed, Labels
<1>3. m \in Message /\ m[1] = p /\ m[2] = sent[p] + 1
  BY <1>2 DEF Message
<1>4. \A i \in 1 .. Len(buffer) : /\ buffer[i] \in Message
                                  /\ buffer[i][1] \in Producers
                                  /\ buffer[i][2] \in Nat
                                  /\ buffer[i][2] <= sent[buffer[i][1]]
  <2>1. \A i \in 1 .. Len(buffer) : buffer[i] \in Message
    BY <1>2
  <2>2. \A x \in Message : x[1] \in Producers /\ x[2] \in Nat
    BY DEF Message
  <2> QED BY <2>1, <2>2 DEF IInv, Fresh
<1>5. \A i \in 1 .. Len(buffer) : buffer[i] # m
  BY <1>2, <1>3, <1>4
<1>6. PushHead(list, m) \in Lists(Message)
      /\ Linked(PushHead(list, m), Append(buffer, m))
  BY <1>2, <1>3, <1>5, PushLinked, PlaceFacts
<1>7. /\ Append(buffer, m) \in Seq(Message)
      /\ Len(Append(buffer, m)) = Len(buffer) + 1
      /\ Append(buffer, m)[Len(buffer) + 1] = m
      /\ \A i \in 1 .. Len(buffer) : Append(buffer, m)[i] = buffer[i]
  BY <1>2, <1>3
<1> HIDE DEF m
<1>8. /\ pc'[p] = "putFull" /\ pc' \in [Threads -> Labels]
      /\ \A x \in Threads \ {p} : pc'[x] = pc[x]
  BY <1>1, <1>2, Moves DEF IInv
<1>9. /\ Count(pc', WithPlace) = Count(pc, WithPlace) - 1
      /\ Count(pc', WithMessage) = Count(pc, WithMessage) + 1
      /\ Count(pc', Inside) = Count(pc, Inside) - 1
      /\ Count(pc, WithPlace) \in Nat /\ Count(pc', WithPlace) \in Nat
      /\ Count(pc, WithMessage) \in Nat /\ Count(pc, Inside) \in Nat
  <2>1. /\ Moved(p, "putFull", WithPlace) /\ Moved(p, "putFull", WithMessage)
        /\ Moved(p, "putFull", Inside)
    BY <1>1, <1>2, Moves DEF IInv
  <2> QED BY <1>1, <2>1 DEF Moved, WithPlace, WithMessage, Inside
<1>10. /\ sem["isEmpty"] + Count(pc, WithPlace) + Len(buffer) = Limit
       /\ sem["isFull"] + Count(pc, WithMessage) = Len(buffer) + DropPosted
       /\ sem["global"] + Count(pc, Inside) = 1
       /\ sem["isEmpty"] \in Nat /\ sem["isFull"] \in Nat /\ sem["global"] \in Nat
       /\ DropPosted' = DropPosted /\ DropPosted \in Nat
  <2>1. DropPosted' = DropPosted /\ DropPosted \in Nat
    BY <1>2, <1>8, PlaceFacts DEF DropPosted
  <2> QED BY <1>1, <1>2, <2>1 DEF IInv, Tokens, Semaphores
<1>11. Len(buffer) < Limit
  <2>1. Count(pc, WithPlace) >= 1
    BY <1>9
  <2>2. sem["isEmpty"] + Count(pc, WithPlace) + Len(buffer) = Limit
    BY <1>10
  <2>3. /\ sem["isEmpty"] \in Nat /\ Count(pc, WithPlace) \in Nat
        /\ Len(buffer) \in Nat /\ Limit \in Nat
    BY <1>2, <1>9, <1>10
  <2> QED BY <2>1, <2>2, <2>3
<1>12. Tokens'
  <2>1. /\ sem'["isEmpty"] = sem["isEmpty"] /\ sem'["isFull"] = sem["isFull"]
        /\ sem'["global"] = sem["global"] + 1
    BY <1>1, <1>2 DEF Semaphores
  <2>2. ~isDroped' /\ Len(buffer') = Len(buffer) + 1
    BY <1>1, <1>7
  <2>0. Len(buffer) \in Nat /\ Limit \in Nat
    BY <1>2
  <2>3. sem'["isEmpty"] + Count(pc', WithPlace) + Len(buffer') = Limit
    <3>1. /\ sem["isEmpty"] + Count(pc, WithPlace) + Len(buffer) = Limit
          /\ sem'["isEmpty"] = sem["isEmpty"] /\ sem["isEmpty"] \in Nat
          /\ Count(pc', WithPlace) = Count(pc, WithPlace) - 1
          /\ Count(pc, WithPlace) \in Nat
          /\ Len(buffer') = Len(buffer) + 1
      BY <1>9, <1>10, <2>1, <2>2
    <3> QED BY <2>0, <3>1
  <2>4. sem'["isFull"] + Count(pc', WithMessage) = Len(buffer') + DropPosted'
    <3>1. /\ sem["isFull"] + Count(pc, WithMessage) = Len(buffer) + DropPosted
          /\ sem'["isFull"] = sem["isFull"] /\ sem["isFull"] \in Nat
          /\ Count(pc', WithMessage) = Count(pc, WithMessage) + 1
          /\ Count(pc, WithMessage) \in Nat
          /\ Len(buffer') = Len(buffer) + 1
          /\ DropPosted' = DropPosted /\ DropPosted \in Nat
      BY <1>9, <1>10, <2>1, <2>2
    <3> QED BY <2>0, <3>1
  <2>5. sem'["global"] + Count(pc', Inside) = 1
    <3>1. /\ sem["global"] + Count(pc, Inside) = 1
          /\ sem'["global"] = sem["global"] + 1 /\ sem["global"] \in Nat
          /\ Count(pc', Inside) = Count(pc, Inside) - 1
          /\ Count(pc, Inside) \in Nat
      BY <1>9, <1>10, <2>1
    <3> QED BY <3>1
  <2> QED BY <2>0, <2>2, <2>3, <2>4, <2>5 DEF Tokens
<1>13. Typed'
  <2>1. sem' \in [Semaphores -> Nat] /\ sent' \in [Producers -> 0 .. Rounds]
    BY <1>1, <1>2 DEF Semaphores
  <2>2. list' \in Lists(Message) /\ buffer' \in Seq(Message)
    BY <1>1, <1>6, <1>7
  <2> QED BY <1>1, <1>8, <2>1, <2>2 DEF IInv, Typed
<1>14. Placed' /\ Dropped'
  BY <1>1, <1>2, <1>8, PlaceFacts DEF IInv, Placed, Places, Dropped
<1>15. Unsent'
  BY <1>1, <1>2, <1>8, PlaceFacts DEF IInv, Unsent
<1>16. Fresh'
  <2> SUFFICES ASSUME NEW i \in 1 .. Len(buffer) + 1
               PROVE  buffer'[i][2] <= sent'[buffer'[i][1]]
    BY <1>1, <1>7 DEF Fresh
  <2>1. CASE i = Len(buffer) + 1
    BY <2>1, <1>1, <1>2, <1>3, <1>7
  <2>2. CASE i # Len(buffer) + 1
    <3>1. i \in 1 .. Len(buffer) /\ buffer'[i] = buffer[i]
      BY <2>2, <1>1, <1>2, <1>7
    <3>2. \A q \in Producers : sent[q] \in Nat /\ sent'[q] \in Nat /\ sent[q] <= sent'[q]
      BY <1>1, <1>2
    <3> QED BY <3>1, <3>2, <1>2, <1>4
  <2> QED BY <2>1, <2>2
<1>17. Bounded' /\ Linked(list, buffer)'
  BY <1>1, <1>2, <1>6, <1>7, <1>11 DEF Bounded
<1> QED BY <1>3, <1>11, <1>12, <1>13, <1>14, <1>15, <1>16, <1>17 DEF IInv, m

(* A get finds a message, and it is the oldest one.                        *)
LEMMA TakeInv ==
  ASSUME IInv, NEW c \in Consumers, GetTake(c)
  PROVE  IInv' /\ buffer # <<>> /\ list.tail = Head(buffer)
<1>1. /\ pc[c] = "getIn" /\ ~isDroped
      /\ got' = [got EXCEPT ![c] = list.tail]
      /\ list' = PopTail(list)
      /\ buffer' = Tail(buffer)
      /\ sem' = [sem EXCEPT !["global"] = @ + 1]
      /\ Goto(c, "getEmpty")
      /\ UNCHANGED <<isDroped, sent, pleaseQuit, freed>>
  BY DEF GetTake
<1>2. /\ c \in Threads /\ c # Main /\ "getEmpty" \in Labels
      /\ sem \in [Semaphores -> Nat] /\ Limit \in Nat
      /\ buffer \in Seq(Message) /\ list \in Lists(Message)
      /\ Len(buffer) \in Nat
      /\ Linked(list, buffer)
  BY <1>1, PlaceFacts, SizesPositive DEF IInv, Typed, Labels
<1>3. /\ pc'[c] = "getEmpty" /\ pc' \in [Threads -> Labels]
      /\ \A x \in Threads \ {c} : pc'[x] = pc[x]
  BY <1>1, <1>2, Moves DEF IInv
<1>4. /\ Count(pc', WithPlace) = Count(pc, WithPlace) + 1
      /\ Count(pc', WithMessage) = Count(pc, WithMessage) - 1
      /\ Count(pc', Inside) = Count(pc, Inside) - 1
      /\ Count(pc, WithMessage) \in Nat /\ Count(pc', WithMessage) \in Nat
      /\ Count(pc, WithPlace) \in Nat /\ Count(pc, Inside) \in Nat
  <2>1. /\ Moved(c, "getEmpty", WithPlace) /\ Moved(c, "getEmpty", WithMessage)
        /\ Moved(c, "getEmpty", Inside)
    BY <1>1, <1>2, Moves DEF IInv
  <2> QED BY <1>1, <2>1 DEF Moved, WithPlace, WithMessage, Inside
<1>5. /\ sem["isEmpty"] + Count(pc, WithPlace) + Len(buffer) = Limit
      /\ sem["isFull"] + Count(pc, WithMessage) = Len(buffer)
      /\ sem["global"] + Count(pc, Inside) = 1
      /\ sem["isEmpty"] \in Nat /\ sem["isFull"] \in Nat /\ sem["global"] \in Nat
      /\ DropPosted' = 0
  <2>1. DropPosted' = DropPosted /\ DropPosted = 0
    BY <1>1, <1>2, <1>3, PlaceFacts DEF IInv, Dropped, AfterDrop, DropPosted
  <2> QED BY <1>1, <1>2, <2>1 DEF IInv, Tokens, Semaphores
<1>6. buffer # <<>>
  BY <1>2, <1>4, <1>5
<1>7. /\ list.tail = Head(buffer)
      /\ PopTail(list) \in Lists(Message)
      /\ Linked(PopTail(list), Tail(buffer))
  BY <1>2, <1>6, PopLinked, PlaceFacts
<1>8. /\ Tail(buffer) \in Seq(Message)
      /\ Len(Tail(buffer)) = Len(buffer) - 1
      /\ \A i \in 1 .. Len(buffer) - 1 : Tail(buffer)[i] = buffer[i + 1]
      /\ Head(buffer) \in Message
  BY <1>2, <1>6
<1>9. Tokens'
  <2>1. /\ sem'["isEmpty"] = sem["isEmpty"] /\ sem'["isFull"] = sem["isFull"]
        /\ sem'["global"] = sem["global"] + 1
    BY <1>1, <1>2 DEF Semaphores
  <2>2. ~isDroped' /\ Len(buffer') = Len(buffer) - 1
    BY <1>1, <1>8
  <2>0. Len(buffer) \in Nat /\ Limit \in Nat
    BY <1>2
  <2>3. sem'["isEmpty"] + Count(pc', WithPlace) + Len(buffer') = Limit
    <3>1. /\ sem["isEmpty"] + Count(pc, WithPlace) + Len(buffer) = Limit
          /\ sem'["isEmpty"] = sem["isEmpty"] /\ sem["isEmpty"] \in Nat
          /\ Count(pc', WithPlace) = Count(pc, WithPlace) + 1
          /\ Count(pc, WithPlace) \in Nat
          /\ Len(buffer') = Len(buffer) - 1
      BY <1>4, <1>5, <2>1, <2>2
    <3> QED BY <2>0, <3>1
  <2>4. sem'["isFull"] + Count(pc', WithMessage) = Len(buffer') + DropPosted'
    <3>1. /\ sem["isFull"] + Count(pc, WithMessage) = Len(buffer)
          /\ sem'["isFull"] = sem["isFull"] /\ sem["isFull"] \in Nat
          /\ Count(pc', WithMessage) = Count(pc, WithMessage) - 1
          /\ Count(pc, WithMessage) \in Nat
          /\ Len(buffer') = Len(buffer) - 1
          /\ DropPosted' = 0
      BY <1>4, <1>5, <2>1, <2>2
    <3> QED BY <2>0, <3>1
  <2>5. sem'["global"] + Count(pc', Inside) = 1
    <3>1. /\ sem["global"] + Count(pc, Inside) = 1
          /\ sem'["global"] = sem["global"] + 1 /\ sem["global"] \in Nat
          /\ Count(pc', Inside) = Count(pc, Inside) - 1
          /\ Count(pc, Inside) \in Nat
      BY <1>4, <1>5, <2>1
    <3> QED BY <3>1
  <2> QED BY <2>0, <2>2, <2>3, <2>4, <2>5 DEF Tokens
<1>10. Typed'
  <2>1. sem' \in [Semaphores -> Nat]
    BY <1>1, <1>2 DEF Semaphores
  <2>2. got' \in [Consumers -> Message \cup {Nil}]
    BY <1>1, <1>7, <1>8 DEF IInv, Typed
  <2>3. list' \in Lists(Message) /\ buffer' \in Seq(Message)
    BY <1>1, <1>7, <1>8
  <2> QED BY <1>1, <1>3, <2>1, <2>2, <2>3 DEF IInv, Typed
<1>11. Placed' /\ Dropped'
  BY <1>1, <1>2, <1>3, PlaceFacts DEF IInv, Placed, Places, Dropped
<1>12. Unsent'
  BY <1>1, <1>2, <1>3, PlaceFacts DEF IInv, Unsent
<1>13. Fresh'
  <2> SUFFICES ASSUME NEW i \in 1 .. Len(buffer) - 1
               PROVE  buffer'[i][2] <= sent'[buffer'[i][1]]
    BY <1>1, <1>8 DEF Fresh
  <2>1. i + 1 \in 1 .. Len(buffer) /\ buffer'[i] = buffer[i + 1]
    BY <1>1, <1>2, <1>8
  <2> QED BY <2>1, <1>1 DEF IInv, Fresh
<1>14. Bounded' /\ Linked(list, buffer)'
  BY <1>1, <1>2, <1>7, <1>8 DEF IInv, Bounded
<1> QED BY <1>6, <1>7, <1>9, <1>10, <1>11, <1>12, <1>13, <1>14 DEF IInv

(* Main's own steps and the signal.                                        *)
LEMMA MainInv ==
  ASSUME IInv, MainCheck \/ MainPause \/ MainDrop \/ MainJoin \/ MainDestroy \/ Sigint
  PROVE  IInv'
<1>0. /\ Main \in Threads /\ pc \in [Threads -> Labels]
      /\ sem \in [Semaphores -> Nat] /\ Len(buffer) \in Nat
  BY PlaceFacts DEF IInv, Typed
<1> DEFINE Near(to) == /\ Moved(Main, to, WithPlace)
                       /\ Moved(Main, to, WithMessage)
                       /\ Moved(Main, to, Inside)
<1>1. ASSUME NEW to \in Labels, Goto(Main, to)
      PROVE  Near(to) /\ pc'[Main] = to /\ pc' \in [Threads -> Labels]
             /\ \A x \in Threads \ {Main} : pc'[x] = pc[x]
  BY <1>0, <1>1, Moves DEF IInv
<1>2. CASE MainCheck \/ MainPause \/ MainJoin \/ Sigint
  <2>1. PICK to \in {"check", "toPause", "pause", "drop", "destroy"} :
           /\ Goto(Main, to)
           /\ \/ pc[Main] \in {"check", "toPause", "pause"} /\ to # "destroy"
              \/ pc[Main] = "join" /\ to = "destroy"
           /\ pleaseQuit' \in BOOLEAN
           /\ UNCHANGED <<sem, queueVars>>
    <3>1. CASE MainCheck
      BY <1>0, <3>1 DEF MainCheck, IInv, Typed
    <3>2. CASE MainPause
      BY <1>0, <3>2 DEF MainPause, IInv, Typed
    <3>3. CASE MainJoin
      BY <1>0, <3>3 DEF MainJoin, IInv, Typed
    <3>4. CASE Sigint
      BY <1>0, <3>4 DEF Sigint, IInv, Typed
    <3> QED BY <1>2, <3>1, <3>2, <3>3, <3>4
  <2>2. to \in Labels /\ to \in Places(Main)
    BY PlaceFacts DEF Labels
  <2>3. /\ Count(pc', WithPlace) = Count(pc, WithPlace)
        /\ Count(pc', WithMessage) = Count(pc, WithMessage)
        /\ Count(pc', Inside) = Count(pc, Inside)
        /\ DropPosted' = DropPosted
    BY <1>1, <2>1, <2>2 DEF Moved, WithPlace, WithMessage, Inside, DropPosted
  <2>4. Tokens'
    BY <2>1, <2>3 DEF IInv, Tokens, queueVars
  <2>5. to \in AfterDrop <=> pc[Main] \in AfterDrop
    BY <2>1 DEF AfterDrop
  <2> QED BY <1>0, <2>1, <2>2, <2>4, <2>5, QuietInv, PlaceFacts
<1>3. CASE MainDrop
  <2>1. /\ pc[Main] = "dropIn" /\ isDroped' = TRUE /\ Goto(Main, "dropFull")
        /\ sem' = [sem EXCEPT !["isEmpty"] = @ + 1]
        /\ UNCHANGED <<list, sent, got, pleaseQuit, freed, buffer>>
    BY <1>3 DEF MainDrop
  <2>2. /\ pc'[Main] = "dropFull" /\ pc' \in [Threads -> Labels]
        /\ \A x \in Threads \ {Main} : pc'[x] = pc[x]
        /\ Near("dropFull")
    BY <1>1, <2>1 DEF Labels
  <2>3. ~isDroped
    BY <2>1 DEF IInv, Dropped, AfterDrop
  <2>4. Tokens'
    <3>1. /\ Count(pc', WithPlace) = Count(pc, WithPlace)
          /\ Count(pc', WithMessage) = Count(pc, WithMessage)
          /\ Count(pc', Inside) = Count(pc, Inside)
          /\ Count(pc, WithPlace) \in Nat
      BY <2>1, <2>2 DEF Moved, WithPlace, WithMessage, Inside
    <3>2. DropPosted' = DropPosted
      BY <2>1, <2>2 DEF DropPosted
    <3>3. /\ sem'["isEmpty"] = sem["isEmpty"] + 1 /\ sem["isEmpty"] \in Nat
          /\ sem'["isFull"] = sem["isFull"] /\ sem'["global"] = sem["global"]
      BY <1>0, <2>1 DEF Semaphores
    <3>4. sem["isEmpty"] + Count(pc, WithPlace) + Len(buffer) = Limit
      BY <2>3, SizesPositive DEF IInv, Tokens
    <3>5. sem'["isEmpty"] + Count(pc', WithPlace) + Len(buffer) = Limit + 1
      BY <1>0, <3>1, <3>3, <3>4, SizesPositive
    <3> QED BY <2>1, <3>1, <3>2, <3>3, <3>5 DEF IInv, Tokens
  <2>5. Typed'
    <3>1. sem' \in [Semaphores -> Nat]
      BY <1>0, <2>1 DEF Semaphores
    <3> QED BY <2>1, <2>2, <3>1 DEF IInv, Typed
  <2>6. Placed' /\ Dropped' /\ Unsent'
    BY <1>0, <2>1, <2>2, PlaceFacts DEF IInv, Placed, Places, Dropped, AfterDrop, Unsent
  <2>7. Bounded' /\ Fresh' /\ Linked(list, buffer)'
    BY <2>1 DEF IInv, Bounded, Fresh
  <2> QED BY <2>4, <2>5, <2>6, <2>7 DEF IInv
<1>4. CASE MainDestroy
  <2>1. /\ pc[Main] = "destroyIn" /\ freed' = Walked(list) /\ Goto(Main, "done")
        /\ sem' = [sem EXCEPT !["global"] = @ + 1]
        /\ UNCHANGED <<list, isDroped, sent, got, pleaseQuit, buffer>>
    BY <1>4 DEF MainDestroy
  <2>2. /\ pc'[Main] = "done" /\ pc' \in [Threads -> Labels]
        /\ \A x \in Threads \ {Main} : pc'[x] = pc[x]
        /\ Near("done")
    BY <1>1, <2>1 DEF Labels
  <2>3. Tokens'
    <3>1. /\ Count(pc', WithPlace) = Count(pc, WithPlace)
          /\ Count(pc', WithMessage) = Count(pc, WithMessage)
          /\ Count(pc', Inside) = Count(pc, Inside) - 1
          /\ Count(pc, Inside) \in Nat
      BY <2>1, <2>2 DEF Moved, WithPlace, WithMessage, Inside
    <3>2. DropPosted' = DropPosted
      BY <2>1, <2>2 DEF DropPosted
    <3>3. /\ sem'["global"] = sem["global"] + 1 /\ sem["global"] \in Nat
          /\ sem'["isFull"] = sem["isFull"] /\ sem'["isEmpty"] = sem["isEmpty"]
      BY <1>0, <2>1 DEF Semaphores
    <3> QED BY <2>1, <3>1, <3>2, <3>3 DEF IInv, Tokens
  <2>4. Typed'
    <3>1. sem' \in [Semaphores -> Nat]
      BY <1>0, <2>1 DEF Semaphores
    <3>2. DOMAIN list.next = Message
      BY DEF IInv, Typed, Lists
    <3>3. Walked(list) \subseteq Message
      BY <3>2 DEF Walked
    <3> QED BY <2>1, <2>2, <3>1, <3>3 DEF IInv, Typed
  <2>5. Placed' /\ Dropped' /\ Unsent'
    BY <1>0, <2>1, <2>2, PlaceFacts DEF IInv, Placed, Places, Dropped, AfterDrop, Unsent
  <2>6. Bounded' /\ Fresh' /\ Linked(list, buffer)'
    BY <2>1 DEF IInv, Bounded, Fresh
  <2> QED BY <2>3, <2>4, <2>5, <2>6 DEF IInv
<1> QED BY <1>2, <1>3, <1>4

(* The invariant holds at the start,                                       *)
LEMMA InitInv == Init => IInv
<1> SUFFICES ASSUME Init PROVE IInv
  OBVIOUS
<1> USE DEF Init, InitWith
<1>1. EmptyList(Message) \in Lists(Message) /\ Linked(EmptyList(Message), <<>>)
  BY EmptyLinked
<1>2. \A t \in Threads : pc[t] = IF t \in Producers THEN "put"
                                 ELSE IF t \in Consumers THEN "get" ELSE "check"
  OBVIOUS
<1>3. /\ sem \in [Semaphores -> Nat]
      /\ sem["isEmpty"] = Limit /\ sem["isFull"] = 0 /\ sem["global"] = 1
  BY SizesPositive DEF Semaphores
<1>4. Typed
  <2>1. pc \in [Threads -> Labels] /\ got \in [Consumers -> Message \cup {Nil}]
    BY DEF Labels
  <2>2. sent \in [Producers -> 0 .. Rounds]
    BY SizesPositive
  <2>3. list \in Lists(Message) /\ buffer \in Seq(Message)
    BY <1>1
  <2> QED BY <1>3, <2>1, <2>2, <2>3 DEF Typed
<1>5. Tokens
  <2>1. \A t \in Threads : pc[t] \notin WithPlace \cup WithMessage \cup Inside
    BY <1>2 DEF WithPlace, WithMessage, Inside
  <2>2. /\ {t \in Threads : pc[t] \in WithPlace} = {}
        /\ {t \in Threads : pc[t] \in WithMessage} = {}
        /\ {t \in Threads : pc[t] \in Inside} = {}
    BY <2>1
  <2>3. Count(pc, WithPlace) = 0 /\ Count(pc, WithMessage) = 0 /\ Count(pc, Inside) = 0
    BY <2>2, FS_EmptySet DEF Count
  <2>4. DropPosted = 0
    BY <1>2, PlaceFacts DEF DropPosted
  <2>5. ~isDroped /\ Len(buffer) = 0 /\ Limit \in Nat
    BY SizesPositive
  <2> HIDE DEF Init, InitWith
  <2> QED BY <1>3, <2>3, <2>4, <2>5 DEF Tokens
<1>6. Placed /\ Dropped
  <2>1. pc[Main] = "check"
    BY <1>2, PlaceFacts
  <2> QED BY <1>2, <2>1 DEF Placed, Places, Dropped, AfterDrop
<1>7. Bounded /\ Unsent /\ Fresh /\ Linked(list, buffer)
  BY <1>1, SizesPositive DEF Bounded, Unsent, Fresh
<1> QED BY <1>4, <1>5, <1>6, <1>7 DEF IInv

(* is kept by every step,                                                  *)
LEMMA NextInv == IInv /\ [Next]_vars => IInv'
<1> SUFFICES ASSUME IInv, [Next]_vars PROVE IInv'
  OBVIOUS
<1> USE DEF Labels, Semaphores
<1>1. ASSUME NEW p \in Producers, Producer(p) PROVE IInv'
  <2>1. CASE SemWait(p, "isEmpty", "put", "putGlobal")
    BY <2>1, WaitInv, PlaceFacts
  <2>2. CASE SemWait(p, "global", "putGlobal", "putIn")
    BY <2>2, WaitInv, PlaceFacts
  <2>3. CASE Refuse(p, "putIn", "putBack")
    BY <2>3, PostInv, PlaceFacts DEF Refuse
  <2>4. CASE SemPost(p, "isEmpty", "putBack", "exit")
    BY <2>4, PostInv, PlaceFacts
  <2>5. CASE PutStore(p)
    BY <2>5, StoreInv
  <2>6. CASE PutDone(p)
    <3>1. CASE sent[p] = Rounds
      BY <2>6, <3>1, PostInv, PlaceFacts DEF PutDone
    <3>2. CASE sent[p] # Rounds
      <4>1. sent[p] < Rounds
        BY <3>2, SizesPositive DEF IInv, Typed
      <4> QED BY <2>6, <3>2, <4>1, PostInv, PlaceFacts DEF PutDone
    <3> QED BY <3>1, <3>2
  <2> QED BY <1>1, <2>1, <2>2, <2>3, <2>4, <2>5, <2>6 DEF Producer
<1>2. ASSUME NEW c \in Consumers, Consumer(c) PROVE IInv'
  <2>1. CASE SemWait(c, "isFull", "get", "getGlobal")
    BY <2>1, WaitInv, PlaceFacts
  <2>2. CASE SemWait(c, "global", "getGlobal", "getIn")
    BY <2>2, WaitInv, PlaceFacts
  <2>3. CASE Refuse(c, "getIn", "getBack")
    BY <2>3, PostInv, PlaceFacts DEF Refuse
  <2>4. CASE GetBack(c)
    BY <2>4, PostInv, PlaceFacts DEF GetBack
  <2>5. CASE GetTake(c)
    BY <2>5, TakeInv
  <2>6. CASE GetDone(c)
    BY <2>6, PostInv, PlaceFacts DEF GetDone
  <2> QED BY <1>2, <2>1, <2>2, <2>3, <2>4, <2>5, <2>6 DEF Consumer
<1>3. CASE MainThread
  <2>1. CASE SemWait(Main, "global", "drop", "dropIn")
    BY <2>1, WaitInv, PlaceFacts
  <2>2. CASE SemPost(Main, "isFull", "dropFull", "dropGlobal")
    BY <2>2, PostInv, PlaceFacts
  <2>3. CASE SemPost(Main, "global", "dropGlobal", "join")
    BY <2>3, PostInv, PlaceFacts
  <2>4. CASE SemWait(Main, "global", "destroy", "destroyIn")
    BY <2>4, WaitInv, PlaceFacts
  <2> QED BY <1>3, <2>1, <2>2, <2>3, <2>4, MainInv DEF MainThread
<1>4. CASE Sigint
  BY <1>4, MainInv
<1>5. CASE UNCHANGED vars
  <2> USE <1>5 DEF vars
  <2>1. Typed' /\ Placed' /\ Bounded' /\ Dropped' /\ Unsent' /\ Fresh'
    BY DEF IInv, Typed, Placed, Bounded, Dropped, Unsent, Fresh
  <2>2. Tokens'
    BY DEF IInv, Tokens, DropPosted
  <2> QED BY <2>1, <2>2 DEF IInv
<1> QED BY <1>1, <1>2, <1>3, <1>4, <1>5 DEF Next, Terminated

(* and so holds always.                                                    *)
LEMMA Invariance == Spec => []IInv
BY InitInv, NextInv, PTL DEF Spec

(* Threads in two places that differ are counted apart.                    *)
LEMMA CountSplit ==
  ASSUME NEW A, NEW B, A \cap B = {}
  PROVE  Count(pc, A \cup B) = Count(pc, A) + Count(pc, B)
<1> DEFINE F == {t \in Threads : pc[t] \in A}
           G == {t \in Threads : pc[t] \in B}
<1>1. IsFiniteSet(F) /\ IsFiniteSet(G)
  BY ThreadsFinite, FS_Subset
<1>2. F \cap G = {} /\ {t \in Threads : pc[t] \in A \cup B} = F \cup G
  OBVIOUS
<1>3. Cardinality(F \cup G) = Cardinality(F) + Cardinality(G) - Cardinality({})
  BY <1>1, <1>2, FS_Union
<1>4. Cardinality(F) \in Nat /\ Cardinality(G) \in Nat
  BY <1>1, FS_CardinalityType
<1>5. /\ Count(pc, A) = Cardinality(F) /\ Count(pc, B) = Cardinality(G)
      /\ Count(pc, A \cup B) = Cardinality(F \cup G)
  BY <1>2 DEF Count
<1> HIDE DEF F, G
<1> QED BY <1>3, <1>4, <1>5, FS_EmptySet

(* The values of the three semaphores, and that the types hold, for every  *)
(* number of threads, limit and number of messages.                        *)
THEOREM TypeCorrect == Spec => []TypeOK
<1>1. ASSUME IInv PROVE TypeOK
  <2>1. /\ sem["isEmpty"] \in Nat /\ sem["isFull"] \in Nat /\ sem["global"] \in Nat
        /\ Len(buffer) \in 0 .. Limit /\ Limit \in Nat \ {0}
        /\ DropPosted \in 0 .. 1
    BY <1>1, SizesPositive DEF IInv, Typed, Semaphores, Bounded, DropPosted
  <2>2. ASSUME NEW L PROVE Count(pc, L) \in Nat
    BY ThreadsFinite, FS_Subset, FS_CardinalityType DEF Count
  <2>3. sem["isEmpty"] <= Limit + 1
    BY <1>1, <2>1, <2>2 DEF IInv, Tokens
  <2>4. sem["isFull"] <= Limit + 1
    BY <1>1, <2>1, <2>2 DEF IInv, Tokens
  <2>5. sem["global"] <= 1
    BY <1>1, <2>1, <2>2 DEF IInv, Tokens
  <2>6. /\ sem["isEmpty"] \in 0 .. Limit + 1 /\ sem["isFull"] \in 0 .. Limit + 1
        /\ sem["global"] \in 0 .. Limit + 1 /\ sem["global"] \in 0 .. 1
    BY <2>1, <2>3, <2>4, <2>5
  <2>7. sem \in [Semaphores -> 0 .. Limit + 1]
    BY <1>1, <2>6 DEF IInv, Typed, Semaphores
  <2> QED BY <1>1, <2>6, <2>7 DEF IInv, Typed, TypeOK
<1> QED BY <1>1, Invariance, PTL

(* No sem_wait, sem_post or drop loses or makes a token, whatever the      *)
(* number of threads that wait, leave or pass the drop's token on.         *)
THEOREM TokensCorrect == Spec => []TokensConserved
<1>1. ASSUME IInv PROVE TokensConserved
  <2>1. ASSUME NEW L PROVE At(L) = Count(pc, L) /\ At(L) \in Nat
    BY ThreadsFinite, FS_Subset, FS_CardinalityType DEF Count, At
  <2>2. Count(pc, WithPlace)
          = At({"putGlobal", "putIn", "putBack"}) + At({"getEmpty"})
    <3>1. WithPlace = {"putGlobal", "putIn", "putBack"} \cup {"getEmpty"}
      BY DEF WithPlace
    <3> QED BY <2>1, <3>1, CountSplit
  <2>3. Count(pc, WithMessage)
          = At({"getGlobal", "getIn", "getBack"}) + At({"putFull"})
    <3>1. WithMessage = {"getGlobal", "getIn", "getBack"} \cup {"putFull"}
      BY DEF WithMessage
    <3> QED BY <2>1, <3>1, CountSplit
  <2>4. sem["isEmpty"] \in Nat /\ sem["isFull"] \in Nat /\ Len(buffer) \in Nat
    BY <1>1 DEF IInv, Typed, Semaphores
  <2>5. sem["isEmpty"] + At({"putGlobal", "putIn", "putBack"}) + Len(buffer)
          + At({"getEmpty"}) = Limit + (IF isDroped THEN 1 ELSE 0)
    <3>1. sem["isEmpty"] + Count(pc, WithPlace) + Len(buffer)
            = Limit + (IF isDroped THEN 1 ELSE 0)
      BY <1>1 DEF IInv, Tokens
    <3> QED BY <2>1, <2>2, <2>4, <3>1
  <2>6. sem["isFull"] + At({"getGlobal", "getIn", "getBack"}) + At({"putFull"})
          = Len(buffer) + DropPosted
    <3>1. sem["isFull"] + Count(pc, WithMessage) = Len(buffer) + DropPosted
      BY <1>1 DEF IInv, Tokens
    <3> QED BY <2>1, <2>3, <2>4, <3>1
  <2> QED BY <2>5, <2>6 DEF TokensConserved
<1> QED BY <1>1, Invariance, PTL

(* Each step of the code is a step of the bounded FIFO or changes nothing  *)
(* of it, although the code never compares a count with the limit.         *)
THEOREM Refinement == Spec => ImplementsFifo
<1>1. Init => Fifo!Init
  BY DEF Init, InitWith, Fifo!Init
<1>2. IInv /\ [Next]_vars => [Fifo!Next]_(Fifo!fifoVars)
  <2> SUFFICES ASSUME IInv, [Next]_vars PROVE [Fifo!Next]_(Fifo!fifoVars)
    OBVIOUS
  <2> USE DEF Fifo!fifoVars, queueVars
  <2>1. ASSUME NEW p \in Producers, Producer(p) PROVE [Fifo!Next]_(Fifo!fifoVars)
    <3>1. CASE PutStore(p)
      <4>1. <<p, sent[p] + 1>> \in Message /\ Len(buffer) < Limit
        BY <3>1, StoreInv
      <4>2. Fifo!Put(<<p, sent[p] + 1>>)
        BY <3>1, <4>1 DEF PutStore, Store, Fifo!Put
      <4> QED BY <4>1, <4>2 DEF Fifo!Next
    <3>2. CASE ~PutStore(p)
      BY <2>1, <3>2 DEF Producer, SemWait, SemPost, Refuse, PutDone
    <3> QED BY <3>1, <3>2
  <2>2. ASSUME NEW c \in Consumers, Consumer(c) PROVE [Fifo!Next]_(Fifo!fifoVars)
    <3>1. CASE GetTake(c)
      <4>1. buffer # <<>> /\ list.tail = Head(buffer)
        BY <3>1, TakeInv
      <4>2. Fifo!Get(c)
        BY <3>1, <4>1 DEF GetTake, Fifo!Get
      <4> QED BY <4>2 DEF Fifo!Next
    <3>2. CASE ~GetTake(c)
      BY <2>2, <3>2 DEF Consumer, SemWait, SemPost, Refuse, GetBack, GetDone
    <3> QED BY <3>1, <3>2
  <2>3. CASE MainThread
    <3>1. CASE MainDrop
      <4>1. ~isDroped
        BY <3>1 DEF MainDrop, IInv, Dropped, AfterDrop
      <4>2. Fifo!Close
        BY <3>1, <4>1 DEF MainDrop, Fifo!Close
      <4> QED BY <4>2 DEF Fifo!Next
    <3>2. CASE ~MainDrop
      BY <2>3, <3>2
         DEF MainThread, MainCheck, MainPause, SemWait, SemPost, MainJoin, MainDestroy
    <3> QED BY <3>1, <3>2
  <2>4. CASE Sigint \/ UNCHANGED vars
    BY <2>4 DEF Sigint, vars
  <2> QED BY <2>1, <2>2, <2>3, <2>4 DEF Next, Terminated
<1> QED BY <1>1, <1>2, Invariance, PTL DEF Spec, ImplementsFifo, Fifo!Spec
=============================================================================
