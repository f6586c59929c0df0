-------------------------- MODULE CondQueueProofs --------------------------
(***************************************************************************)
(* Lab24's queue, for any sets of producers and consumers, any limit and   *)
(* any number of messages: its types, the list under it, the absence of    *)
(* lost wakeups and its implementation of a bounded FIFO.                  *)
(*                                                                         *)
(* None of these is inductive alone.  That the list is right after a put   *)
(* needs the message to be new (Fresh); that only one thread is in a       *)
(* critical section needs the mutex (Holder); that a sleeper's reason      *)
(* still stands needs every sleeper to be woken at the edges 0 and Limit;  *)
(* and a dropped queue stays quiet because main alone drops it (Dropped).  *)
(***************************************************************************)
EXTENDS CondQueue, MessageListProofs

Inside == {"putTest", "getTest", "dropIn", "destroyIn"}

Places(t) ==
  IF t \in Producers THEN {"put", "putTest", "putWait", "exit"}
  ELSE IF t \in Consumers THEN {"get", "getTest", "getWait", "exit"}
  ELSE {"check", "toPause", "pause", "drop", "dropIn", "join", "destroy",
        "destroyIn", "done"}

Placed == \A t \in Threads : pc[t] \in Places(t)
Holder == \A t \in Threads : mutex = t <=> pc[t] \in Inside
Asleep == \A t \in waiting : pc[t] \in {"putWait", "getWait"}
Unsent == \A p \in Producers : pc[p] # "exit" => sent[p] < Rounds
Fresh == \A i \in 1 .. Len(buffer) : buffer[i][2] <= sent[buffer[i][1]]
Dropped == isDroped <=> pc[Main] \in {"join", "destroy", "destroyIn", "done"}
Joined == pc[Main] \in {"destroy", "destroyIn", "done"} =>
            \A t \in Threads \ {Main} : pc[t] = "exit"

IInv == /\ TypeOK
        /\ Placed
        /\ Holder
        /\ Asleep
        /\ Unsent
        /\ Fresh
        /\ Dropped
        /\ Joined
        /\ ListFaithful
        /\ WaitersJustified
-----------------------------------------------------------------------------
(* The threads are told apart by their places.                             *)
LEMMA PlaceFacts ==
  /\ Main \in Threads /\ Nil \notin Threads
  /\ Nil \notin Message
  /\ Places(Main) = {"check", "toPause", "pause", "drop", "dropIn", "join",
                     "destroy", "destroyIn", "done"}
  /\ \A p \in Producers : /\ p \in Threads /\ p # Main /\ p \notin Consumers
                          /\ Places(p) = {"put", "putTest", "putWait", "exit"}
  /\ \A c \in Consumers : /\ c \in Threads /\ c # Main /\ c \notin Producers
                          /\ Places(c) = {"get", "getTest", "getWait", "exit"}
  /\ \A t \in Threads : t \in Producers \/ t \in Consumers \/ t = Main
BY ThreadsDiffer DEF Threads, Places

(* The invariant holds at the start,                                       *)
LEMMA InitInv == Init => IInv
<1> SUFFICES ASSUME Init PROVE IInv
  OBVIOUS
<1>1. EmptyList(Message) \in Lists(Message) /\ Linked(EmptyList(Message), <<>>)
  BY EmptyLinked
<1>2. TypeOK
  <2>1. pc \in [Threads -> Labels] /\ got \in [Consumers -> Message \cup {Nil}]
    BY DEF Init, Labels
  <2>2. mesCount \in 0 .. Limit /\ sent \in [Producers -> 0 .. Rounds]
    BY SizesPositive DEF Init
  <2>3. list \in Lists(Message) /\ buffer \in Seq(Message)
    BY <1>1 DEF Init
  <2> QED BY <2>1, <2>2, <2>3 DEF Init, TypeOK
<1>3. ListFaithful
  BY <1>1 DEF Init, ListFaithful
<1>4. Placed /\ Holder /\ Asleep /\ Dropped /\ Joined
  <2>1. \A t \in Threads : pc[t] = IF t \in Producers THEN "put"
                                   ELSE IF t \in Consumers THEN "get" ELSE "check"
    BY DEF Init
  <2>2. pc[Main] = "check"
    BY <2>1, PlaceFacts
  <2>3. Placed
    BY <2>1 DEF Placed, Places
  <2>4. Holder
    BY <2>1, PlaceFacts DEF Init, Holder, Inside
  <2> QED BY <2>2, <2>3, <2>4 DEF Init, Asleep, Dropped, Joined
<1>5. Unsent /\ Fresh /\ WaitersJustified
  BY SizesPositive DEF Init, Unsent, Fresh, WaitersJustified
<1> QED BY <1>2, <1>3, <1>4, <1>5 DEF IInv

(* Taking the mutex: nothing of the queue changes.                         *)
LEMMA LockInv ==
  ASSUME IInv, NEW t \in Threads, NEW from, NEW to, Lock(t, from, to),
         t \notin waiting, from # "exit", from \notin Inside, to \in Inside,
         to \in Places(t), to \in Labels,
         t = Main => \/ from = "drop" /\ to = "dropIn"
                     \/ from = "destroy" /\ to = "destroyIn"
  PROVE  IInv'
<1> USE DEF Lock, queueVars, Goto
<1>1. TypeOK'
  BY DEF IInv, TypeOK
<1>2. pc' = [pc EXCEPT ![t] = to] /\ pc \in [Threads -> Labels] /\ pc[t] = from
  BY DEF IInv, TypeOK
<1>3. Placed'
  BY <1>2 DEF IInv, Placed, Places
<1>4. Holder'
  BY <1>2, PlaceFacts DEF IInv, Holder
<1>5. Asleep'
  BY <1>2, PlaceFacts DEF IInv, Asleep, TypeOK, Threads
<1>6. Unsent'
  BY <1>2, PlaceFacts DEF IInv, Unsent
<1>7. Dropped' /\ Joined'
  BY <1>2, PlaceFacts DEF IInv, Dropped, Joined, Inside
<1>8. Fresh' /\ ListFaithful' /\ WaitersJustified'
  BY DEF IInv, Fresh, ListFaithful, WaitersJustified
<1> QED BY <1>1, <1>3, <1>4, <1>5, <1>6, <1>7, <1>8 DEF IInv

(* Sleeping on the condition variable for a reason that holds.             *)
LEMMA BlockInv ==
  ASSUME IInv, NEW t \in Producers \cup Consumers, NEW label, Block(t, label),
         mutex = t, ~isDroped,
         \/ t \in Producers /\ mesCount = Limit /\ label = "putWait"
         \/ t \in Consumers /\ mesCount = 0 /\ label = "getWait",
         pc[t] # "exit"
  PROVE  IInv'
<1> USE DEF Block, queueVars, Goto
<1>1. TypeOK'
  BY DEF IInv, TypeOK, Labels
<1>2. pc' = [pc EXCEPT ![t] = label] /\ pc \in [Threads -> Labels] /\ t \in Threads
  BY PlaceFacts DEF IInv, TypeOK
<1>3. Placed'
  BY <1>2, PlaceFacts DEF IInv, Placed, Places
<1>4. Holder'
  BY <1>2, PlaceFacts DEF IInv, Holder, Inside
<1>5. Asleep'
  BY <1>2, PlaceFacts DEF IInv, Asleep, TypeOK, Threads
<1>6. Unsent'
  BY <1>2, PlaceFacts DEF IInv, Unsent
<1>7. Dropped' /\ Joined'
  BY <1>2, PlaceFacts DEF IInv, Dropped, Joined
<1>8. Fresh' /\ ListFaithful'
  BY DEF IInv, Fresh, ListFaithful
<1>9. WaitersJustified'
  BY PlaceFacts DEF IInv, WaitersJustified
<1> QED BY <1>1, <1>3, <1>4, <1>5, <1>6, <1>7, <1>8, <1>9 DEF IInv

(* Leaving a dropped queue.                                                *)
LEMMA RefuseInv ==
  ASSUME IInv, NEW t \in Producers \cup Consumers, NEW from, Refuse(t, from),
         mutex = t
  PROVE  IInv'
<1> USE DEF Refuse, queueVars, Goto
<1>1. TypeOK'
  BY DEF IInv, TypeOK, Labels
<1>2. pc' = [pc EXCEPT ![t] = "exit"] /\ pc \in [Threads -> Labels] /\ t \in Threads
  BY PlaceFacts DEF IInv, TypeOK
<1>3. Placed'
  BY <1>2, PlaceFacts DEF IInv, Placed, Places
<1>4. Holder'
  BY <1>2, PlaceFacts DEF IInv, Holder, Inside
<1>5. Asleep'
  BY <1>2 DEF IInv, WaitersJustified, Asleep
<1>6. Unsent'
  BY <1>2, PlaceFacts DEF IInv, Unsent
<1>7. Dropped' /\ Joined'
  BY <1>2, PlaceFacts DEF IInv, Dropped, Joined
<1>8. Fresh' /\ ListFaithful' /\ WaitersJustified'
  BY DEF IInv, Fresh, ListFaithful, WaitersJustified
<1> QED BY <1>1, <1>3, <1>4, <1>5, <1>6, <1>7, <1>8 DEF IInv

(* A put: the message is new because its producer has not sent it yet.     *)
LEMMA StoreInv ==
  ASSUME IInv, NEW p \in Producers, PutStore(p)
  PROVE  IInv'
<1> DEFINE m == <<p, sent[p] + 1>>
<1>1. /\ pc[p] = "putTest" /\ mesCount < Limit /\ ~isDroped
      /\ list' = PushHead(list, m)
      /\ buffer' = Append(buffer, m)
      /\ waiting' = IF mesCount = 0 THEN {} ELSE waiting
      /\ mesCount' = mesCount + 1
      /\ sent' = [sent EXCEPT ![p] = @ + 1]
      /\ mutex' = Nil
      /\ pc' = [pc EXCEPT ![p] = IF sent[p] + 1 = Rounds THEN "exit" ELSE "put"]
      /\ UNCHANGED <<isDroped, got, pleaseQuit, freed>>
  BY DEF PutStore, Store, Goto, BroadcastIf
<1>2. /\ p \in Threads /\ sent \in [Producers -> 0 .. Rounds]
      /\ sent[p] < Rounds /\ sent[p] \in Nat /\ Rounds \in Nat /\ Limit \in Nat
      /\ pc \in [Threads -> Labels]
      /\ buffer \in Seq(Message) /\ list \in Lists(Message)
      /\ mesCount = Len(buffer) /\ mesCount \in Nat
      /\ Linked(list, buffer)
  BY <1>1, PlaceFacts, SizesPositive DEF IInv, Unsent, TypeOK, ListFaithful
<1>3. m \in Message /\ m[1] = p /\ m[2] = sent[p] + 1
  BY <1>2 DEF Message
<1>4. \A i \in 1 .. Len(buffer) : /\ buffer[i] \in Message
                                  /\ buffer[i][1] \in Producers
                                  /\ buffer[i][2] \in Nat
                                  /\ buffer[i][2] <= sent[buffer[i][1]]
  <2>1. \A i \in 1 .. Len(buffer) : buffer[i] \in Message
    BY <1>2
  <2>2. \A x \in Message : x[1] \in Producers /\ x[2] \in Nat
    BY DEF Message
  <2> QED BY <2>1, <2>2 DEF IInv, Fresh
<1>5. \A i \in 1 .. Len(buffer) : buffer[i] # m
  BY <1>2, <1>3, <1>4
<1>6. PushHead(list, m) \in Lists(Message)
      /\ Linked(PushHead(list, m), Append(buffer, m))
  BY <1>2, <1>3, <1>5, PushLinked, PlaceFacts
<1>7. /\ Append(buffer, m) \in Seq(Message)
      /\ Len(Append(buffer, m)) = mesCount + 1
      /\ Append(buffer, m)[mesCount + 1] = m
      /\ \A i \in 1 .. mesCount : Append(buffer, m)[i] = buffer[i]
  BY <1>2, <1>3
<1>8. ListFaithful'
  BY <1>1, <1>6, <1>7 DEF ListFaithful
<1> HIDE DEF m
<1>9. TypeOK'
  <2>1. mesCount' \in 0 .. Limit /\ sent' \in [Producers -> 0 .. Rounds]
    BY <1>1, <1>2
  <2>2. list' \in Lists(Message) /\ buffer' \in Seq(Message)
    BY <1>1, <1>6, <1>7
  <2> QED BY <1>1, <2>1, <2>2 DEF IInv, TypeOK, Labels
<1>10. Fresh'
  <2> SUFFICES ASSUME NEW i \in 1 .. mesCount + 1
               PROVE  buffer'[i][2] <= sent'[buffer'[i][1]]
    BY <1>1, <1>7 DEF Fresh
  <2>1. CASE i = mesCount + 1
    BY <2>1, <1>1, <1>2, <1>3, <1>7
  <2>2. CASE i # mesCount + 1
    <3>1. i \in 1 .. mesCount /\ buffer'[i] = buffer[i]
      BY <2>2, <1>1, <1>2, <1>7
    <3>2. \A q \in Producers : sent[q] \in Nat /\ sent'[q] \in Nat /\ sent[q] <= sent'[q]
      BY <1>1, <1>2
    <3> QED BY <3>1, <3>2, <1>2, <1>4
  <2> QED BY <2>1, <2>2
<1>11. Placed'
  BY <1>1, <1>2, PlaceFacts DEF IInv, Placed, Places
<1>12. Holder'
  BY <1>1, <1>2, PlaceFacts DEF IInv, Holder, Inside
<1>13. Asleep'
  BY <1>1, <1>2, PlaceFacts DEF IInv, Asleep, TypeOK, Threads
<1>14. Unsent'
  BY <1>1, <1>2, PlaceFacts DEF IInv, Unsent, TypeOK
<1>15. Dropped' /\ Joined'
  BY <1>1, <1>2, PlaceFacts DEF IInv, Dropped, Joined
<1>16. WaitersJustified'
  BY <1>1, <1>2 DEF IInv, WaitersJustified
<1> QED BY <1>8, <1>9, <1>10, <1>11, <1>12, <1>13, <1>14, <1>15, <1>16 DEF IInv

(* A get: the tail of the list is the oldest message.                      *)
LEMMA TakeInv ==
  ASSUME IInv, NEW c \in Consumers, GetTake(c)
  PROVE  IInv' /\ buffer # <<>> /\ list.tail = Head(buffer)
<1>1. /\ pc[c] = "getTest" /\ mesCount # 0 /\ ~isDroped
      /\ got' = [got EXCEPT ![c] = list.tail]
      /\ list' = PopTail(list)
      /\ buffer' = Tail(buffer)
      /\ waiting' = IF mesCount = Limit THEN {} ELSE waiting
      /\ mesCount' = mesCount - 1
      /\ mutex' = Nil
      /\ pc' = [pc EXCEPT ![c] = "get"]
      /\ UNCHANGED <<isDroped, sent, pleaseQuit, freed>>
  BY DEF GetTake, Take, Goto, BroadcastIf
<1>2. /\ c \in Threads
      /\ pc \in [Threads -> Labels]
      /\ buffer \in Seq(Message) /\ list \in Lists(Message)
      /\ mesCount = Len(buffer) /\ mesCount \in 1 .. Limit /\ Limit \in Nat
      /\ Linked(list, buffer)
  BY <1>1, PlaceFacts, SizesPositive DEF IInv, TypeOK, ListFaithful
<1>3. buffer # <<>>
  BY <1>2
<1>4. /\ list.tail = Head(buffer)
      /\ PopTail(list) \in Lists(Message)
      /\ Linked(PopTail(list), Tail(buffer))
  BY <1>2, <1>3, PopLinked, PlaceFacts
<1>5. /\ Tail(buffer) \in Seq(Message)
      /\ Len(Tail(buffer)) = mesCount - 1
      /\ \A i \in 1 .. mesCount - 1 : Tail(buffer)[i] = buffer[i + 1]
      /\ Head(buffer) \in Message
  BY <1>2, <1>3
<1>6. ListFaithful'
  BY <1>1, <1>4, <1>5 DEF ListFaithful
<1>7. TypeOK'
  <2>1. mesCount' \in 0 .. Limit
    BY <1>1, <1>2
  <2>2. got' \in [Consumers -> Message \cup {Nil}]
    BY <1>1, <1>4, <1>5 DEF IInv, TypeOK
  <2>3. list' \in Lists(Message) /\ buffer' \in Seq(Message)
    BY <1>1, <1>4, <1>5
  <2> QED BY <1>1, <2>1, <2>2, <2>3 DEF IInv, TypeOK, Labels
<1>8. Fresh'
  <2> SUFFICES ASSUME NEW i \in 1 .. mesCount - 1
               PROVE  buffer'[i][2] <= sent'[buffer'[i][1]]
    BY <1>1, <1>5 DEF Fresh
  <2>1. i + 1 \in 1 .. Len(buffer) /\ buffer'[i] = buffer[i + 1]
    BY <1>1, <1>2, <1>5
  <2> QED BY <2>1, <1>1 DEF IInv, Fresh
<1>9. Placed'
  BY <1>1, <1>2, PlaceFacts DEF IInv, Placed, Places
<1>10. Holder'
  BY <1>1, <1>2, PlaceFacts DEF IInv, Holder, Inside
<1>11. Asleep'
  BY <1>1, <1>2, PlaceFacts DEF IInv, Asleep, TypeOK, Threads
<1>12. Unsent'
  BY <1>1, <1>2, PlaceFacts DEF IInv, Unsent
<1>13. Dropped' /\ Joined'
  BY <1>1, <1>2, PlaceFacts DEF IInv, Dropped, Joined
<1>14. WaitersJustified'
  BY <1>1, <1>2 DEF IInv, WaitersJustified
<1> QED BY <1>3, <1>4, <1>6, <1>7, <1>8, <1>9, <1>10, <1>11, <1>12, <1>13, <1>14
        DEF IInv

(* Main's own steps and the signals.                                       *)
LEMMA MainInv ==
  ASSUME IInv, MainCheck \/ MainPause \/ MainDrop \/ MainJoin \/ MainDestroy \/ Sigint
  PROVE  IInv'
<1>0. Main \in Threads /\ pc \in [Threads -> Labels]
  BY PlaceFacts DEF IInv, TypeOK
<1>1. CASE MainCheck \/ MainPause \/ Sigint
  <2>1. \E to \in {"check", "toPause", "pause", "drop"} :
           /\ pc[Main] \in {"check", "toPause", "pause"}
           /\ pc' = [pc EXCEPT ![Main] = to]
           /\ pleaseQuit' \in BOOLEAN
           /\ UNCHANGED <<mutex, waiting, queueVars>>
    BY <1>0, <1>1 DEF MainCheck, MainPause, Sigint, Goto, IInv, TypeOK
  <2>2. TypeOK'
    BY <2>1 DEF IInv, TypeOK, Labels, queueVars
  <2>3. Fresh' /\ ListFaithful' /\ WaitersJustified'
    BY <2>1 DEF IInv, Fresh, ListFaithful, WaitersJustified, queueVars
  <2>4. Placed' /\ Holder' /\ Unsent' /\ Dropped' /\ Joined'
    BY <1>0, <2>1, PlaceFacts
       DEF IInv, Placed, Places, Holder, Inside, Unsent, Dropped, Joined, queueVars
  <2>5. Asleep'
    BY <1>0, <2>1, PlaceFacts DEF IInv, Asleep, TypeOK, Threads
  <2> QED BY <2>2, <2>3, <2>4, <2>5 DEF IInv
<1>2. CASE MainDrop
  <2> USE DEF MainDrop, Goto
  <2>1. TypeOK'
    BY <1>2 DEF IInv, TypeOK, Labels
  <2>2. Placed' /\ Holder' /\ Unsent'
    BY <1>0, <1>2, PlaceFacts DEF IInv, Placed, Places, Holder, Inside, Unsent
  <2>3. Asleep' /\ Dropped' /\ Joined' /\ WaitersJustified'
    BY <1>0, <1>2 DEF IInv, Asleep, Dropped, Joined, WaitersJustified
  <2>4. Fresh' /\ ListFaithful'
    BY <1>2 DEF IInv, Fresh, ListFaithful
  <2> QED BY <2>1, <2>2, <2>3, <2>4 DEF IInv
<1>3. CASE MainJoin
  <2> USE DEF MainJoin, Goto, queueVars
  <2>1. TypeOK'
    BY <1>3 DEF IInv, TypeOK, Labels
  <2>2. Placed' /\ Holder' /\ Unsent'
    BY <1>0, <1>3, PlaceFacts DEF IInv, Placed, Places, Holder, Inside, Unsent
  <2>3. Dropped' /\ Joined'
    BY <1>0, <1>3 DEF IInv, Dropped, Joined
  <2>4. Asleep'
    BY <1>0, <1>3, PlaceFacts DEF IInv, Asleep, TypeOK, Threads
  <2>5. Fresh' /\ ListFaithful' /\ WaitersJustified'
    BY <1>3 DEF IInv, Fresh, ListFaithful, WaitersJustified
  <2> QED BY <2>1, <2>2, <2>3, <2>4, <2>5 DEF IInv
<1>4. CASE MainDestroy
  <2> USE DEF MainDestroy, Goto
  <2>1. Walked(list) \subseteq Message
    <3>1. DOMAIN list.next = Message
      BY DEF IInv, TypeOK, Lists
    <3> QED BY <3>1 DEF Walked
  <2>2. TypeOK'
    BY <1>4, <2>1 DEF IInv, TypeOK, Labels
  <2>3. Placed' /\ Holder' /\ Unsent'
    BY <1>0, <1>4, PlaceFacts DEF IInv, Placed, Places, Holder, Inside, Unsent
  <2>4. Dropped' /\ Joined'
    BY <1>0, <1>4 DEF IInv, Dropped, Joined
  <2>5. Asleep'
    BY <1>0, <1>4, PlaceFacts DEF IInv, Asleep, TypeOK, Threads
  <2>6. Fresh' /\ ListFaithful' /\ WaitersJustified'
    BY <1>4 DEF IInv, Fresh, ListFaithful, WaitersJustified
  <2> QED BY <2>2, <2>3, <2>4, <2>5, <2>6 DEF IInv
<1> QED BY <1>1, <1>2, <1>3, <1>4

(* is kept by every step,                                                  *)
LEMMA NextInv == IInv /\ [Next]_vars => IInv'
<1> SUFFICES ASSUME IInv, [Next]_vars PROVE IInv'
  OBVIOUS
<1>0. /\ \A t \in waiting : pc[t] \in {"putWait", "getWait"}
      /\ \A t \in Threads : mutex = t <=> pc[t] \in Inside
  BY DEF IInv, Asleep, Holder
<1>1. ASSUME NEW p \in Producers, Producer(p) PROVE IInv'
  <2>1. CASE Lock(p, "put", "putTest")
    BY <2>1, <1>0, LockInv, PlaceFacts DEF Lock, Inside, Labels
  <2>2. CASE PutWait(p)
    <3>1. mesCount = Limit /\ mutex = p
      BY <2>2, <1>0, SizesPositive, PlaceFacts DEF PutWait, IInv, TypeOK, Inside
    <3> QED BY <2>2, <3>1, BlockInv DEF PutWait
  <2>3. CASE Relock(p, "putWait", "putTest")
    BY <2>3, LockInv, PlaceFacts DEF Relock, Inside, Labels
  <2>4. CASE Refuse(p, "putTest")
    BY <2>4, <1>0, RefuseInv, PlaceFacts DEF Refuse, Inside
  <2>5. CASE PutStore(p)
    BY <2>5, StoreInv
  <2> QED BY <1>1, <2>1, <2>2, <2>3, <2>4, <2>5 DEF Producer
<1>2. ASSUME NEW c \in Consumers, Consumer(c) PROVE IInv'
  <2>1. CASE Lock(c, "get", "getTest")
    BY <2>1, <1>0, LockInv, PlaceFacts DEF Lock, Inside, Labels
  <2>2. CASE GetWait(c)
    <3>1. mutex = c
      BY <2>2, <1>0, PlaceFacts DEF GetWait, Inside
    <3> QED BY <2>2, <3>1, BlockInv DEF GetWait
  <2>3. CASE Relock(c, "getWait", "getTest")
    BY <2>3, LockInv, PlaceFacts DEF Relock, Inside, Labels
  <2>4. CASE Refuse(c, "getTest")
    BY <2>4, <1>0, RefuseInv, PlaceFacts DEF Refuse, Inside
  <2>5. CASE GetTake(c)
    BY <2>5, TakeInv
  <2> QED BY <1>2, <2>1, <2>2, <2>3, <2>4, <2>5 DEF Consumer
<1>3. CASE MainThread
  <2>1. CASE Lock(Main, "drop", "dropIn")
    BY <2>1, <1>0, LockInv, PlaceFacts DEF Lock, Inside, Labels
  <2>2. CASE Lock(Main, "destroy", "destroyIn")
    BY <2>2, <1>0, LockInv, PlaceFacts DEF Lock, Inside, Labels
  <2> QED BY <1>3, <2>1, <2>2, MainInv DEF MainThread
<1>4. CASE Sigint
  BY <1>4, MainInv
<1>5. ASSUME NEW t \in Threads, SpuriousWakeup(t) PROVE IInv'
  <2> USE <1>5 DEF SpuriousWakeup, queueVars
  <2>1. TypeOK' /\ Placed' /\ Holder' /\ Asleep' /\ Unsent'
    BY DEF IInv, TypeOK, Placed, Holder, Asleep, Unsent
  <2>2. Fresh' /\ Dropped' /\ Joined' /\ ListFaithful' /\ WaitersJustified'
    BY DEF IInv, Fresh, Dropped, Joined, ListFaithful, WaitersJustified
  <2> QED BY <2>1, <2>2 DEF IInv
<1>6. CASE UNCHANGED vars
  <2> USE <1>6 DEF vars
  <2>1. TypeOK' /\ Placed' /\ Holder' /\ Asleep' /\ Unsent'
    BY DEF IInv, TypeOK, Placed, Holder, Asleep, Unsent
  <2>2. Fresh' /\ Dropped' /\ Joined' /\ ListFaithful' /\ WaitersJustified'
    BY DEF IInv, Fresh, Dropped, Joined, ListFaithful, WaitersJustified
  <2> QED BY <2>1, <2>2 DEF IInv
<1> QED BY <1>1, <1>2, <1>3, <1>4, <1>5, <1>6 DEF Next, Terminated

(* and so holds always.                                                    *)
LEMMA Invariance == Spec => []IInv
BY InitInv, NextInv, PTL DEF Spec

(* The types hold for every number of threads, limit and number of         *)
(* messages; mesCount never leaves 0 .. Limit.                             *)
THEOREM TypeCorrect == Spec => []TypeOK
<1>1. IInv => TypeOK
  BY DEF IInv
<1> QED BY <1>1, Invariance, PTL

(* The pointer code of mymsgput and mymsgget keeps the FIFO it stands for, *)
(* under every interleaving of any number of threads.                      *)
THEOREM ListCorrect == Spec => []ListFaithful
<1>1. IInv => ListFaithful
  BY DEF IInv
<1> QED BY <1>1, Invariance, PTL

(* One condition variable, broadcast at the edges only, loses no wakeup.   *)
THEOREM NoLostWakeup == Spec => []WaitersJustified
<1>1. IInv => WaitersJustified
  BY DEF IInv
<1> QED BY <1>1, Invariance, PTL

(* So producers and consumers never sleep at the same time, whatever       *)
(* spurious wakeups come: no set of threads waits for each other.          *)
THEOREM NeverBothAsleep ==
  Spec => [](waiting \cap Producers = {} \/ waiting \cap Consumers = {})
<1>1. IInv => waiting \cap Producers = {} \/ waiting \cap Consumers = {}
  BY SizesPositive DEF IInv, WaitersJustified
<1> QED BY <1>1, Invariance, PTL

(* What main freed is what was stored, and nothing moves after it.         *)
LEMMA DestroyInv == IInv /\ DestroyExact /\ [Next]_vars => DestroyExact'
<1> SUFFICES ASSUME IInv, DestroyExact, [Next]_vars, pc'[Main] = "done"
             PROVE  /\ \A t \in Threads \ {Main} : pc'[t] = "exit"
                    /\ freed' = {buffer'[i] : i \in DOMAIN buffer'}
  BY DEF DestroyExact
<1>0. Main \in Threads /\ pc \in [Threads -> Labels]
  BY PlaceFacts DEF IInv, TypeOK
<1>1. CASE pc[Main] = "done"
  <2>1. \A t \in Producers \cup Consumers : pc[t] = "exit"
    BY <1>1, PlaceFacts DEF DestroyExact
  <2>2. UNCHANGED <<pc, freed, buffer>>
    <3>1. ASSUME NEW p \in Producers PROVE ~Producer(p)
      BY <2>1 DEF Producer, Lock, PutWait, Relock, Refuse, PutStore
    <3>2. ASSUME NEW c \in Consumers PROVE ~Consumer(c)
      BY <2>1 DEF Consumer, Lock, GetWait, Relock, Refuse, GetTake, Take
    <3>3. ~MainThread /\ ~Sigint
      BY <1>1 DEF MainThread, MainCheck, MainPause, Lock, MainDrop, MainJoin,
                  MainDestroy, Sigint
    <3> QED BY <3>1, <3>2, <3>3 DEF Next, SpuriousWakeup, Terminated, vars, queueVars
  <2> QED BY <1>1, <2>2 DEF DestroyExact
<1>2. CASE pc[Main] # "done"
  <2>1. MainDestroy
    <3>1. ASSUME NEW p \in Producers, Producer(p) PROVE pc'[Main] = pc[Main]
      BY <1>0, <3>1, PlaceFacts
         DEF Producer, Lock, PutWait, Block, Relock, Refuse, PutStore, Store, Goto
    <3>2. ASSUME NEW c \in Consumers, Consumer(c) PROVE pc'[Main] = pc[Main]
      BY <1>0, <3>2, PlaceFacts
         DEF Consumer, Lock, GetWait, Block, Relock, Refuse, GetTake, Take, Goto
    <3>3. CASE MainThread
      BY <1>0, <3>3 DEF MainThread, MainCheck, MainPause, Lock, MainDrop, MainJoin, Goto
    <3>4. CASE Sigint \/ (\E t \in Threads : SpuriousWakeup(t)) \/ UNCHANGED vars
      BY <1>0, <1>2, <3>4 DEF Sigint, SpuriousWakeup, Goto, vars
    <3> QED BY <1>2, <3>1, <3>2, <3>3, <3>4 DEF Next, Terminated
  <2>2. /\ pc[Main] = "destroyIn" /\ pc' = [pc EXCEPT ![Main] = "done"]
        /\ freed' = Walked(list) /\ buffer' = buffer
    BY <2>1 DEF MainDestroy, Goto
  <2>3. \A t \in Threads \ {Main} : pc'[t] = "exit"
    BY <1>0, <2>2 DEF IInv, Joined
  <2>4. Walked(list) = {buffer[i] : i \in 1 .. Len(buffer)}
    BY WalkedLinked, PlaceFacts DEF IInv, TypeOK, ListFaithful
  <2>5. DOMAIN buffer = 1 .. Len(buffer)
    BY DEF IInv, TypeOK
  <2> QED BY <2>2, <2>3, <2>4, <2>5
<1> QED BY <1>1, <1>2

(* mymsgdestroy frees every message nobody got and no other node, and no   *)
(* other thread can touch the queue any more.                              *)
THEOREM DestroyCorrect == Spec => []DestroyExact
<1>1. Init => DestroyExact
  BY PlaceFacts DEF Init, DestroyExact
<1> QED BY <1>1, Invariance, DestroyInv, PTL DEF Spec

(* Each step of the code is a step of the bounded FIFO or changes nothing  *)
(* of it: puts and gets are atomic, in order, bounded, and end with drop.  *)
THEOREM Refinement == Spec => ImplementsFifo
<1>1. Init => Fifo!Init
  BY DEF Init, Fifo!Init
<1>2. IInv /\ [Next]_vars => [Fifo!Next]_(Fifo!fifoVars)
  <2> SUFFICES ASSUME IInv, [Next]_vars PROVE [Fifo!Next]_(Fifo!fifoVars)
    OBVIOUS
  <2> USE DEF Fifo!fifoVars, queueVars
  <2>1. ASSUME NEW p \in Producers, Producer(p) PROVE [Fifo!Next]_(Fifo!fifoVars)
    <3>1. CASE PutStore(p)
      <4>1. <<p, sent[p] + 1>> \in Message
        <5>1. pc[p] # "exit" /\ p \in Producers
          BY <3>1 DEF PutStore
        <5>2. sent[p] \in 0 .. Rounds /\ sent[p] < Rounds
          BY <5>1 DEF IInv, Unsent, TypeOK
        <5>3. sent[p] + 1 \in 1 .. Rounds
          BY <5>2, SizesPositive
        <5> QED BY <5>3 DEF Message
      <4>2. Fifo!Put(<<p, sent[p] + 1>>)
        BY <3>1 DEF PutStore, Store, IInv, ListFaithful, Fifo!Put
      <4> QED BY <4>1, <4>2 DEF Fifo!Next
    <3>2. CASE ~PutStore(p)
      BY <2>1, <3>2 DEF Producer, Lock, PutWait, Block, Relock, Refuse
    <3> QED BY <3>1, <3>2
  <2>2. ASSUME NEW c \in Consumers, Consumer(c) PROVE [Fifo!Next]_(Fifo!fifoVars)
    <3>1. CASE GetTake(c)
      <4>1. buffer # <<>> /\ list.tail = Head(buffer)
        BY <3>1, TakeInv
      <4>2. Fifo!Get(c)
        BY <3>1, <4>1 DEF GetTake, Take, Fifo!Get
      <4> QED BY <4>2 DEF Fifo!Next
    <3>2. CASE ~GetTake(c)
      BY <2>2, <3>2 DEF Consumer, Lock, GetWait, Block, Relock, Refuse
    <3> QED BY <3>1, <3>2
  <2>3. CASE MainThread
    <3>1. CASE MainDrop
      <4>1. ~isDroped
        BY <3>1 DEF MainDrop, IInv, Dropped
      <4>2. Fifo!Close
        BY <3>1, <4>1 DEF MainDrop, Fifo!Close
      <4> QED BY <4>2 DEF Fifo!Next
    <3>2. CASE ~MainDrop
      BY <2>3, <3>2
         DEF MainThread, MainCheck, MainPause, Lock, MainJoin, MainDestroy
    <3> QED BY <3>1, <3>2
  <2>4. CASE Sigint \/ (\E t \in Threads : SpuriousWakeup(t)) \/ UNCHANGED vars
    BY <2>4 DEF Sigint, SpuriousWakeup, vars
  <2> QED BY <2>1, <2>2, <2>3, <2>4 DEF Next, Terminated
<1> QED BY <1>1, <1>2, Invariance, PTL DEF Spec, ImplementsFifo, Fifo!Spec
=============================================================================
