------------------------ MODULE MCMessageQueueProofs ------------------------
(***************************************************************************)
(* The two builds of Lab23-24, for any finite sets of producers and        *)
(* consumers, any set of cells and any limits.                             *)
(*                                                                         *)
(* On the condition variable every cell has one owner, although drop       *)
(* raises is_destroyed and frees the list while threads are inside, and    *)
(* the queue implements the bounded FIFO until then.  OneOwner is not      *)
(* inductive.  That a put finds room and a get a message needs the test    *)
(* before it to hold still (Room), and so that nobody else is in a         *)
(* critical section (Holder); that nothing is linked to the freed list     *)
(* needs is_destroyed to tell where main is (Dropped); and that the mutex  *)
(* is free when main destroys it needs the joins (Joined).                 *)
(*                                                                         *)
(* On semaphores it is shown what drop can break and when it cannot, and   *)
(* that the queue implements the bounded FIFO.  The semaphores alone say   *)
(* that a put finds room and a get a message.  The two tokens of the drop  *)
(* could spoil that: they do not, because a thread that got through its    *)
(* test did so before the flag rose, when no such token was there          *)
(* (SemRoom), and every thread inside from then on was caught (CaughtAll). *)
(* Once the list is freed either it was empty, and is an empty list still, *)
(* or its ends are free cells, and the first look at them ends what the    *)
(* model claims (Cell).                                                    *)
(*                                                                         *)
(* The last part carries both over to the harness that chooses a build.    *)
(***************************************************************************)
EXTENDS MCMessageQueue, MessageListProofs

(* What the module's assumptions say of this build.                        *)
Fits ==
  /\ Producers \cap Consumers = {}
  /\ Main \notin Producers \cup Consumers
  /\ Nil \notin Threads \cup Cells
  /\ messages_limit \in Nat \ {0}

Inside == {"putTest", "putBlock", "putIn", "getTest", "getBlock", "getIn",
           "dropFree"}

Places(t) ==
  IF t \in Producers THEN {"put", "putTest", "putBlock", "putWait", "putIn", "exit"}
  ELSE IF t \in Consumers
  THEN {"get", "getTest", "getBlock", "getWait", "getIn", "getFree", "exit"}
  ELSE {"run", "dropWake", "dropLock", "dropFree", "join", "destroy", "done"}

Placed == \A t \in Threads : pc[t] \in Places(t)
Holder == \A t \in Threads : mutex = t <=> pc[t] \in Inside
Asleep == \A t \in waiting : pc[t] \in {"putWait", "getWait"}
Dropped == is_destroyed <=> pc[Main] # "run"
Joined == pc[Main] \in {"destroy", "done"} =>
            \A t \in Threads \ {Main} : pc[t] = "exit"
Room == /\ \A p \in Producers : pc[p] = "putIn" =>
                                  is_destroyed \/ messages_count < messages_limit
        /\ \A c \in Consumers : pc[c] = "getIn" => is_destroyed \/ messages_count # 0

(* OneOwner, by its parts.                                                 *)
Stored == {buffer[i] : i \in DOMAIN buffer}
Taken == {message[c] : c \in Taking}
Freed == pc[Main] \in {"join", "destroy", "done"}
Single == \A c, d \in Taking : message[c] = message[d] => c = d
Owned == IF Freed THEN live = Taken
         ELSE /\ live = Stored \cup Taken
              /\ Stored \cap Taken = {}
              /\ Linked(list, buffer)
              /\ messages_count = Len(buffer)

IInv == /\ TypeOK
        /\ Placed
        /\ Holder
        /\ Asleep
        /\ Dropped
        /\ Joined
        /\ Room
        /\ Single
        /\ Owned
-----------------------------------------------------------------------------
(* The threads are told apart by their places.                             *)
LEMMA PlaceFacts ==
  ASSUME Fits
  PROVE  /\ Main \in Threads /\ Nil \notin Threads /\ Nil \notin Cells
         /\ messages_limit \in Nat /\ messages_limit > 0
         /\ Places(Main) = {"run", "dropWake", "dropLock", "dropFree", "join",
                            "destroy", "done"}
         /\ \A p \in Producers :
              /\ p \in Threads /\ p # Main /\ p \notin Consumers
              /\ Places(p) = {"put", "putTest", "putBlock", "putWait", "putIn",
                              "exit"}
         /\ \A c \in Consumers :
              /\ c \in Threads /\ c # Main /\ c \notin Producers
              /\ Places(c) = {"get", "getTest", "getBlock", "getWait", "getIn",
                              "getFree", "exit"}
         /\ \A t \in Threads : t \in Producers \/ t \in Consumers \/ t = Main
         /\ \A t \in Threads : Places(t) \subseteq Labels
BY DEF Fits, Threads, Places, Labels

(* The queue begins empty and open, with all threads outside.              *)
LEMMA InitInv ==
  ASSUME Fits, Init
  PROVE  IInv
<1>1. EmptyList(Cells) \in Lists(Cells) /\ Linked(EmptyList(Cells), <<>>)
  BY EmptyLinked
<1>2. /\ \A t \in Threads : pc[t] = IF t \in Producers THEN "put"
                                    ELSE IF t \in Consumers THEN "get" ELSE "run"
      /\ pc \in [Threads -> Labels]
  BY DEF Init, Labels
<1>3. pc[Main] = "run" /\ Taking = {}
  BY <1>2, PlaceFacts DEF Taking
<1>4. TypeOK
  <2>1. message \in [Consumers -> Cells \cup {Nil}] /\ messages_count \in 0 .. messages_limit
    BY PlaceFacts DEF Init
  <2>2. mutex \in Threads \cup {Nil} /\ list \in Lists(Cells) /\ buffer \in Seq(Cells)
    BY <1>1 DEF Init
  <2> QED BY <1>2, <2>1, <2>2 DEF Init, TypeOK
<1>5. Placed /\ Holder /\ Room
  BY <1>2, PlaceFacts DEF Init, Placed, Places, Holder, Inside, Room
<1>6. Asleep /\ Dropped /\ Joined
  BY <1>3 DEF Init, Asleep, Dropped, Joined
<1>7. Single /\ Owned
  <2>1. Stored = {} /\ Taken = {}
    BY <1>3 DEF Stored, Taken, Init
  <2> QED BY <1>1, <1>3, <2>1 DEF Init, Single, Owned, Freed
<1> QED BY <1>4, <1>5, <1>6, <1>7 DEF IInv

(* A thread that goes from one place to another and leaves the cells as    *)
(* they are: each part of the invariant that speaks of places follows from *)
(* the two places.                                                         *)
LEMMA QuietInv ==
  ASSUME Fits, IInv, NEW t \in Threads, NEW to \in Places(t),
         pc' = [pc EXCEPT ![t] = to], UNCHANGED queueVars,
         pc[t] # "getFree", to # "getFree",
         mutex' = (IF to \in Inside THEN t
                   ELSE IF pc[t] \in Inside THEN Nil ELSE mutex),
         to \in Inside /\ pc[t] \notin Inside => mutex = Nil,
         waiting' \subseteq waiting \cup {t},
         t \in waiting' => to \in {"putWait", "getWait"},
         is_destroyed' = (is_destroyed \/ t = Main),
         t = Main => /\ to # "run"
                     /\ pc[t] \in {"join", "destroy", "done"}
                          <=> to \in {"join", "destroy", "done"}
                     /\ to \in {"destroy", "done"} =>
                          \A x \in Threads \ {Main} : pc[x] = "exit",
         t # Main => pc[t] # "exit",
         to = "putIn" => is_destroyed \/ messages_count < messages_limit,
         to = "getIn" => is_destroyed \/ messages_count # 0
  PROVE  IInv'
<1> USE DEF queueVars
<1>1. /\ pc \in [Threads -> Labels] /\ pc' \in [Threads -> Labels]
      /\ pc'[t] = to /\ \A x \in Threads \ {t} : pc'[x] = pc[x]
      /\ t = Main => is_destroyed'
  BY PlaceFacts DEF IInv, TypeOK
<1>2. TypeOK'
  <2>1. t \in waiting' => t # Main
    BY PlaceFacts
  <2>2. waiting' \subseteq Producers \cup Consumers
    BY <2>1, PlaceFacts DEF IInv, TypeOK
  <2> QED BY <1>1, <2>2 DEF IInv, TypeOK
<1>3. Placed'
  BY <1>1 DEF IInv, Placed, Places
<1>4. Holder'
  BY <1>1, PlaceFacts DEF IInv, Holder
<1>5. Asleep'
  <2>1. waiting \subseteq Threads
    BY DEF IInv, TypeOK, Threads
  <2> QED BY <1>1, <2>1 DEF IInv, Asleep
<1>6. Dropped'
  BY <1>1, PlaceFacts DEF IInv, Dropped
<1>7. Joined'
  BY <1>1, PlaceFacts DEF IInv, Joined
<1>8. Room'
  BY <1>1, PlaceFacts DEF IInv, Room
<1>9. Taking' = Taking /\ (Freed' <=> Freed)
  BY <1>1, PlaceFacts DEF Taking, Freed
<1>10. Single' /\ Owned'
  BY <1>9 DEF IInv, Single, Owned, Stored, Taken
<1> QED BY <1>2, <1>3, <1>4, <1>5, <1>6, <1>7, <1>8, <1>10 DEF IInv

(* A put: the new node's cell is not allocated, so nobody owns it.         *)
LEMMA StoreInv ==
  ASSUME Fits, IInv, NEW p \in Producers, PutStore(p)
  PROVE  /\ IInv'
         /\ \E m \in Cells : buffer' = Append(buffer, m)
         /\ Len(buffer) < messages_limit
         /\ UNCHANGED <<message, is_destroyed>>
<1>1. PICK m \in Cells \ live :
        /\ pc[p] = "putIn" /\ ~is_destroyed
        /\ live' = live \cup {m}
        /\ list' = PushHead(list, m)
        /\ buffer' = Append(buffer, m)
        /\ messages_count' = messages_count + 1
        /\ mutex' = Nil
        /\ pc' = [pc EXCEPT ![p] = "put"]
        /\ waiting' \subseteq waiting
        /\ UNCHANGED <<is_destroyed, message>>
  BY DEF PutStore, Store, SignalIf, Unlock, Goto
<1>2. /\ p \in Threads /\ p # Main
      /\ pc \in [Threads -> Labels]
      /\ pc'[p] = "put" /\ \A x \in Threads \ {p} : pc'[x] = pc[x]
      /\ pc[Main] = "run" /\ ~Freed
      /\ mutex = p
  BY <1>1, PlaceFacts DEF IInv, TypeOK, Dropped, Freed, Holder, Inside
<1>3. /\ live = Stored \cup Taken /\ Stored \cap Taken = {}
      /\ Linked(list, buffer)
      /\ messages_count = Len(buffer) /\ messages_count \in Nat
      /\ messages_count < messages_limit
      /\ buffer \in Seq(Cells) /\ list \in Lists(Cells)
  BY <1>1, <1>2, PlaceFacts DEF IInv, TypeOK, Owned, Room
<1>4. \A i \in 1 .. Len(buffer) : buffer[i] # m
  BY <1>1, <1>3 DEF Stored
<1>5. PushHead(list, m) \in Lists(Cells)
      /\ Linked(PushHead(list, m), Append(buffer, m))
  BY <1>1, <1>3, <1>4, PushLinked, PlaceFacts
<1>6. /\ Append(buffer, m) \in Seq(Cells)
      /\ Len(Append(buffer, m)) = messages_count + 1
      /\ DOMAIN Append(buffer, m) = 1 .. messages_count + 1
      /\ DOMAIN buffer = 1 .. messages_count
      /\ Append(buffer, m)[messages_count + 1] = m
      /\ \A i \in 1 .. messages_count : Append(buffer, m)[i] = buffer[i]
  BY <1>3
<1>7. Stored' = Stored \cup {m}
  BY <1>1, <1>3, <1>6 DEF Stored
<1>8. Taking' = Taking /\ Taken' = Taken /\ ~Freed'
  BY <1>1, <1>2, PlaceFacts DEF Taking, Taken, Freed
<1>9. Owned' /\ Single'
  <2>1. Stored' \cap Taken' = {} /\ live' = Stored' \cup Taken'
    BY <1>1, <1>3, <1>7, <1>8
  <2>2. Linked(list', buffer') /\ messages_count' = Len(buffer')
    BY <1>1, <1>5, <1>6
  <2> QED BY <1>1, <1>8, <2>1, <2>2 DEF IInv, Owned, Single
<1>10. TypeOK'
  <2>1. messages_count' \in 0 .. messages_limit
    BY <1>1, <1>3, PlaceFacts
  <2>2. live' \subseteq Cells /\ list' \in Lists(Cells) /\ buffer' \in Seq(Cells)
    BY <1>1, <1>5, <1>6 DEF IInv, TypeOK
  <2> QED BY <1>1, <2>1, <2>2 DEF IInv, TypeOK, Labels
<1>11. Placed' /\ Holder'
  BY <1>1, <1>2, PlaceFacts DEF IInv, Placed, Places, Holder, Inside
<1>12. Asleep' /\ Dropped' /\ Joined'
  BY <1>1, <1>2, PlaceFacts DEF IInv, Asleep, Dropped, Joined, TypeOK, Threads
<1>13. Room'
  <2>1. \A x \in Threads : pc'[x] \notin {"putIn", "getIn"}
    BY <1>1, <1>2 DEF IInv, Holder, Inside
  <2> QED BY <2>1, PlaceFacts DEF Room
<1> QED BY <1>1, <1>3, <1>9, <1>10, <1>11, <1>12, <1>13 DEF IInv

(* A get: the cell goes from the list to the consumer.                     *)
LEMMA TakeInv ==
  ASSUME Fits, IInv, NEW c \in Consumers, GetTake(c)
  PROVE  /\ IInv'
         /\ buffer # <<>> /\ buffer' = Tail(buffer)
         /\ message' = [message EXCEPT ![c] = Head(buffer)]
         /\ UNCHANGED is_destroyed
<1>1. /\ pc[c] = "getIn" /\ ~is_destroyed
      /\ message' = [message EXCEPT ![c] = list.tail]
      /\ list' = PopTail(list)
      /\ buffer' = Tail(buffer)
      /\ messages_count' = messages_count - 1
      /\ mutex' = Nil
      /\ pc' = [pc EXCEPT ![c] = "getFree"]
      /\ waiting' \subseteq waiting
      /\ UNCHANGED <<is_destroyed, live>>
  BY DEF GetTake, SignalIf, Unlock, Goto
<1>2. /\ c \in Threads /\ c # Main
      /\ pc \in [Threads -> Labels]
      /\ pc'[c] = "getFree" /\ \A x \in Threads \ {c} : pc'[x] = pc[x]
      /\ pc[Main] = "run" /\ ~Freed
      /\ mutex = c
  BY <1>1, PlaceFacts DEF IInv, TypeOK, Dropped, Freed, Holder, Inside
<1>3. /\ live = Stored \cup Taken /\ Stored \cap Taken = {}
      /\ Linked(list, buffer)
      /\ messages_count = Len(buffer)
      /\ messages_count \in 1 .. messages_limit
      /\ buffer \in Seq(Cells) /\ list \in Lists(Cells)
      /\ message \in [Consumers -> Cells \cup {Nil}]
  BY <1>1, <1>2, PlaceFacts DEF IInv, TypeOK, Owned, Room
<1>4. buffer # <<>>
  BY <1>3
<1>5. /\ list.tail = Head(buffer)
      /\ PopTail(list) \in Lists(Cells)
      /\ Linked(PopTail(list), Tail(buffer))
  BY <1>3, <1>4, PopLinked, PlaceFacts
<1>6. /\ Tail(buffer) \in Seq(Cells)
      /\ Len(Tail(buffer)) = messages_count - 1
      /\ DOMAIN Tail(buffer) = 1 .. messages_count - 1
      /\ DOMAIN buffer = 1 .. messages_count
      /\ \A i \in 1 .. messages_count - 1 : Tail(buffer)[i] = buffer[i + 1]
      /\ Head(buffer) = buffer[1] /\ buffer[1] \in Cells
  BY <1>3, <1>4
<1>7. Stored = Stored' \cup {buffer[1]} /\ buffer[1] \notin Stored'
  <2>1. \A i, j \in 1 .. messages_count : buffer[i] = buffer[j] => i = j
    BY <1>3 DEF Linked, NoRepeat
  <2>2. Stored' = {buffer[i + 1] : i \in 1 .. messages_count - 1}
    BY <1>1, <1>6 DEF Stored
  <2>3. Stored = {buffer[i] : i \in 1 .. messages_count}
    BY <1>6 DEF Stored
  <2>4. \A i \in 1 .. messages_count : i = 1 \/ (i - 1 \in 1 .. messages_count - 1
                                                 /\ (i - 1) + 1 = i)
    BY <1>3
  <2>5. \A i \in 1 .. messages_count - 1 : i + 1 \in 1 .. messages_count /\ i + 1 # 1
    BY <1>3
  <2>6. 1 \in 1 .. messages_count
    BY <1>3
  <2>7. buffer[1] \notin Stored'
    BY <2>1, <2>2, <2>5, <2>6
  <2>8. Stored \subseteq Stored' \cup {buffer[1]}
    BY <2>2, <2>3, <2>4
  <2>9. Stored' \cup {buffer[1]} \subseteq Stored
    BY <2>2, <2>3, <2>5, <2>6
  <2> QED BY <2>7, <2>8, <2>9
<1>8. Taking' = Taking \cup {c} /\ c \notin Taking
  BY <1>1, <1>2, PlaceFacts DEF Taking
<1>9. /\ message'[c] = buffer[1]
      /\ \A d \in Taking : message'[d] = message[d] /\ message[d] \in Taken
  BY <1>1, <1>3, <1>5, <1>6, <1>8 DEF Taking, Taken
<1>10. Taken' = Taken \cup {buffer[1]}
  BY <1>8, <1>9 DEF Taken
<1>11. ~Freed'
  BY <1>2, PlaceFacts DEF Freed
<1>12. Owned'
  <2>1. Stored' \cap Taken' = {} /\ live' = Stored' \cup Taken'
    BY <1>1, <1>3, <1>7, <1>10
  <2>2. Linked(list', buffer') /\ messages_count' = Len(buffer')
    BY <1>1, <1>5, <1>6, <1>3
  <2> QED BY <1>11, <2>1, <2>2 DEF Owned
<1>13. Single'
  <2>1. buffer[1] \notin Taken
    BY <1>3, <1>7
  <2> QED BY <1>8, <1>9, <2>1 DEF IInv, Single
<1>14. TypeOK'
  <2>1. messages_count' \in 0 .. messages_limit
    BY <1>1, <1>3, PlaceFacts
  <2>2. message' \in [Consumers -> Cells \cup {Nil}]
    BY <1>1, <1>3, <1>5, <1>6
  <2>3. list' \in Lists(Cells) /\ buffer' \in Seq(Cells)
    BY <1>1, <1>5, <1>6
  <2> QED BY <1>1, <2>1, <2>2, <2>3 DEF IInv, TypeOK, Labels
<1>15. Placed' /\ Holder'
  BY <1>1, <1>2, PlaceFacts DEF IInv, Placed, Places, Holder, Inside
<1>16. Asleep' /\ Dropped' /\ Joined'
  BY <1>1, <1>2, PlaceFacts DEF IInv, Asleep, Dropped, Joined, TypeOK, Threads
<1>17. Room'
  <2>1. \A x \in Threads : pc'[x] \notin {"putIn", "getIn"}
    BY <1>1, <1>2 DEF IInv, Holder, Inside
  <2> QED BY <2>1, PlaceFacts DEF Room
<1> QED BY <1>1, <1>4, <1>5, <1>12, <1>13, <1>14, <1>15, <1>16, <1>17 DEF IInv

(* The consumer frees its own cell, before or after drop freed the others. *)
LEMMA FreeInv ==
  ASSUME Fits, IInv, NEW c \in Consumers, GetFree(c)
  PROVE  IInv'
<1>1. /\ pc[c] = "getFree"
      /\ live' = live \ {message[c]}
      /\ pc' = [pc EXCEPT ![c] = "get"]
      /\ UNCHANGED <<mutex, waiting, is_destroyed, list, messages_count, message,
                     buffer>>
  BY DEF GetFree, Goto
<1>2. /\ c \in Threads /\ c # Main
      /\ pc \in [Threads -> Labels]
      /\ pc'[c] = "get" /\ \A x \in Threads \ {c} : pc'[x] = pc[x]
  BY <1>1, PlaceFacts DEF IInv, TypeOK
<1>3. c \in Taking /\ Taking' = Taking \ {c} /\ (Freed' <=> Freed)
  BY <1>1, <1>2, PlaceFacts DEF Taking, Freed
<1>4. Taken' = Taken \ {message[c]}
  BY <1>1, <1>3 DEF IInv, Single, Taken
<1>5. message[c] \in Taken /\ Stored' = Stored
  BY <1>1, <1>3 DEF Taken, Stored
<1>6. Owned' /\ Single'
  BY <1>1, <1>3, <1>4, <1>5 DEF IInv, Owned, Single
<1>7. TypeOK'
  BY <1>1 DEF IInv, TypeOK, Labels
<1>8. Placed' /\ Holder'
  BY <1>1, <1>2, PlaceFacts DEF IInv, Placed, Places, Holder, Inside
<1>9. Asleep' /\ Dropped' /\ Joined' /\ Room'
  BY <1>1, <1>2, PlaceFacts DEF IInv, Asleep, Dropped, Joined, Room, TypeOK, Threads
<1> QED BY <1>6, <1>7, <1>8, <1>9 DEF IInv

(* drop frees what is stored, and leaves what consumers hold.              *)
LEMMA DropFreeInv ==
  ASSUME Fits, IInv, DropFree
  PROVE  IInv'
<1>1. /\ pc[Main] = "dropFree"
      /\ live' = live \ Walked(list)
      /\ mutex' = Nil
      /\ pc' = [pc EXCEPT ![Main] = "join"]
      /\ UNCHANGED <<waiting, is_destroyed, list, messages_count, message, buffer>>
  BY DEF DropFree, Unlock, Goto
<1>2. /\ Main \in Threads
      /\ pc \in [Threads -> Labels]
      /\ pc'[Main] = "join" /\ \A x \in Threads \ {Main} : pc'[x] = pc[x]
      /\ ~Freed /\ Freed' /\ mutex = Main
  BY <1>1, PlaceFacts DEF IInv, TypeOK, Freed, Holder, Inside
<1>3. Walked(list) = Stored
  <2>1. Walked(list) = {buffer[i] : i \in 1 .. Len(buffer)}
    BY <1>2, WalkedLinked, PlaceFacts DEF IInv, TypeOK, Owned
  <2>2. DOMAIN buffer = 1 .. Len(buffer)
    BY DEF IInv, TypeOK
  <2> QED BY <2>1, <2>2 DEF Stored
<1>4. Taking' = Taking /\ Taken' = Taken
  BY <1>1, <1>2, PlaceFacts DEF Taking, Taken
<1>5. Owned' /\ Single'
  BY <1>1, <1>2, <1>3, <1>4 DEF IInv, Owned, Single
<1>6. TypeOK'
  BY <1>1 DEF IInv, TypeOK, Labels
<1>7. Placed' /\ Holder'
  BY <1>1, <1>2, PlaceFacts DEF IInv, Placed, Places, Holder, Inside
<1>8. Asleep' /\ Dropped' /\ Joined' /\ Room'
  BY <1>1, <1>2, PlaceFacts DEF IInv, Asleep, Dropped, Joined, Room, TypeOK, Threads
<1> QED BY <1>5, <1>6, <1>7, <1>8 DEF IInv

(* A producer's step: one that stores, or one between places.              *)
LEMMA ProducerInv ==
  ASSUME Fits, IInv, NEW p \in Producers, Producer(p)
  PROVE  IInv'
<1> USE DEF Goto
<1>0. /\ p \in Threads /\ p # Main
      /\ Places(p) = {"put", "putTest", "putBlock", "putWait", "putIn", "exit"}
      /\ p \in waiting => pc[p] \in {"putWait", "getWait"}
      /\ mutex = p <=> pc[p] \in Inside
      /\ is_destroyed \in BOOLEAN /\ messages_count \in 0 .. messages_limit
  BY PlaceFacts DEF IInv, Asleep, Holder, TypeOK
<1>1. CASE Lock(p, "put", "putTest")
  BY <1>0, <1>1, QuietInv DEF Lock, Inside
<1>2. CASE PutTest(p)
  <2>1. messages_count < messages_limit \/ messages_count >= messages_limit
    BY <1>0, PlaceFacts
  <2> QED BY <1>0, <1>2, <2>1, QuietInv DEF PutTest, Test, Inside
<1>3. CASE Block(p, "putBlock", "putWait")
  BY <1>0, <1>3, QuietInv DEF Block, Inside
<1>4. CASE Relock(p, "putWait", "putTest")
  BY <1>0, <1>4, QuietInv DEF Relock, Lock, Inside
<1>5. CASE Refuse(p, "putIn")
  BY <1>0, <1>5, QuietInv DEF Refuse, Unlock, Inside
<1>6. CASE PutStore(p)
  BY <1>6, StoreInv
<1> QED BY <1>1, <1>2, <1>3, <1>4, <1>5, <1>6 DEF Producer

(* A consumer's step: a take, a free, or one between places.               *)
LEMMA ConsumerInv ==
  ASSUME Fits, IInv, NEW c \in Consumers, Consumer(c)
  PROVE  IInv'
<1> USE DEF Goto
<1>0. /\ c \in Threads /\ c # Main
      /\ Places(c) = {"get", "getTest", "getBlock", "getWait", "getIn", "getFree",
                      "exit"}
      /\ c \in waiting => pc[c] \in {"putWait", "getWait"}
      /\ mutex = c <=> pc[c] \in Inside
      /\ is_destroyed \in BOOLEAN
  BY PlaceFacts DEF IInv, Asleep, Holder, TypeOK
<1>1. CASE Lock(c, "get", "getTest")
  BY <1>0, <1>1, QuietInv DEF Lock, Inside
<1>2. CASE Test(c, "getTest", messages_count = 0, "getBlock", "getIn")
  BY <1>0, <1>2, QuietInv DEF Test, Inside
<1>3. CASE Block(c, "getBlock", "getWait")
  BY <1>0, <1>3, QuietInv DEF Block, Inside
<1>4. CASE Relock(c, "getWait", "getTest")
  BY <1>0, <1>4, QuietInv DEF Relock, Lock, Inside
<1>5. CASE Refuse(c, "getIn")
  BY <1>0, <1>5, QuietInv DEF Refuse, Unlock, Inside
<1>6. CASE GetTake(c)
  BY <1>6, TakeInv
<1>7. CASE GetFree(c)
  BY <1>7, FreeInv
<1> QED BY <1>1, <1>2, <1>3, <1>4, <1>5, <1>6, <1>7 DEF Consumer

(* A step of main: the drop, the joins and the destroys.                   *)
LEMMA MainInv ==
  ASSUME Fits, IInv, MainThread
  PROVE  IInv'
<1> USE DEF Goto
<1>0. /\ Main \in Threads
      /\ Places(Main) = {"run", "dropWake", "dropLock", "dropFree", "join",
                         "destroy", "done"}
      /\ Main \notin waiting
      /\ mutex = Main <=> pc[Main] \in Inside
      /\ is_destroyed \in BOOLEAN /\ (is_destroyed <=> pc[Main] # "run")
  BY PlaceFacts DEF IInv, Dropped, Holder, TypeOK, Fits
<1>1. CASE DropRaise
  BY <1>0, <1>1, QuietInv DEF DropRaise, Inside
<1>2. CASE DropWake
  BY <1>0, <1>2, QuietInv DEF DropWake, Broadcast, Inside
<1>3. CASE Lock(Main, "dropLock", "dropFree")
  BY <1>0, <1>3, QuietInv DEF Lock, Inside
<1>4. CASE DropFree
  BY <1>4, DropFreeInv
<1>5. CASE Join
  BY <1>0, <1>5, QuietInv DEF Join, Message_Queue, queueVars, Inside
<1>6. CASE Destroy
  <2>1. pc[Main] = "destroy" /\ \A x \in Threads \ {Main} : pc[x] = "exit"
    BY <1>6 DEF Destroy, IInv, Joined
  <2>2. mutex = Nil
    BY <2>1 DEF IInv, TypeOK, Holder, Inside
  <2> QED BY <1>0, <1>6, <2>1, <2>2, QuietInv
          DEF Destroy, Message_Queue, queueVars, Inside
<1> QED BY <1>1, <1>2, <1>3, <1>4, <1>5, <1>6 DEF MainThread

(* Every step keeps the invariant.                                         *)
LEMMA NextInv ==
  ASSUME Fits, IInv, [Next]_vars
  PROVE  IInv'
<1>1. CASE \E t \in Threads : SpuriousWakeup(t)
  <2> USE <1>1 DEF SpuriousWakeup, queueVars
  <2>1. TypeOK' /\ Placed' /\ Holder' /\ Asleep' /\ Dropped' /\ Joined' /\ Room'
    BY DEF IInv, TypeOK, Placed, Holder, Asleep, Dropped, Joined, Room
  <2>2. Single' /\ Owned'
    BY DEF IInv, Single, Owned, Stored, Taken, Taking, Freed
  <2> QED BY <2>1, <2>2 DEF IInv
<1>2. CASE UNCHANGED vars
  <2> USE <1>2 DEF vars
  <2>1. TypeOK' /\ Placed' /\ Holder' /\ Asleep' /\ Dropped' /\ Joined' /\ Room'
    BY DEF IInv, TypeOK, Placed, Holder, Asleep, Dropped, Joined, Room
  <2>2. Single' /\ Owned'
    BY DEF IInv, Single, Owned, Stored, Taken, Taking, Freed
  <2> QED BY <2>1, <2>2 DEF IInv
<1> QED BY <1>1, <1>2, ProducerInv, ConsumerInv, MainInv DEF Next, Terminated

(* The assumptions of the harness, for this build.                         *)
LEMMA CondFits == Fits
BY ThreadsDiffer, LimitsPositive DEF Fits, Threads

(* The invariant holds of every behaviour of the build.                    *)
LEMMA CondInvariance == Spec => []IInv
<1>1. Init => IInv
  BY CondFits, InitInv
<1>2. IInv /\ [Next]_vars => IInv'
  BY CondFits, NextInv
<1> QED BY <1>1, <1>2, PTL DEF Spec

(* The parts of the invariant make the property.                           *)
LEMMA OwnersFromInv ==
  ASSUME Fits, IInv
  PROVE  OneOwner
<1>1. pc[Main] = "destroy" => mutex = Nil /\ waiting = {}
  <2> SUFFICES ASSUME pc[Main] = "destroy" PROVE mutex = Nil /\ waiting = {}
    OBVIOUS
  <2>1. \A x \in Threads \ {Main} : pc[x] = "exit"
    BY DEF IInv, Joined
  <2>2. mutex = Nil
    BY <2>1 DEF IInv, TypeOK, Holder, Inside
  <2>3. waiting \subseteq Threads \ {Main}
    BY DEF IInv, TypeOK, Threads, Fits
  <2> QED BY <2>1, <2>2, <2>3 DEF IInv, Asleep
<1> QED BY <1>1 DEF IInv, Single, Owned, Freed, Stored, Taken, OneOwner

(* The types hold, and messages_count never leaves 0 .. messages_limit,    *)
(* whatever a thread read of is_destroyed before it rose.                  *)
THEOREM CondTypeCorrect == Spec => []TypeOK
<1>1. IInv => TypeOK
  BY DEF IInv
<1> QED BY <1>1, CondInvariance, PTL

(* put, get and drop share no cell: none is freed twice, used when free or *)
(* lost, for every set of threads and every limit.                         *)
THEOREM CondOwnersCorrect == Spec => []OneOwner
<1>1. IInv => OneOwner
  BY CondFits, OwnersFromInv
<1> QED BY <1>1, CondInvariance, PTL

(* The bounded FIFO, closed when drop raises is_destroyed.                 *)
Fifo == INSTANCE BoundedFifo
          WITH Messages <- Cells, Limit <- messages_limit, Nothing <- Nil,
               stored <- buffer, got <- message, open <- ~is_destroyed

(* A put is the FIFO's Put, a get its Get, the raise its Close.            *)
LEMMA CondStepsAreFifo ==
  ASSUME Fits, IInv, [Next]_vars
  PROVE  [Fifo!Next]_(Fifo!fifoVars)
<1> USE DEF Fifo!fifoVars, queueVars
<1>1. ASSUME NEW p \in Producers, Producer(p) PROVE [Fifo!Next]_(Fifo!fifoVars)
  <2>1. CASE PutStore(p)
    <3>1. \E m \in Cells : Fifo!Put(m)
      BY <2>1, StoreInv DEF PutStore, Fifo!Put
    <3> QED BY <3>1 DEF Fifo!Next
  <2>2. CASE ~PutStore(p)
    BY <1>1, <2>2 DEF Producer, Lock, PutTest, Test, Block, Relock, Refuse
  <2> QED BY <2>1, <2>2
<1>2. ASSUME NEW c \in Consumers, Consumer(c) PROVE [Fifo!Next]_(Fifo!fifoVars)
  <2>1. CASE GetTake(c)
    <3>1. Fifo!Get(c)
      BY <2>1, TakeInv DEF GetTake, Fifo!Get
    <3> QED BY <3>1 DEF Fifo!Next
  <2>2. CASE ~GetTake(c)
    BY <1>2, <2>2 DEF Consumer, Lock, Test, Block, Relock, Refuse, GetFree
  <2> QED BY <2>1, <2>2
<1>3. CASE MainThread
  <2>1. CASE DropRaise
    <3>1. Fifo!Close
      BY <2>1 DEF DropRaise, IInv, Dropped, Fifo!Close
    <3> QED BY <3>1 DEF Fifo!Next
  <2>2. CASE ~DropRaise
    BY <1>3, <2>2
       DEF MainThread, DropWake, Lock, DropFree, Join, Destroy, Message_Queue
  <2> QED BY <2>1, <2>2
<1>4. CASE (\E t \in Threads : SpuriousWakeup(t)) \/ UNCHANGED vars
  BY <1>4 DEF SpuriousWakeup, vars
<1> QED BY <1>1, <1>2, <1>3, <1>4 DEF Next, Terminated

(* Each put and get of the code is one step of the bounded FIFO, and none  *)
(* comes once is_destroyed is up.                                          *)
THEOREM CondRefinement == Spec => Fifo!Spec
<1>1. Init => Fifo!Init
  BY DEF Init, Fifo!Init
<1>2. IInv /\ [Next]_vars => [Fifo!Next]_(Fifo!fifoVars)
  BY CondFits, CondStepsAreFifo
<1> QED BY <1>1, <1>2, CondInvariance, PTL DEF Spec, Fifo!Spec
-----------------------------------------------------------------------------
(* The semaphore build.                                                    *)
(* What the module's assumptions say of it.                                *)
SemFits ==
  /\ SemProducers \cap Consumers = {}
  /\ Main \notin SemProducers \cup Consumers
  /\ Nil \notin Sem!Threads \cup SemCells
  /\ SemLimit \in Nat \ {0}
  /\ IsFiniteSet(Sem!Threads)

(* How many threads stand at one of the labels.                            *)
Count(f, labels) == Cardinality({t \in Sem!Threads : f[t] \in labels})

(* Where a thread has a token of sem_put or sem_get in hand, where it is   *)
(* past its test, and where it holds the mutex.                            *)
PutTokens == {"putTest", "putBack", "putLock", "putIn", "getPost"}
GetTokens == {"getTest", "getBack", "getLock", "getIn", "putPost"}
Storing == {"putLock", "putIn"}
Getting == {"getLock", "getIn"}
Held == {"putIn", "getIn"}

SemPlaces(t) ==
  IF t \in SemProducers
  THEN {"put", "putTest", "putBack", "putLock", "putIn", "putPost", "putLength", "exit"}
  ELSE IF t \in Consumers
  THEN {"get", "getTest", "getBack", "getLock", "getIn", "getPost", "exit"}
  ELSE {"run", "dropPut", "dropGet", "dropFree", "join", "destroy", "done"}

DropPut == IF pc[Main] \in {"dropGet", "dropFree", "join", "destroy", "done"}
           THEN 1 ELSE 0
DropGet == IF pc[Main] \in {"dropFree", "join", "destroy", "done"} THEN 1 ELSE 0

SemTyped ==
  /\ mutex \in Sem!Threads \cup {Nil}
  /\ sem \in [{"put", "get"} -> Nat]
  /\ list \in Lists(SemCells)
  /\ live \subseteq SemCells
  /\ pc \in [Sem!Threads -> Sem!Labels]
  /\ is_destroyed \in BOOLEAN /\ corrupt \in BOOLEAN
  /\ got \in [Consumers -> SemCells \cup {Nil}]
  /\ caught \subseteq Sem!Threads
  /\ buffer \in Seq(SemCells)

SemPlaced == \A t \in Sem!Threads : pc[t] \in SemPlaces(t)
SemHolder == \A t \in Sem!Threads : mutex = t <=> pc[t] \in Held
SemDropped == is_destroyed <=> pc[Main] # "run"
CaughtAll == is_destroyed => Sem!Inside \subseteq caught
Broken == corrupt => caught # {}
SemBound == sem["put"] <= SemLimit + 1 /\ sem["get"] <= SemLimit + 1
Bounded == corrupt => SemBound
Tokens ==
  ~corrupt =>
    /\ sem["put"] + Count(pc, PutTokens) + Len(buffer) = SemLimit + DropPut
    /\ sem["get"] + Count(pc, GetTokens) = Len(buffer) + DropGet
SemRoom ==
  ~corrupt => /\ Count(pc, Storing) + Len(buffer) <= SemLimit
              /\ Count(pc, Getting) <= Len(buffer)
Cell == /\ Linked(list, buffer)
        /\ live = Stored \/ (Freed /\ live = {})
        /\ Freed /\ caught = {} => live = {}
Whole == ~Freed => ~corrupt

(* What else a step may leave alone, and what the measure of a message     *)
(* reads and leaves, of which nothing else depends.                        *)
listVars == <<list, live, corrupt, buffer, got>>
Measured == /\ new_message \in [SemProducers -> SemCells \cup {Nil}]
            /\ overread \in BOOLEAN

SemInv == /\ SemTyped
        /\ SemPlaced
        /\ SemHolder
        /\ SemDropped
        /\ CaughtAll
        /\ Broken
        /\ Bounded
        /\ Tokens
        /\ SemRoom
        /\ Cell
        /\ Whole
-----------------------------------------------------------------------------
(* The threads are told apart by their places.                             *)
LEMMA SemPlaceFacts ==
  ASSUME SemFits
  PROVE  /\ Main \in Sem!Threads /\ Nil \notin Sem!Threads /\ Nil \notin SemCells
         /\ SemLimit \in Nat /\ SemLimit > 0
         /\ SemPlaces(Main) = {"run", "dropPut", "dropGet", "dropFree", "join",
                            "destroy", "done"}
         /\ \A p \in SemProducers :
              /\ p \in Sem!Threads /\ p # Main /\ p \notin Consumers
              /\ SemPlaces(p) = {"put", "putTest", "putBack", "putLock", "putIn",
                              "putPost", "putLength", "exit"}
         /\ \A c \in Consumers :
              /\ c \in Sem!Threads /\ c # Main /\ c \notin SemProducers
              /\ SemPlaces(c) = {"get", "getTest", "getBack", "getLock", "getIn",
                              "getPost", "exit"}
         /\ \A t \in Sem!Threads : t \in SemProducers \/ t \in Consumers \/ t = Main
         /\ \A t \in Sem!Threads : SemPlaces(t) \subseteq Sem!Labels
BY DEF SemFits, Sem!Threads, SemPlaces, Sem!Labels

(* 1 if the label is among them, and 0 if not.                             *)
One(label, L) == IF label \in L THEN 1 ELSE 0

(* How a step of thread t to the label to changes the count of some labels. *)
Moved(t, to, L) ==
  /\ Count(pc, L) \in Nat
  /\ Count(pc', L) \in Nat
  /\ Count(pc', L) = Count(pc, L) + One(to, L) - One(pc[t], L)

(* One thread moves: each count changes by that thread alone.              *)
LEMMA CountMove ==
  ASSUME SemFits, pc \in [Sem!Threads -> Sem!Labels], NEW t \in Sem!Threads, NEW to,
         pc' = [pc EXCEPT ![t] = to], NEW L
  PROVE  Moved(t, to, L)
<1> DEFINE F == {x \in Sem!Threads : pc[x] \in L}
           G == {x \in Sem!Threads : pc'[x] \in L}
           A == {x \in Sem!Threads \ {t} : pc[x] \in L}
<1>1. IsFiniteSet(F) /\ IsFiniteSet(G) /\ IsFiniteSet(A)
  BY FS_Subset DEF SemFits
<1>2. Cardinality(F) \in Nat /\ Cardinality(G) \in Nat /\ Cardinality(A) \in Nat
  BY <1>1, FS_CardinalityType
<1>3. t \notin A /\ Cardinality(A \cup {t}) = Cardinality(A) + 1
  BY <1>1, FS_AddElement
<1>4. F = (IF pc[t] \in L THEN A \cup {t} ELSE A)
  OBVIOUS
<1>5. G = (IF to \in L THEN A \cup {t} ELSE A)
  OBVIOUS
<1>6. Count(pc, L) = Cardinality(F) /\ Count(pc', L) = Cardinality(G)
  BY DEF Count
<1> HIDE DEF F, G, A
<1>7. Cardinality(F) = Cardinality(A) + One(pc[t], L)
  BY <1>2, <1>3, <1>4 DEF One
<1>8. Cardinality(G) = Cardinality(A) + One(to, L)
  BY <1>2, <1>3, <1>5 DEF One
<1>9. One(pc[t], L) \in {0, 1} /\ One(to, L) \in {0, 1}
  BY DEF One
<1> QED BY <1>2, <1>6, <1>7, <1>8, <1>9 DEF Moved

(* Fewer labels, fewer threads.                                            *)
LEMMA CountLess ==
  ASSUME SemFits, NEW f, NEW K, NEW L, K \subseteq L
  PROVE  Count(f, K) \in Nat /\ Count(f, L) \in Nat /\ Count(f, K) <= Count(f, L)
<1> DEFINE F == {x \in Sem!Threads : f[x] \in K}
           G == {x \in Sem!Threads : f[x] \in L}
<1>1. IsFiniteSet(G) /\ F \subseteq G
  BY FS_Subset DEF SemFits
<1>2. IsFiniteSet(F) /\ Cardinality(F) <= Cardinality(G)
  BY <1>1, FS_Subset
<1> QED BY <1>1, <1>2, FS_CardinalityType DEF Count

(* Whoever stands at a label counts.                                       *)
LEMMA CountSome ==
  ASSUME SemFits, NEW f, NEW L, NEW t \in Sem!Threads, f[t] \in L
  PROVE  Count(f, L) \in Nat /\ Count(f, L) > 0
<1> DEFINE F == {x \in Sem!Threads : f[x] \in L}
<1>1. IsFiniteSet(F) /\ t \in F
  BY FS_Subset DEF SemFits
<1>2. Cardinality(F) \in Nat /\ Cardinality(F) # 0
  BY <1>1, FS_CardinalityType, FS_EmptySet
<1> QED BY <1>2 DEF Count

(* All the room is on sem_put, and nobody has a token.                     *)
LEMMA SemInitInv ==
  ASSUME SemFits, Sem!Init
  PROVE  SemInv
<1>1. list \in Lists(SemCells) /\ Linked(list, <<>>)
  <2>1. list = EmptyList(SemCells)
    BY DEF Sem!Init, Sem!EmptyList, EmptyList
  <2> QED BY <2>1, EmptyLinked
<1>2. /\ \A t \in Sem!Threads : pc[t] = IF t \in SemProducers THEN "put"
                                    ELSE IF t \in Consumers THEN "get" ELSE "run"
      /\ pc \in [Sem!Threads -> Sem!Labels]
  BY DEF Sem!Init, Sem!Labels
<1>3. pc[Main] = "run"
  BY <1>2, SemPlaceFacts
<1>4. sem = [put |-> SemLimit, get |-> 0]
  BY DEF Sem!Init
<1>5. SemTyped
  <2>1. sem \in [{"put", "get"} -> Nat]
    BY <1>4, SemPlaceFacts
  <2>2. got \in [Consumers -> SemCells \cup {Nil}] /\ buffer \in Seq(SemCells)
    BY DEF Sem!Init
  <2> QED BY <1>1, <1>2, <2>1, <2>2 DEF Sem!Init, SemTyped
<1>6. SemPlaced /\ SemHolder
  BY <1>2, SemPlaceFacts DEF Sem!Init, SemPlaced, SemPlaces, SemHolder, Held
<1>7. SemDropped /\ CaughtAll /\ Broken
  BY <1>3 DEF Sem!Init, SemDropped, CaughtAll, Broken
<1>8. ASSUME NEW L, "put" \notin L, "get" \notin L, "run" \notin L
      PROVE  Count(pc, L) = 0
  <2>1. {t \in Sem!Threads : pc[t] \in L} = {}
    BY <1>2, <1>8
  <2> QED BY <2>1, FS_EmptySet DEF Count
<1>9. /\ Count(pc, PutTokens) = 0 /\ Count(pc, GetTokens) = 0
      /\ Count(pc, Storing) = 0 /\ Count(pc, Getting) = 0
  <2>1. Count(pc, PutTokens) = 0 /\ Count(pc, GetTokens) = 0
    BY <1>8 DEF PutTokens, GetTokens
  <2>2. Count(pc, Storing) = 0 /\ Count(pc, Getting) = 0
    BY <1>8 DEF Storing, Getting
  <2> QED BY <2>1, <2>2
<1>10. Len(buffer) = 0 /\ DropPut = 0 /\ DropGet = 0
  BY <1>3 DEF Sem!Init, DropPut, DropGet
<1>11. Tokens /\ SemRoom /\ Bounded
  BY <1>4, <1>9, <1>10, SemPlaceFacts DEF Sem!Init, Tokens, SemRoom, Bounded
<1>12. Cell
  BY <1>1, <1>3 DEF Sem!Init, Cell, Stored, Freed
<1>13. Whole
  BY DEF Sem!Init, Whole
<1> QED BY <1>5, <1>6, <1>7, <1>11, <1>12, <1>13 DEF SemInv

(* Tokens are not negative: so a semaphore stays within what there is.     *)
LEMMA Bounds ==
  ASSUME SemFits, SemInv
  PROVE  SemBound
<1> SUFFICES ASSUME ~corrupt PROVE SemBound
  BY DEF SemInv, Bounded
<1>1. /\ Count(pc, PutTokens) \in Nat /\ Count(pc, GetTokens) \in Nat
      /\ Count(pc, Storing) \in Nat
  BY CountLess
<1>2. /\ DropPut \in {0, 1} /\ DropGet \in {0, 1} /\ Len(buffer) \in Nat
      /\ sem["put"] \in Nat /\ sem["get"] \in Nat /\ SemLimit \in Nat
  BY SemPlaceFacts DEF SemInv, SemTyped, DropPut, DropGet
<1>3. sem["put"] <= SemLimit + 1
  <2>1. sem["put"] + Count(pc, PutTokens) + Len(buffer) = SemLimit + DropPut
    BY DEF SemInv, Tokens
  <2> QED BY <1>1, <1>2, <2>1
<1>4. sem["get"] <= SemLimit + 1
  <2>1. sem["get"] + Count(pc, GetTokens) = Len(buffer) + DropGet
    BY DEF SemInv, Tokens
  <2>2. Count(pc, Storing) + Len(buffer) <= SemLimit
    BY DEF SemInv, SemRoom
  <2> QED BY <1>1, <1>2, <2>1, <2>2
<1> QED BY <1>3, <1>4 DEF SemBound

(* The numbers a step of one thread relates.                               *)
LEMMA Moves ==
  ASSUME SemFits, SemInv, NEW t \in Sem!Threads, NEW to \in SemPlaces(t), Sem!Goto(t, to)
  PROVE  /\ Moved(t, to, PutTokens) /\ Moved(t, to, GetTokens)
         /\ Moved(t, to, Storing) /\ Moved(t, to, Getting)
         /\ pc' \in [Sem!Threads -> Sem!Labels]
         /\ pc'[t] = to /\ \A x \in Sem!Threads \ {t} : pc'[x] = pc[x]
<1>1. pc' = [pc EXCEPT ![t] = to] /\ pc \in [Sem!Threads -> Sem!Labels]
  BY DEF Sem!Goto, SemInv, SemTyped
<1>2. to \in Sem!Labels
  BY SemPlaceFacts
<1> QED BY <1>1, <1>2, CountMove

(* What a step takes from a semaphore and what its thread has in hand add   *)
(* up to what they were, with the token of the drop.                       *)
LEMMA PutKept ==
  ASSUME NEW t, NEW to, Moved(t, to, PutTokens),
         sem["put"] \in Int, sem'["put"] \in Int, DropPut \in Int, DropPut' \in Int,
         Len(buffer) \in Int, SemLimit \in Int,
         sem["put"] + Count(pc, PutTokens) + Len(buffer) = SemLimit + DropPut,
         sem'["put"] + One(to, PutTokens) + DropPut
           = sem["put"] + One(pc[t], PutTokens) + DropPut'
  PROVE  sem'["put"] + Count(pc', PutTokens) + Len(buffer) = SemLimit + DropPut'
<1> DEFINE s == sem["put"]
           s1 == sem'["put"]
           n == Count(pc, PutTokens)
           n1 == Count(pc', PutTokens)
           x == One(to, PutTokens)
           y == One(pc[t], PutTokens)
           d == DropPut
           d1 == DropPut'
           b == Len(buffer)
<1>1. n \in Int /\ n1 \in Int /\ x \in Int /\ y \in Int /\ n1 = n + x - y
  BY DEF Moved, One
<1>2. /\ s \in Int /\ s1 \in Int /\ d \in Int /\ d1 \in Int /\ b \in Int
      /\ s + n + b = SemLimit + d
      /\ s1 + x + d = s + y + d1
  OBVIOUS
<1> HIDE DEF s, s1, n, n1, x, y, d, d1, b
<1>3. s1 + n1 + b = SemLimit + d1
  BY <1>1, <1>2
<1> QED BY <1>3 DEF s1, n1, d1, b

(* The same for sem_get.                                                   *)
LEMMA GetKept ==
  ASSUME NEW t, NEW to, Moved(t, to, GetTokens),
         sem["get"] \in Int, sem'["get"] \in Int, DropGet \in Int, DropGet' \in Int,
         Len(buffer) \in Int, SemLimit \in Int,
         sem["get"] + Count(pc, GetTokens) = Len(buffer) + DropGet,
         sem'["get"] + One(to, GetTokens) + DropGet
           = sem["get"] + One(pc[t], GetTokens) + DropGet'
  PROVE  sem'["get"] + Count(pc', GetTokens) = Len(buffer) + DropGet'
<1> DEFINE s == sem["get"]
           s1 == sem'["get"]
           n == Count(pc, GetTokens)
           n1 == Count(pc', GetTokens)
           x == One(to, GetTokens)
           y == One(pc[t], GetTokens)
           d == DropGet
           d1 == DropGet'
           b == Len(buffer)
<1>1. n \in Int /\ n1 \in Int /\ x \in Int /\ y \in Int /\ n1 = n + x - y
  BY DEF Moved, One
<1>2. /\ s \in Int /\ s1 \in Int /\ d \in Int /\ d1 \in Int /\ b \in Int
      /\ s + n = b + d
      /\ s1 + x + d = s + y + d1
  OBVIOUS
<1> HIDE DEF s, s1, n, n1, x, y, d, d1, b
<1>3. s1 + n1 = b + d1
  BY <1>1, <1>2
<1> QED BY <1>3 DEF s1, n1, d1, b

(* A step that leaves the list alone.                                      *)
LEMMA SemQuietInv ==
  ASSUME SemFits, SemInv, ~corrupt, NEW t \in Sem!Threads, NEW to \in SemPlaces(t),
         Sem!Goto(t, to), UNCHANGED listVars,
         sem' \in [{"put", "get"} -> Nat],
         sem'["put"] + One(to, PutTokens) + DropPut
           = sem["put"] + One(pc[t], PutTokens) + DropPut',
         sem'["get"] + One(to, GetTokens) + DropGet
           = sem["get"] + One(pc[t], GetTokens) + DropGet',
         to \in Storing => pc[t] \in Storing \/ (~is_destroyed /\ t # Main),
         to \in Getting => pc[t] \in Getting \/ (~is_destroyed /\ t # Main),
         pc[t] \notin Held,
         mutex' = (IF to \in Held THEN t ELSE mutex),
         to \in Held => mutex = Nil,
         is_destroyed' = (is_destroyed \/ t = Main),
         caught' = (IF t = Main /\ pc[t] = "run" THEN Sem!Inside ELSE caught),
         t = Main => /\ to # "run"
                     /\ to \in {"join", "destroy", "done"}
                          <=> pc[t] \in {"join", "destroy", "done"}
  PROVE  SemInv'
<1> USE DEF listVars
<1>1. /\ Moved(t, to, PutTokens) /\ Moved(t, to, GetTokens)
      /\ Moved(t, to, Storing) /\ Moved(t, to, Getting)
      /\ pc' \in [Sem!Threads -> Sem!Labels]
      /\ pc'[t] = to /\ \A x \in Sem!Threads \ {t} : pc'[x] = pc[x]
  BY Moves
<1>2. SemTyped'
  <2>1. caught' \subseteq Sem!Threads
    BY DEF SemInv, SemTyped, Sem!Inside
  <2> QED BY <1>1, <2>1 DEF SemInv, SemTyped
<1>3. SemPlaced'
  BY <1>1 DEF SemInv, SemPlaced, SemPlaces
<1>4. SemHolder'
  BY <1>1, SemPlaceFacts DEF SemInv, SemHolder
<1>5. SemDropped'
  BY <1>1, SemPlaceFacts DEF SemInv, SemDropped
<1>6. CaughtAll'
  <2>1. CASE t = Main
    <3>1. Sem!Inside' \subseteq Sem!Inside
      <4>1. to \notin {"putLock", "putIn", "getLock", "getIn"}
        BY <2>1, SemPlaceFacts
      <4> QED BY <1>1, <4>1 DEF Sem!Inside
    <3>2. pc[Main] # "run" => is_destroyed
      BY DEF SemInv, SemDropped
    <3> QED BY <2>1, <3>1, <3>2 DEF SemInv, CaughtAll
  <2>2. CASE t # Main
    <3>1. is_destroyed => Sem!Inside' \subseteq Sem!Inside
      BY <1>1 DEF Sem!Inside, Storing, Getting
    <3> QED BY <2>2, <3>1 DEF SemInv, CaughtAll
  <2> QED BY <2>1, <2>2
<1>7. Freed' <=> Freed
  BY <1>1, SemPlaceFacts DEF Freed
<1>8. Cell'
  <2>1. Freed => caught' = caught
    BY <1>1 DEF Freed
  <2> QED BY <1>7, <2>1 DEF SemInv, Cell, Stored
<1>9. Broken' /\ Whole'
  BY <1>7 DEF SemInv, Broken, Whole
<1>10. /\ sem["put"] \in Nat /\ sem["get"] \in Nat
       /\ sem'["put"] \in Nat /\ sem'["get"] \in Nat
       /\ DropPut \in Nat /\ DropGet \in Nat
       /\ DropPut' \in Nat /\ DropGet' \in Nat
       /\ Len(buffer) \in Nat /\ SemLimit \in Nat
  BY SemPlaceFacts DEF SemInv, SemTyped, DropPut, DropGet
<1>14. \A l, L : One(l, L) \in {0, 1}
  BY DEF One
<1>11. Tokens'
  <2>1. sem["put"] + Count(pc, PutTokens) + Len(buffer) = SemLimit + DropPut
    BY DEF SemInv, Tokens
  <2>2. sem["get"] + Count(pc, GetTokens) = Len(buffer) + DropGet
    BY DEF SemInv, Tokens
  <2>3. sem'["put"] + Count(pc', PutTokens) + Len(buffer) = SemLimit + DropPut'
    BY <1>1, <1>10, <2>1, PutKept
  <2>4. sem'["get"] + Count(pc', GetTokens) = Len(buffer) + DropGet'
    BY <1>1, <1>10, <2>2, GetKept
  <2> QED BY <2>3, <2>4 DEF Tokens
<1>12. SemRoom'
  <2>1. /\ Count(pc, Storing) \in Nat /\ Count(pc', Storing) \in Nat
        /\ Count(pc', Storing)
             = Count(pc, Storing) + One(to, Storing) - One(pc[t], Storing)
        /\ Count(pc, Getting) \in Nat /\ Count(pc', Getting) \in Nat
        /\ Count(pc', Getting)
             = Count(pc, Getting) + One(to, Getting) - One(pc[t], Getting)
    BY <1>1 DEF Moved
  <2>2. /\ Count(pc, Storing) + Len(buffer) <= SemLimit
        /\ Count(pc, Getting) <= Len(buffer)
    BY DEF SemInv, SemRoom
  <2>3. CASE ~is_destroyed /\ t # Main
    <3>1. DropPut' = 0 /\ DropGet' = 0
      BY <1>1, <2>3, SemPlaceFacts DEF SemInv, SemDropped, DropPut, DropGet
    <3>2. Count(pc', Storing) <= Count(pc', PutTokens)
          /\ Count(pc', Getting) <= Count(pc', GetTokens)
          /\ Count(pc', PutTokens) \in Nat /\ Count(pc', GetTokens) \in Nat
      <4>1. Storing \subseteq PutTokens /\ Getting \subseteq GetTokens
        BY DEF Storing, PutTokens, Getting, GetTokens
      <4> QED BY <4>1, CountLess
    <3>3. sem'["put"] + Count(pc', PutTokens) + Len(buffer) = SemLimit + DropPut'
          /\ sem'["get"] + Count(pc', GetTokens) = Len(buffer) + DropGet'
      BY <1>11 DEF Tokens
    <3>4. sem'["put"] + Count(pc', PutTokens) + Len(buffer) = SemLimit
      BY <1>10, <3>1, <3>3
    <3>5. sem'["get"] + Count(pc', GetTokens) = Len(buffer)
      BY <1>10, <3>1, <3>3
    <3>6. /\ sem'["put"] \in Nat /\ sem'["get"] \in Nat
          /\ Len(buffer) \in Nat /\ SemLimit \in Nat
          /\ Count(pc', Storing) \in Nat /\ Count(pc', Getting) \in Nat
      BY <1>10, <2>1
    <3>7. Count(pc', Storing) + Len(buffer) <= SemLimit
      BY <3>2, <3>4, <3>6
    <3>8. Count(pc', Getting) <= Len(buffer)
      BY <3>2, <3>5, <3>6
    <3> QED BY <1>10, <3>7, <3>8 DEF SemRoom
  <2>4. CASE ~(~is_destroyed /\ t # Main)
    <3>1. One(to, Storing) <= One(pc[t], Storing) /\ One(to, Getting) <= One(pc[t], Getting)
      BY <2>4 DEF One, Storing, Getting
    <3>2. /\ One(to, Storing) \in Nat /\ One(pc[t], Storing) \in Nat
          /\ One(to, Getting) \in Nat /\ One(pc[t], Getting) \in Nat
      BY <1>14
    <3>3. Count(pc', Storing) <= Count(pc, Storing)
      BY <2>1, <3>1, <3>2
    <3>4. Count(pc', Getting) <= Count(pc, Getting)
      BY <2>1, <3>1, <3>2
    <3> QED BY <1>10, <2>1, <2>2, <3>3, <3>4 DEF SemRoom
  <2> QED BY <2>3, <2>4
<1>13. Bounded'
  BY DEF Bounded
<1> QED BY <1>2, <1>3, <1>4, <1>5, <1>6, <1>8, <1>9, <1>11, <1>12, <1>13 DEF SemInv

(* A sem_wait moves a token into the hand of its thread.                   *)
LEMMA WaitInv ==
  ASSUME SemFits, SemInv, ~corrupt, NEW t \in Sem!Threads \ {Main}, NEW s, NEW from,
         NEW to \in SemPlaces(t), Sem!SemWait(t, s, from, to),
         \/ (s = "put" /\ from = "put" /\ to = "putTest")
         \/ (s = "get" /\ from = "get" /\ to = "getTest")
  PROVE  SemInv'
<1>1. /\ pc[t] = from /\ Sem!Goto(t, to) /\ sem[s] > 0
      /\ sem' = [sem EXCEPT ![s] = @ - 1]
      /\ UNCHANGED <<mutex, is_destroyed, caught, listVars>>
  BY DEF Sem!SemWait, Sem!dataVars, listVars
<1>2. sem \in [{"put", "get"} -> Nat] /\ s \in {"put", "get"} /\ sem[s] - 1 \in Nat
  BY <1>1 DEF SemInv, SemTyped
<1>3. sem' \in [{"put", "get"} -> Nat]
  BY <1>1, <1>2
<1>4. DropPut' = DropPut /\ DropGet' = DropGet
  BY <1>1, Moves, SemPlaceFacts DEF DropPut, DropGet
<1>5. DropPut \in Nat /\ DropGet \in Nat
  BY DEF DropPut, DropGet
<1>6. sem'["put"] + One(to, PutTokens) + DropPut
        = sem["put"] + One(pc[t], PutTokens) + DropPut'
  BY <1>1, <1>2, <1>3, <1>4, <1>5 DEF One, PutTokens
<1>7. sem'["get"] + One(to, GetTokens) + DropGet
        = sem["get"] + One(pc[t], GetTokens) + DropGet'
  BY <1>1, <1>2, <1>3, <1>4, <1>5 DEF One, GetTokens
<1>8. to \notin Storing /\ to \notin Getting /\ to \notin Held /\ pc[t] \notin Held
  BY <1>1 DEF Storing, Getting, Held
<1>9. is_destroyed \in BOOLEAN
  BY DEF SemInv, SemTyped
<1> QED BY <1>1, <1>3, <1>6, <1>7, <1>8, <1>9, SemQuietInv

(* A sem_post moves it back, or adds one of the drop's two.                *)
LEMMA PostInv ==
  ASSUME SemFits, SemInv, ~corrupt, NEW t \in Sem!Threads, NEW s, NEW from,
         NEW to \in SemPlaces(t), Sem!SemPost(t, s, from, to),
         \/ (s = "put" /\ from = "putBack" /\ to = "exit" /\ t # Main)
         \/ (s = "get" /\ from = "putPost" /\ to = "putLength" /\ t # Main)
         \/ (s = "get" /\ from = "getBack" /\ to = "exit" /\ t # Main)
         \/ (s = "put" /\ from = "getPost" /\ to = "get" /\ t # Main)
         \/ (s = "put" /\ from = "dropPut" /\ to = "dropGet" /\ t = Main)
         \/ (s = "get" /\ from = "dropGet" /\ to = "dropFree" /\ t = Main)
  PROVE  SemInv'
<1>1. /\ pc[t] = from /\ Sem!Goto(t, to)
      /\ sem' = [sem EXCEPT ![s] = @ + 1]
      /\ UNCHANGED <<mutex, is_destroyed, caught, listVars>>
  BY DEF Sem!SemPost, Sem!dataVars, listVars
<1>2. sem \in [{"put", "get"} -> Nat] /\ s \in {"put", "get"} /\ sem[s] + 1 \in Nat
  BY DEF SemInv, SemTyped
<1>3. sem' \in [{"put", "get"} -> Nat]
  BY <1>1, <1>2
<1>4. /\ DropPut' = DropPut + (IF from = "dropPut" THEN 1 ELSE 0)
      /\ DropGet' = DropGet + (IF from = "dropGet" THEN 1 ELSE 0)
  BY <1>1, Moves, SemPlaceFacts DEF DropPut, DropGet
<1>5. DropPut \in Nat /\ DropGet \in Nat
  BY DEF DropPut, DropGet
<1>6. sem'["put"] + One(to, PutTokens) + DropPut
        = sem["put"] + One(pc[t], PutTokens) + DropPut'
  BY <1>1, <1>2, <1>3, <1>4, <1>5 DEF One, PutTokens
<1>7. sem'["get"] + One(to, GetTokens) + DropGet
        = sem["get"] + One(pc[t], GetTokens) + DropGet'
  BY <1>1, <1>2, <1>3, <1>4, <1>5 DEF One, GetTokens
<1>8. to \notin Storing /\ to \notin Getting /\ to \notin Held /\ pc[t] \notin Held
  BY <1>1 DEF Storing, Getting, Held
<1>9. is_destroyed \in BOOLEAN /\ (t = Main => is_destroyed)
  BY <1>1 DEF SemInv, SemTyped, SemDropped
<1>10. mutex' = (IF to \in Held THEN t ELSE mutex)
  BY <1>1, <1>8
<1>11. t = Main => /\ to # "run"
                   /\ to \in {"join", "destroy", "done"}
                        <=> pc[t] \in {"join", "destroy", "done"}
  BY <1>1
<1>12. /\ UNCHANGED listVars
       /\ is_destroyed' = (is_destroyed \/ t = Main)
       /\ caught' = (IF t = Main /\ pc[t] = "run" THEN Sem!Inside ELSE caught)
  BY <1>1, <1>9
<1> QED BY <1>1, <1>3, <1>6, <1>7, <1>8, <1>10, <1>11, <1>12, SemQuietInv

(* The look at the flag: whoever goes on does so on an open queue.         *)
LEMMA TestInv ==
  ASSUME SemFits, SemInv, ~corrupt, NEW t \in Sem!Threads \ {Main}, NEW from,
         NEW refused \in SemPlaces(t), NEW go \in SemPlaces(t), Sem!Test(t, from, refused, go),
         \/ (from = "putTest" /\ refused = "putBack" /\ go = "putLock")
         \/ (from = "getTest" /\ refused = "getBack" /\ go = "getLock")
  PROVE  SemInv'
<1> DEFINE to == IF is_destroyed THEN refused ELSE go
<1>1. /\ pc[t] = from /\ Sem!Goto(t, to) /\ to \in SemPlaces(t)
      /\ UNCHANGED <<mutex, sem, is_destroyed, caught, listVars>>
  BY DEF Sem!Test, Sem!dataVars, listVars
<1>2. sem' \in [{"put", "get"} -> Nat] /\ is_destroyed \in BOOLEAN
  BY <1>1 DEF SemInv, SemTyped
<1>3. DropPut' = DropPut /\ DropGet' = DropGet
  BY <1>1, Moves, SemPlaceFacts DEF DropPut, DropGet
<1>4. One(to, PutTokens) = One(from, PutTokens) /\ One(to, GetTokens) = One(from, GetTokens)
  BY DEF One, PutTokens, GetTokens
<1>5. /\ to \in Storing => ~is_destroyed /\ t # Main
      /\ to \in Getting => ~is_destroyed /\ t # Main
      /\ to \notin Held /\ from \notin Held
  BY DEF Storing, Getting, Held
<1> HIDE DEF to
<1> QED BY <1>1, <1>2, <1>3, <1>4, <1>5, SemQuietInv

(* The mutex goes to a thread past its test.                               *)
LEMMA LockInv ==
  ASSUME SemFits, SemInv, ~corrupt, NEW t \in Sem!Threads \ {Main}, NEW from,
         NEW to \in SemPlaces(t), Sem!Lock(t, from, to),
         \/ (from = "putLock" /\ to = "putIn")
         \/ (from = "getLock" /\ to = "getIn")
  PROVE  SemInv'
<1>1. /\ pc[t] = from /\ Sem!Goto(t, to) /\ mutex = Nil /\ mutex' = t
      /\ UNCHANGED <<sem, is_destroyed, caught, listVars>>
  BY DEF Sem!Lock, Sem!dataVars, listVars
<1>2. sem' \in [{"put", "get"} -> Nat] /\ is_destroyed \in BOOLEAN
  BY <1>1 DEF SemInv, SemTyped
<1>3. DropPut' = DropPut /\ DropGet' = DropGet
  BY <1>1, Moves, SemPlaceFacts DEF DropPut, DropGet
<1>4. One(to, PutTokens) = One(from, PutTokens) /\ One(to, GetTokens) = One(from, GetTokens)
  BY DEF One, PutTokens, GetTokens
<1>5. /\ to \in Storing => from \in Storing
      /\ to \in Getting => from \in Getting
      /\ to \in Held /\ from \notin Held
  BY DEF Storing, Getting, Held
<1> QED BY <1>1, <1>2, <1>3, <1>4, <1>5, SemQuietInv

(* The measure of what was put.                                            *)
LEMMA LengthInv ==
  ASSUME SemFits, SemInv, ~corrupt, NEW p \in SemProducers, Sem!PutLength(p)
  PROVE  SemInv'
<1>1. /\ pc[p] = "putLength"
      /\ UNCHANGED <<mutex, sem, is_destroyed, caught, listVars>>
      /\ Sem!Goto(p, "put") \/ UNCHANGED pc
  BY DEF Sem!PutLength, Sem!Message_Queue, listVars
<1>2. pc \in [Sem!Threads -> Sem!Labels] /\ sem \in [{"put", "get"} -> Nat]
      /\ is_destroyed \in BOOLEAN
  BY DEF SemInv, SemTyped
<1>3. PICK to \in {"put", "putLength"} : Sem!Goto(p, to)
  BY <1>1, <1>2 DEF Sem!Goto
<1>4. p \in Sem!Threads \ {Main} /\ to \in SemPlaces(p)
  BY SemPlaceFacts
<1>5. DropPut' = DropPut /\ DropGet' = DropGet
  BY <1>3, <1>4, Moves, SemPlaceFacts DEF DropPut, DropGet
<1>6. One(to, PutTokens) = One(pc[p], PutTokens) /\ One(to, GetTokens) = One(pc[p], GetTokens)
  BY <1>1 DEF One, PutTokens, GetTokens
<1>7. to \notin Storing /\ to \notin Getting /\ to \notin Held /\ pc[p] \notin Held
  BY <1>1 DEF Storing, Getting, Held
<1> QED BY <1>1, <1>2, <1>3, <1>4, <1>5, <1>6, <1>7, SemQuietInv

(* Main's steps but for the posts and the walk.                            *)
LEMMA MainQuietInv ==
  ASSUME SemFits, SemInv, ~corrupt, Sem!DropRaise \/ Sem!Join \/ Sem!Destroy
  PROVE  SemInv'
<1>0. /\ Main \in Sem!Threads
      /\ SemPlaces(Main) = {"run", "dropPut", "dropGet", "dropFree", "join",
                         "destroy", "done"}
      /\ is_destroyed \in BOOLEAN /\ (is_destroyed <=> pc[Main] # "run")
      /\ sem \in [{"put", "get"} -> Nat]
  BY SemPlaceFacts DEF SemInv, SemTyped, SemDropped
<1>1. PICK to \in {"dropPut", "destroy", "done"} :
        /\ Sem!Goto(Main, to)
        /\ \/ (pc[Main] = "run" /\ to = "dropPut")
           \/ (pc[Main] = "join" /\ to = "destroy")
           \/ (pc[Main] = "destroy" /\ to = "done")
        /\ UNCHANGED <<mutex, sem, listVars>>
        /\ is_destroyed' = (is_destroyed \/ Main = Main)
        /\ caught' = (IF pc[Main] = "run" THEN Sem!Inside ELSE caught)
  BY <1>0 DEF Sem!DropRaise, Sem!Join, Sem!Destroy, Sem!dataVars, listVars
<1>2. to \in SemPlaces(Main)
  BY <1>0
<1>3. DropPut' = DropPut /\ DropGet' = DropGet
  BY <1>0, <1>1, <1>2, Moves DEF DropPut, DropGet
<1>4. One(to, PutTokens) = One(pc[Main], PutTokens)
      /\ One(to, GetTokens) = One(pc[Main], GetTokens)
  BY <1>1 DEF One, PutTokens, GetTokens
<1>5. to \notin Storing /\ to \notin Getting /\ to \notin Held /\ pc[Main] \notin Held
  BY <1>1 DEF Storing, Getting, Held
<1> QED BY <1>0, <1>1, <1>2, <1>3, <1>4, <1>5, SemQuietInv

(* The end of a critical section, for all but the list.                    *)
LEMMA LeaveInv ==
  ASSUME SemFits, SemInv, NEW t \in Sem!Threads \ {Main},
         NEW to \in SemPlaces(t), Sem!Goto(t, to),
         to \in {"putPost", "getPost"}, pc[t] \in Held,
         mutex' = Nil, UNCHANGED <<sem, is_destroyed, caught>>
  PROVE  /\ SemPlaced' /\ SemHolder' /\ SemDropped' /\ CaughtAll'
         /\ Freed' <=> Freed
         /\ is_destroyed => t \in caught
         /\ Freed => is_destroyed
         /\ DropPut' = DropPut /\ DropGet' = DropGet
         /\ DropPut \in Nat /\ DropGet \in Nat
         /\ sem["put"] \in Nat /\ sem["get"] \in Nat
<1>1. /\ pc'[t] = to /\ \A x \in Sem!Threads \ {t} : pc'[x] = pc[x]
      /\ mutex = t
  BY Moves DEF SemInv, SemHolder
<1>2. SemPlaced'
  BY <1>1 DEF SemInv, SemPlaced, SemPlaces
<1>3. SemHolder'
  BY <1>1, SemPlaceFacts DEF SemInv, SemHolder, Held
<1>4. SemDropped' /\ (Freed' <=> Freed) /\ (Freed => is_destroyed)
  BY <1>1, SemPlaceFacts DEF SemInv, SemDropped, Freed
<1>5. CaughtAll' /\ (is_destroyed => t \in caught)
  BY <1>1 DEF SemInv, CaughtAll, Sem!Inside, Held
<1>6. /\ DropPut' = DropPut /\ DropGet' = DropGet
      /\ DropPut \in Nat /\ DropGet \in Nat
      /\ sem["put"] \in Nat /\ sem["get"] \in Nat
  BY <1>1, SemPlaceFacts DEF SemInv, SemTyped, DropPut, DropGet
<1> QED BY <1>2, <1>3, <1>4, <1>5, <1>6

(* What an end of the list is, as long as nothing is stored or freed.      *)
LEMMA EndFacts ==
  ASSUME SemFits, SemInv
  PROVE  /\ buffer = <<>> => list.head = Nil /\ list.tail = Nil /\ Stored = {}
         /\ buffer # <<>> => /\ list.head \in Stored /\ list.tail \in Stored
                            /\ list.tail = Head(buffer)
                            /\ list.head # Nil /\ list.tail # Nil
         /\ Stored \subseteq SemCells
         /\ buffer \in Seq(SemCells) /\ Len(buffer) \in Nat
<1>1. buffer \in Seq(SemCells) /\ Len(buffer) \in Nat /\ DOMAIN buffer = 1 .. Len(buffer)
  BY DEF SemInv, SemTyped
<1>2. Stored \subseteq SemCells
  BY <1>1 DEF Stored
<1>3. ASSUME buffer # <<>>
      PROVE  /\ list.head \in Stored /\ list.tail \in Stored
             /\ list.tail = Head(buffer)
  <2>1. 1 \in DOMAIN buffer /\ Len(buffer) \in DOMAIN buffer
    BY <1>1, <1>3
  <2> QED BY <2>1, <1>3 DEF SemInv, Cell, Linked, Ends, Stored
<1>4. buffer = <<>> => list.head = Nil /\ list.tail = Nil /\ Stored = {}
  BY DEF SemInv, Cell, Linked, Ends, Stored
<1> QED BY <1>1, <1>2, <1>3, <1>4, SemPlaceFacts

(* A put: there is room for it, and its node is new.                       *)
LEMMA SemStoreInv ==
  ASSUME SemFits, SemInv, ~corrupt, NEW p \in SemProducers, Sem!PutStore(p)
  PROVE  /\ SemInv'
         /\ UNCHANGED got
         /\ \/ UNCHANGED buffer
            \/ /\ Len(buffer) < SemLimit
               /\ \E m \in SemCells : buffer' = Append(buffer, m)
<1>1. /\ pc[p] = "putIn" /\ pc[p] \in Held
      /\ mutex' = Nil /\ Sem!Goto(p, "putPost")
      /\ UNCHANGED <<sem, is_destroyed, got, caught>>
  BY DEF Sem!PutStore, Held
<1>2. p \in Sem!Threads \ {Main} /\ "putPost" \in SemPlaces(p)
  BY SemPlaceFacts
<1>3. /\ SemPlaced' /\ SemHolder' /\ SemDropped' /\ CaughtAll'
      /\ Freed' <=> Freed
      /\ is_destroyed => p \in caught
      /\ Freed => is_destroyed
      /\ DropPut' = DropPut /\ DropGet' = DropGet
      /\ DropPut \in Nat /\ DropGet \in Nat
      /\ sem["put"] \in Nat /\ sem["get"] \in Nat
  BY <1>1, <1>2, LeaveInv
<1>4. pc' \in [Sem!Threads -> Sem!Labels]
  BY <1>1, <1>2, Moves
<1>5. CASE Sem!Dangling(list.head)
  <2>1. corrupt' = TRUE /\ UNCHANGED <<list, live, buffer>>
    BY <1>5 DEF Sem!PutStore
  <2>2. Freed /\ p \in caught
    BY <1>3, <1>5, EndFacts DEF Sem!Dangling, SemInv, Cell
  <2>3. SemTyped' /\ Broken' /\ Whole'
    BY <1>1, <1>3, <1>4, <2>1, <2>2, SemPlaceFacts DEF SemInv, SemTyped, Broken, Whole
  <2>4. Bounded' /\ Tokens' /\ SemRoom'
    BY <1>1, <2>1, Bounds DEF Bounded, SemBound, Tokens, SemRoom
  <2>5. Cell'
    BY <1>1, <1>3, <2>1 DEF SemInv, Cell, Stored
  <2> QED BY <1>1, <1>3, <2>1, <2>3, <2>4, <2>5 DEF SemInv
<1>6. CASE ~Sem!Dangling(list.head)
  <2>1. PICK m \in SemCells \ live :
          /\ live' = live \cup {m}
          /\ list' = PushHead(list, m)
          /\ buffer' = Append(buffer, m)
          /\ ~corrupt' /\ corrupt' \in BOOLEAN
    BY <1>6 DEF Sem!PutStore, Sem!PushHead, PushHead, SemInv, SemTyped
  <2>2. live = Stored
    BY <1>6, EndFacts DEF Sem!Dangling, SemInv, Cell
  <2>3. Linked(list, buffer) /\ list \in Lists(SemCells) /\ buffer \in Seq(SemCells)
        /\ Len(buffer) \in Nat
    BY DEF SemInv, Cell, SemTyped
  <2>4. \A i \in 1 .. Len(buffer) : buffer[i] # m
    BY <2>1, <2>2, <2>3 DEF Stored
  <2>5. PushHead(list, m) \in Lists(SemCells)
        /\ Linked(PushHead(list, m), Append(buffer, m))
    BY <2>1, <2>3, <2>4, PushLinked, SemPlaceFacts
  <2>6. /\ Append(buffer, m) \in Seq(SemCells)
        /\ Len(Append(buffer, m)) = Len(buffer) + 1
        /\ DOMAIN Append(buffer, m) = 1 .. Len(buffer) + 1
        /\ DOMAIN buffer = 1 .. Len(buffer)
        /\ Append(buffer, m)[Len(buffer) + 1] = m
        /\ \A i \in 1 .. Len(buffer) : Append(buffer, m)[i] = buffer[i]
    BY <2>1, <2>3
  <2>7. Stored' = Stored \cup {m}
    BY <2>1, <2>3, <2>6 DEF Stored
  <2>8. Cell'
    <3>1. Linked(list', buffer') /\ live' = Stored'
      BY <2>1, <2>2, <2>5, <2>7
    <3>2. ~(Freed' /\ caught' = {})
      BY <1>1, <1>3
    <3> QED BY <3>1, <3>2 DEF Cell
  <2>9. SemTyped'
    BY <1>1, <1>4, <2>1, <2>5, <2>6, SemPlaceFacts DEF SemInv, SemTyped
  <2>10. Broken' /\ Bounded' /\ Whole'
    BY <2>1 DEF Broken, Bounded, Whole
  <2>11. /\ Count(pc', PutTokens) = Count(pc, PutTokens) - 1
         /\ Count(pc', GetTokens) = Count(pc, GetTokens) + 1
         /\ Count(pc', Storing) = Count(pc, Storing) - 1
         /\ Count(pc', Getting) = Count(pc, Getting)
         /\ Count(pc, PutTokens) \in Nat /\ Count(pc, GetTokens) \in Nat
         /\ Count(pc, Storing) \in Nat /\ Count(pc, Getting) \in Nat
    <3>1. /\ Moved(p, "putPost", PutTokens) /\ Moved(p, "putPost", GetTokens)
          /\ Moved(p, "putPost", Storing) /\ Moved(p, "putPost", Getting)
      BY <1>1, <1>2, Moves
    <3>2. /\ One("putPost", PutTokens) = 0 /\ One("putIn", PutTokens) = 1
          /\ One("putPost", GetTokens) = 1 /\ One("putIn", GetTokens) = 0
          /\ One("putPost", Storing) = 0 /\ One("putIn", Storing) = 1
          /\ One("putPost", Getting) = 0 /\ One("putIn", Getting) = 0
      BY DEF One, PutTokens, GetTokens, Storing, Getting
    <3> QED BY <1>1, <3>1, <3>2 DEF Moved
  <2>12. Tokens'
    <3>1. sem["put"] + Count(pc, PutTokens) + Len(buffer) = SemLimit + DropPut
      BY DEF SemInv, Tokens
    <3>2. sem["get"] + Count(pc, GetTokens) = Len(buffer) + DropGet
      BY DEF SemInv, Tokens
    <3>3. sem["put"] + Count(pc', PutTokens) + (Len(buffer) + 1) = SemLimit + DropPut
      <4> DEFINE x == sem["put"]
                 n == Count(pc, PutTokens)
                 n1 == Count(pc', PutTokens)
                 l == Len(buffer)
                 d == DropPut
      <4>1. /\ x \in Int /\ n \in Int /\ l \in Int /\ d \in Int /\ SemLimit \in Int
            /\ x + n + l = SemLimit + d /\ n1 = n - 1
        BY <1>3, <2>3, <2>11, <3>1, SemPlaceFacts
      <4> HIDE DEF x, n, n1, l, d
      <4>2. x + n1 + (l + 1) = SemLimit + d
        BY <4>1
      <4> QED BY <4>2 DEF x, n1, l, d
    <3>4. sem["get"] + Count(pc', GetTokens) = (Len(buffer) + 1) + DropGet
      <4> DEFINE x == sem["get"]
                 n == Count(pc, GetTokens)
                 n1 == Count(pc', GetTokens)
                 l == Len(buffer)
                 d == DropGet
      <4>1. /\ x \in Int /\ n \in Int /\ l \in Int /\ d \in Int
            /\ x + n = l + d /\ n1 = n + 1
        BY <1>3, <2>3, <2>11, <3>2
      <4> HIDE DEF x, n, n1, l, d
      <4>2. x + n1 = (l + 1) + d
        BY <4>1
      <4> QED BY <4>2 DEF x, n1, l, d
    <3> QED BY <1>1, <1>3, <2>1, <2>6, <3>3, <3>4 DEF Tokens
  <2>13. Count(pc, Storing) + Len(buffer) <= SemLimit
         /\ Count(pc, Getting) <= Len(buffer)
    BY DEF SemInv, SemRoom
  <2>14. SemRoom'
    <3>1. Count(pc', Storing) + (Len(buffer) + 1) <= SemLimit
          /\ Count(pc', Getting) <= Len(buffer) + 1
      BY <2>3, <2>11, <2>13, SemPlaceFacts
    <3> QED BY <2>1, <2>6, <3>1 DEF SemRoom
  <2>15. Len(buffer) < SemLimit
    <3>1. Count(pc, Storing) > 0
      BY <1>1, <1>2, CountSome DEF Storing
    <3> QED BY <2>3, <2>11, <2>13, <3>1, SemPlaceFacts
  <2> QED BY <1>1, <1>3, <2>1, <2>8, <2>9, <2>10, <2>12, <2>14, <2>15 DEF SemInv
<1> QED BY <1>5, <1>6

(* A get: there is a message for it, the oldest.                           *)
LEMMA SemTakeInv ==
  ASSUME SemFits, SemInv, ~corrupt, NEW c \in Consumers, Sem!GetTake(c)
  PROVE  /\ SemInv'
         /\ \/ UNCHANGED <<buffer, got>>
            \/ /\ buffer # <<>> /\ buffer' = Tail(buffer)
               /\ got' = [got EXCEPT ![c] = Head(buffer)]
<1>1. /\ pc[c] = "getIn" /\ pc[c] \in Held
      /\ mutex' = Nil /\ Sem!Goto(c, "getPost")
      /\ UNCHANGED <<sem, is_destroyed, caught>>
  BY DEF Sem!GetTake, Held
<1>2. c \in Sem!Threads \ {Main} /\ "getPost" \in SemPlaces(c)
  BY SemPlaceFacts
<1>3. /\ SemPlaced' /\ SemHolder' /\ SemDropped' /\ CaughtAll'
      /\ Freed' <=> Freed
      /\ is_destroyed => c \in caught
      /\ Freed => is_destroyed
      /\ DropPut' = DropPut /\ DropGet' = DropGet
      /\ DropPut \in Nat /\ DropGet \in Nat
      /\ sem["put"] \in Nat /\ sem["get"] \in Nat
  BY <1>1, <1>2, LeaveInv
<1>4. pc' \in [Sem!Threads -> Sem!Labels]
  BY <1>1, <1>2, Moves
<1>5. CASE Sem!Dangling(list.tail)
  <2>1. corrupt' = TRUE /\ UNCHANGED <<list, live, buffer, got>>
    BY <1>5 DEF Sem!GetTake
  <2>2. Freed /\ c \in caught
    BY <1>3, <1>5, EndFacts DEF Sem!Dangling, SemInv, Cell
  <2>3. SemTyped' /\ Broken' /\ Whole'
    BY <1>1, <1>3, <1>4, <2>1, <2>2, SemPlaceFacts DEF SemInv, SemTyped, Broken, Whole
  <2>4. Bounded' /\ Tokens' /\ SemRoom'
    BY <1>1, <2>1, Bounds DEF Bounded, SemBound, Tokens, SemRoom
  <2>5. Cell'
    BY <1>1, <1>3, <2>1 DEF SemInv, Cell, Stored
  <2> QED BY <1>1, <1>3, <2>1, <2>3, <2>4, <2>5 DEF SemInv
<1>6. CASE ~Sem!Dangling(list.tail)
  <2>1. /\ got' = [got EXCEPT ![c] = list.tail]
        /\ live' = live \ {list.tail}
        /\ list' = PopTail(list)
        /\ buffer' = Tail(buffer)
        /\ ~corrupt' /\ corrupt' \in BOOLEAN
    BY <1>6 DEF Sem!GetTake, Sem!Free, Sem!PopTail, PopTail, SemInv, SemTyped
  <2>2. Linked(list, buffer) /\ list \in Lists(SemCells) /\ buffer \in Seq(SemCells)
        /\ Len(buffer) \in Nat
    BY DEF SemInv, Cell, SemTyped
  <2>3. Count(pc, Storing) + Len(buffer) <= SemLimit
        /\ Count(pc, Getting) <= Len(buffer)
    BY DEF SemInv, SemRoom
  <2>4. Len(buffer) > 0 /\ buffer # <<>>
    <3>1. Count(pc, Getting) \in Nat /\ Count(pc, Getting) > 0
      BY <1>1, <1>2, CountSome DEF Getting
    <3>2. Len(buffer) > 0
      BY <2>2, <2>3, <3>1
    <3> QED BY <3>2
  <2>5. live = Stored /\ list.tail = Head(buffer)
    BY <1>6, <2>4, EndFacts DEF Sem!Dangling, SemInv, Cell
  <2>6. PopTail(list) \in Lists(SemCells) /\ Linked(PopTail(list), Tail(buffer))
    BY <2>2, <2>4, PopLinked, SemPlaceFacts
  <2>7. /\ Tail(buffer) \in Seq(SemCells)
        /\ Len(Tail(buffer)) = Len(buffer) - 1
        /\ DOMAIN Tail(buffer) = 1 .. Len(buffer) - 1
        /\ DOMAIN buffer = 1 .. Len(buffer)
        /\ \A i \in 1 .. Len(buffer) - 1 : Tail(buffer)[i] = buffer[i + 1]
        /\ Head(buffer) = buffer[1] /\ buffer[1] \in SemCells
    BY <2>2, <2>4
  <2>8. Stored' = Stored \ {buffer[1]}
    <3> DEFINE n == Len(buffer)
    <3>1. \A i, j \in 1 .. n : buffer[i] = buffer[j] => i = j
      BY <2>2 DEF Linked, NoRepeat
    <3>2. Stored' = {buffer[i + 1] : i \in 1 .. n - 1}
      BY <2>1, <2>7 DEF Stored
    <3>3. Stored = {buffer[i] : i \in 1 .. n}
      BY <2>7 DEF Stored
    <3>4. \A i \in 1 .. n : i = 1 \/ (i - 1 \in 1 .. n - 1 /\ (i - 1) + 1 = i)
      BY <2>2
    <3>5. \A i \in 1 .. n - 1 : i + 1 \in 1 .. n /\ i + 1 # 1
      BY <2>2
    <3>6. 1 \in 1 .. n
      BY <2>2, <2>4
    <3>7. buffer[1] \notin Stored'
      BY <3>1, <3>2, <3>5, <3>6
    <3>8. Stored \subseteq Stored' \cup {buffer[1]}
      BY <3>2, <3>3, <3>4
    <3>9. Stored' \subseteq Stored
      BY <3>2, <3>3, <3>5
    <3> QED BY <3>7, <3>8, <3>9
  <2>9. Cell'
    <3>1. Linked(list', buffer') /\ live' = Stored'
      BY <2>1, <2>5, <2>6, <2>7, <2>8
    <3>2. ~(Freed' /\ caught' = {})
      BY <1>1, <1>3
    <3> QED BY <3>1, <3>2 DEF Cell
  <2>10. SemTyped'
    <3>1. got' \in [Consumers -> SemCells \cup {Nil}] /\ live' \subseteq SemCells
      BY <2>1, <2>5, <2>7 DEF SemInv, SemTyped
    <3> QED BY <1>1, <1>4, <2>1, <2>6, <2>7, <3>1, SemPlaceFacts DEF SemInv, SemTyped
  <2>11. Broken' /\ Bounded' /\ Whole'
    BY <2>1 DEF Broken, Bounded, Whole
  <2>12. /\ Count(pc', PutTokens) = Count(pc, PutTokens) + 1
         /\ Count(pc', GetTokens) = Count(pc, GetTokens) - 1
         /\ Count(pc', Storing) = Count(pc, Storing)
         /\ Count(pc', Getting) = Count(pc, Getting) - 1
         /\ Count(pc, PutTokens) \in Nat /\ Count(pc, GetTokens) \in Nat
         /\ Count(pc, Storing) \in Nat /\ Count(pc, Getting) \in Nat
    <3>1. /\ Moved(c, "getPost", PutTokens) /\ Moved(c, "getPost", GetTokens)
          /\ Moved(c, "getPost", Storing) /\ Moved(c, "getPost", Getting)
      BY <1>1, <1>2, Moves
    <3>2. /\ One("getPost", PutTokens) = 1 /\ One("getIn", PutTokens) = 0
          /\ One("getPost", GetTokens) = 0 /\ One("getIn", GetTokens) = 1
          /\ One("getPost", Storing) = 0 /\ One("getIn", Storing) = 0
          /\ One("getPost", Getting) = 0 /\ One("getIn", Getting) = 1
      BY DEF One, PutTokens, GetTokens, Storing, Getting
    <3> QED BY <1>1, <3>1, <3>2 DEF Moved
  <2>13. Tokens'
    <3>1. sem["put"] + Count(pc, PutTokens) + Len(buffer) = SemLimit + DropPut
      BY DEF SemInv, Tokens
    <3>2. sem["get"] + Count(pc, GetTokens) = Len(buffer) + DropGet
      BY DEF SemInv, Tokens
    <3>3. sem["put"] + Count(pc', PutTokens) + (Len(buffer) - 1) = SemLimit + DropPut
      <4> DEFINE x == sem["put"]
                 n == Count(pc, PutTokens)
                 n1 == Count(pc', PutTokens)
                 l == Len(buffer)
                 d == DropPut
      <4>1. /\ x \in Int /\ n \in Int /\ l \in Int /\ d \in Int /\ SemLimit \in Int
            /\ x + n + l = SemLimit + d /\ n1 = n + 1
        BY <1>3, <2>2, <2>12, <3>1, SemPlaceFacts
      <4> HIDE DEF x, n, n1, l, d
      <4>2. x + n1 + (l - 1) = SemLimit + d
        BY <4>1
      <4> QED BY <4>2 DEF x, n1, l, d
    <3>4. sem["get"] + Count(pc', GetTokens) = (Len(buffer) - 1) + DropGet
      <4> DEFINE x == sem["get"]
                 n == Count(pc, GetTokens)
                 n1 == Count(pc', GetTokens)
                 l == Len(buffer)
                 d == DropGet
      <4>1. /\ x \in Int /\ n \in Int /\ l \in Int /\ d \in Int
            /\ x + n = l + d /\ n1 = n - 1
        BY <1>3, <2>2, <2>12, <3>2
      <4> HIDE DEF x, n, n1, l, d
      <4>2. x + n1 = (l - 1) + d
        BY <4>1
      <4> QED BY <4>2 DEF x, n1, l, d
    <3> QED BY <1>1, <1>3, <2>1, <2>7, <3>3, <3>4 DEF Tokens
  <2>14. SemRoom'
    <3>1. Count(pc', Storing) + (Len(buffer) - 1) <= SemLimit
          /\ Count(pc', Getting) <= Len(buffer) - 1
      BY <2>2, <2>3, <2>12, SemPlaceFacts
    <3> QED BY <2>1, <2>7, <3>1 DEF SemRoom
  <2> QED BY <1>1, <1>3, <2>1, <2>4, <2>5, <2>9, <2>10, <2>11, <2>13, <2>14 DEF SemInv
<1> QED BY <1>5, <1>6

(* The walk frees every stored message; a thread that holds the mutex then *)
(* was caught.                                                             *)
LEMMA SemDropFreeInv ==
  ASSUME SemFits, SemInv, ~corrupt, Sem!DropFree
  PROVE  SemInv'
<1>1. /\ pc[Main] = "dropFree" /\ Sem!Goto(Main, "join")
      /\ corrupt' = (mutex # Nil)
      /\ live' = live \ Walked(list)
      /\ UNCHANGED <<mutex, sem, is_destroyed, list, buffer, got, caught>>
  BY DEF Sem!DropFree, Sem!Free, Sem!Walked, Walked
<1>2. Main \in Sem!Threads /\ "join" \in SemPlaces(Main)
  BY SemPlaceFacts
<1>3. /\ pc' \in [Sem!Threads -> Sem!Labels]
      /\ pc'[Main] = "join" /\ \A x \in Sem!Threads \ {Main} : pc'[x] = pc[x]
  BY <1>1, <1>2, Moves
<1>4. SemTyped'
  BY <1>1, <1>3 DEF SemInv, SemTyped
<1>5. SemPlaced' /\ SemHolder' /\ SemDropped'
  BY <1>1, <1>2, <1>3, SemPlaceFacts
     DEF SemInv, SemPlaced, SemPlaces, SemHolder, Held, SemDropped
<1>6. Sem!Inside' = Sem!Inside /\ is_destroyed
  BY <1>1, <1>3 DEF Sem!Inside, SemInv, SemDropped
<1>7. CaughtAll' /\ Broken'
  <2>1. mutex # Nil => mutex \in Sem!Inside
    BY DEF SemInv, SemTyped, SemHolder, Sem!Inside, Held
  <2> QED BY <1>1, <1>6, <2>1 DEF SemInv, CaughtAll, Broken
<1>8. ~Freed /\ Freed'
  BY <1>1, <1>3 DEF Freed
<1>9. Walked(list) = Stored
  <2>1. Walked(list) = {buffer[i] : i \in 1 .. Len(buffer)}
    BY WalkedLinked, SemPlaceFacts DEF SemInv, SemTyped, Cell
  <2>2. DOMAIN buffer = 1 .. Len(buffer)
    BY DEF SemInv, SemTyped
  <2> QED BY <2>1, <2>2 DEF Stored
<1>10. Cell' /\ Whole'
  BY <1>1, <1>8, <1>9 DEF SemInv, Cell, Stored, Whole
<1>11. Bounded'
  BY <1>1, Bounds DEF Bounded, SemBound
<1>12. /\ Count(pc', PutTokens) = Count(pc, PutTokens)
       /\ Count(pc', GetTokens) = Count(pc, GetTokens)
       /\ Count(pc', Storing) = Count(pc, Storing)
       /\ Count(pc', Getting) = Count(pc, Getting)
  <2>1. /\ Moved(Main, "join", PutTokens) /\ Moved(Main, "join", GetTokens)
        /\ Moved(Main, "join", Storing) /\ Moved(Main, "join", Getting)
    BY <1>1, <1>2, Moves
  <2>2. \A L \in {PutTokens, GetTokens, Storing, Getting} :
          One("join", L) = 0 /\ One("dropFree", L) = 0
    BY DEF One, PutTokens, GetTokens, Storing, Getting
  <2> QED BY <1>1, <2>1, <2>2 DEF Moved
<1>13. DropPut' = DropPut /\ DropGet' = DropGet
  BY <1>1, <1>3 DEF DropPut, DropGet
<1>14. Tokens' /\ SemRoom'
  BY <1>1, <1>12, <1>13 DEF SemInv, Tokens, SemRoom
<1> QED BY <1>4, <1>5, <1>7, <1>10, <1>11, <1>14 DEF SemInv

(* Every step keeps the invariant.                                         *)
LEMMA SemNextInv ==
  ASSUME SemFits, SemInv, [Sem!Next]_(Sem!vars)
  PROVE  SemInv'
<1>1. ASSUME ~corrupt, NEW p \in SemProducers, Sem!Producer(p) PROVE SemInv'
  <2>0. p \in Sem!Threads \ {Main}
        /\ SemPlaces(p) = {"put", "putTest", "putBack", "putLock", "putIn", "putPost",
                         "putLength", "exit"}
    BY SemPlaceFacts
  <2>1. CASE Sem!SemWait(p, "put", "put", "putTest")
    BY <1>1, <2>0, <2>1, WaitInv
  <2>2. CASE Sem!Test(p, "putTest", "putBack", "putLock")
    BY <1>1, <2>0, <2>2, TestInv
  <2>3. CASE Sem!SemPost(p, "put", "putBack", "exit")
    BY <1>1, <2>0, <2>3, PostInv
  <2>4. CASE Sem!Lock(p, "putLock", "putIn")
    BY <1>1, <2>0, <2>4, LockInv
  <2>5. CASE Sem!PutStore(p)
    BY <1>1, <2>5, SemStoreInv
  <2>6. CASE Sem!SemPost(p, "get", "putPost", "putLength")
    BY <1>1, <2>0, <2>6, PostInv
  <2>7. CASE Sem!PutLength(p)
    BY <1>1, <2>7, LengthInv
  <2> QED BY <1>1, <2>1, <2>2, <2>3, <2>4, <2>5, <2>6, <2>7 DEF Sem!Producer
<1>2. ASSUME ~corrupt, NEW c \in Consumers, Sem!Consumer(c) PROVE SemInv'
  <2>0. c \in Sem!Threads \ {Main}
        /\ SemPlaces(c) = {"get", "getTest", "getBack", "getLock", "getIn", "getPost",
                         "exit"}
    BY SemPlaceFacts
  <2>1. CASE Sem!SemWait(c, "get", "get", "getTest")
    BY <1>2, <2>0, <2>1, WaitInv
  <2>2. CASE Sem!GetTest(c)
    BY <1>2, <2>0, <2>2, TestInv DEF Sem!GetTest
  <2>3. CASE Sem!GetBack(c)
    BY <1>2, <2>0, <2>3, PostInv DEF Sem!GetBack
  <2>4. CASE Sem!Lock(c, "getLock", "getIn")
    BY <1>2, <2>0, <2>4, LockInv
  <2>5. CASE Sem!GetTake(c)
    BY <1>2, <2>5, SemTakeInv
  <2>6. CASE Sem!SemPost(c, "put", "getPost", "get")
    BY <1>2, <2>0, <2>6, PostInv
  <2> QED BY <1>2, <2>1, <2>2, <2>3, <2>4, <2>5, <2>6 DEF Sem!Consumer
<1>3. CASE ~corrupt /\ Sem!MainThread
  <2>0. Main \in Sem!Threads
        /\ SemPlaces(Main) = {"run", "dropPut", "dropGet", "dropFree", "join", "destroy",
                            "done"}
    BY SemPlaceFacts
  <2>1. CASE Sem!SemPost(Main, "put", "dropPut", "dropGet")
    BY <1>3, <2>0, <2>1, PostInv
  <2>2. CASE Sem!SemPost(Main, "get", "dropGet", "dropFree")
    BY <1>3, <2>0, <2>2, PostInv
  <2> QED BY <1>3, <2>1, <2>2, MainQuietInv, SemDropFreeInv DEF Sem!MainThread
<1>4. CASE UNCHANGED Sem!vars
  <2> USE <1>4 DEF Sem!vars
  <2>1. /\ SemTyped' /\ SemPlaced' /\ SemHolder' /\ SemDropped'
        /\ CaughtAll' /\ Broken' /\ Bounded'
    BY DEF SemInv, SemTyped, SemPlaced, SemHolder, SemDropped, CaughtAll, Sem!Inside,
           Broken, Bounded, SemBound
  <2>2. Tokens' /\ SemRoom' /\ Cell' /\ Whole'
    BY DEF SemInv, Tokens, DropPut, DropGet, SemRoom, Count, Cell, Stored, Freed, Whole
  <2> QED BY <2>1, <2>2 DEF SemInv
<1> QED BY <1>1, <1>2, <1>3, <1>4 DEF Sem!Next, Sem!Ended

(* The messages to measure are cells, or freed by now.                     *)
LEMMA MeasuredNext ==
  ASSUME SemFits, SemInv, Measured, [Sem!Next]_(Sem!vars)
  PROVE  Measured'
<1>1. list.tail \in SemCells \cup {Nil}
  BY DEF SemInv, SemTyped, Lists
<1>2. ASSUME NEW cells, Sem!Free(cells), UNCHANGED overread PROVE Measured'
  <2>1. new_message' = [q \in SemProducers |-> IF new_message[q] \in cells THEN Nil
                                                                  ELSE new_message[q]]
    BY <1>2 DEF Sem!Free
  <2> QED BY <1>2, <2>1 DEF Measured
<1>3. CASE UNCHANGED <<new_message, overread>>
  BY <1>3 DEF Measured
<1>4. ASSUME NEW p \in SemProducers, Sem!Producer(p) PROVE Measured'
  <2>1. CASE Sem!PutStore(p)
    <3>1. overread' = overread
          /\ \/ UNCHANGED new_message
             \/ \E m \in SemCells : new_message' = [new_message EXCEPT ![p] = m]
      BY <2>1 DEF Sem!PutStore
    <3> QED BY <3>1 DEF Measured
  <2>2. CASE Sem!PutLength(p)
    <3>1. /\ overread' \in {overread, TRUE}
          /\ new_message' = [new_message EXCEPT ![p] = Nil]
      BY <2>2 DEF Sem!PutLength
    <3> QED BY <3>1 DEF Measured
  <2>3. CASE ~Sem!PutStore(p) /\ ~Sem!PutLength(p)
    BY <1>3, <1>4, <2>3
       DEF Sem!Producer, Sem!SemWait, Sem!Test, Sem!SemPost, Sem!Lock, Sem!dataVars
  <2> QED BY <2>1, <2>2, <2>3
<1>5. ASSUME NEW c \in Consumers, Sem!Consumer(c) PROVE Measured'
  <2>1. CASE Sem!GetTake(c)
    <3>1. \/ UNCHANGED <<new_message, overread>>
          \/ Sem!Free({list.tail}) /\ UNCHANGED overread
      BY <2>1 DEF Sem!GetTake
    <3> QED BY <1>2, <1>3, <3>1
  <2>2. CASE ~Sem!GetTake(c)
    BY <1>3, <1>5, <2>2
       DEF Sem!Consumer, Sem!SemWait, Sem!GetTest, Sem!Test, Sem!GetBack, Sem!SemPost,
           Sem!Lock, Sem!dataVars
  <2> QED BY <2>1, <2>2
<1>6. CASE Sem!MainThread
  <2>1. CASE Sem!DropFree
    <3>1. Sem!Free(Sem!Walked(list)) /\ UNCHANGED overread
      BY <2>1 DEF Sem!DropFree
    <3> QED BY <1>2, <3>1
  <2>2. CASE ~Sem!DropFree
    BY <1>3, <1>6, <2>2
       DEF Sem!MainThread, Sem!DropRaise, Sem!SemPost, Sem!Join, Sem!Destroy, Sem!dataVars
  <2> QED BY <2>1, <2>2
<1>7. CASE UNCHANGED Sem!vars
  BY <1>3, <1>7 DEF Sem!vars
<1> QED BY <1>4, <1>5, <1>6, <1>7 DEF Sem!Next

(* The assumptions of the harness, for this build.                         *)
LEMMA SemAssumptions == SemFits
<1>1. IsFiniteSet(Sem!Threads)
  <2>1. IsFiniteSet(SemProducers \cup Consumers)
    BY ThreadsFinite, FS_Union
  <2> QED BY <2>1, FS_Union, FS_Singleton DEF Sem!Threads
<1> QED BY <1>1, ThreadsDiffer, LimitsPositive DEF SemFits, Sem!Threads

(* The invariant holds of every behaviour of the build.                    *)
LEMMA SemInvariance == Sem!Spec => [](SemInv /\ Measured)
<1>1. Sem!Init => SemInv /\ Measured
  BY SemAssumptions, SemInitInv DEF Sem!Init, Measured
<1>2. SemInv /\ Measured /\ [Sem!Next]_(Sem!vars) => (SemInv /\ Measured)'
  BY SemAssumptions, SemNextInv, MeasuredNext
<1> QED BY <1>1, <1>2, PTL DEF Sem!Spec

(* The types, with the bound on the semaphores.                            *)
LEMMA SemTypesFromInv ==
  ASSUME SemFits, SemInv, Measured
  PROVE  Sem!TypeOK
<1>1. sem \in [{"put", "get"} -> 0 .. SemLimit + 1]
  <2>1. SemBound /\ sem \in [{"put", "get"} -> Nat] /\ SemLimit \in Nat
    BY Bounds, SemPlaceFacts DEF SemInv, SemTyped
  <2>2. \A s \in {"put", "get"} : sem[s] \in 0 .. SemLimit + 1
    BY <2>1 DEF SemBound
  <2> QED BY <2>1, <2>2
<1> QED BY <1>1 DEF SemInv, SemTyped, Measured, Sem!TypeOK, Sem!Lists, Lists

(* What the invariant says of the list and its cells.                      *)
LEMMA SemIntactFromInv ==
  ASSUME SemFits, SemInv
  PROVE  Sem!IntactUnlessCaught
<1>1. pc[Main] \notin {"join", "destroy", "done"} => Linked(list, buffer) /\ live = Stored
  BY DEF SemInv, Cell, Freed
<1>2. pc[Main] = "done" /\ caught = {} => live = {}
  BY DEF SemInv, Cell, Freed
<1> QED BY <1>1, <1>2 DEF SemInv, Broken, Stored, Sem!IntactUnlessCaught,
       Sem!Linked, Linked, Sem!Ends, Ends, Sem!Chained, Chained, Sem!NoRepeat, NoRepeat

(* No semaphore exceeds what it began with by more than the drop's token.  *)
THEOREM SemTypeCorrect == Sem!Spec => []Sem!TypeOK
<1>1. SemInv /\ Measured => Sem!TypeOK
  BY SemAssumptions, SemTypesFromInv
<1> QED BY <1>1, SemInvariance, PTL

(* A put, get or drop works on a list with freed nodes only if a thread    *)
(* was past its test of is_destroyed when main raised it; without one the  *)
(* drop frees all.  The measure of a message that was put is another       *)
(* matter: what it may read of a freed node is overread, not corrupt.      *)
THEOREM SemIntactCorrect == Sem!Spec => []Sem!IntactUnlessCaught
<1>1. SemInv => Sem!IntactUnlessCaught
  BY SemAssumptions, SemIntactFromInv
<1> QED BY <1>1, SemInvariance, PTL

(* The bounded FIFO; it closes when the last operation that was past its   *)
(* test has ended.                                                         *)
TokenFifo == INSTANCE BoundedFifo
          WITH Messages <- SemCells, Limit <- SemLimit, Nothing <- Nil,
               stored <- buffer, got <- got,
               open <- ~is_destroyed \/ Sem!Busy # {}

(* Where a thread is past its test and not yet through its last post.      *)
BusyPlaces == {"putLock", "putIn", "putPost", "getLock", "getIn", "getPost"}

(* A step of one thread that does not pass the test there adds no thread   *)
(* to those at work.                                                       *)
LEMMA BusyKept ==
  ASSUME SemFits, SemInv, NEW t \in Sem!Threads, NEW to, Sem!Goto(t, to),
         to \in BusyPlaces => pc[t] \in BusyPlaces
  PROVE  Sem!Busy' \subseteq Sem!Busy
<1>1. pc \in [Sem!Threads -> Sem!Labels]
  BY DEF SemInv, SemTyped
<1>2. pc' = [pc EXCEPT ![t] = to]
  BY DEF Sem!Goto
<1>3. Sem!Busy = {u \in Sem!Threads : pc[u] \in BusyPlaces}
  BY DEF Sem!Busy, Sem!Inside, BusyPlaces
<1>4. Sem!Busy' = {u \in Sem!Threads : pc'[u] \in BusyPlaces}
  BY DEF Sem!Busy, Sem!Inside, BusyPlaces
<1>5. ASSUME NEW u \in Sem!Threads, pc'[u] \in BusyPlaces PROVE pc[u] \in BusyPlaces
  <2>1. CASE u = t
    BY <1>1, <1>2, <1>5, <2>1
  <2>2. CASE u # t
    BY <1>1, <1>2, <1>5, <2>2
  <2> QED BY <2>1, <2>2
<1> QED BY <1>3, <1>4, <1>5

(* A step that stores and takes nothing, and opens nothing, stutters or    *)
(* closes the FIFO.                                                        *)
LEMMA StutterOrClose ==
  ASSUME UNCHANGED <<buffer, got>>,
         ~is_destroyed' \/ Sem!Busy' # {} => ~is_destroyed \/ Sem!Busy # {}
  PROVE  [TokenFifo!Next]_(TokenFifo!fifoVars)
<1>1. CASE (~is_destroyed \/ Sem!Busy # {}) /\ ~(~is_destroyed' \/ Sem!Busy' # {})
  <2>1. TokenFifo!Close
    BY <1>1 DEF TokenFifo!Close
  <2> QED BY <2>1 DEF TokenFifo!Next
<1>2. CASE ~is_destroyed \/ Sem!Busy # {} <=> ~is_destroyed' \/ Sem!Busy' # {}
  BY <1>2 DEF TokenFifo!fifoVars
<1> QED BY <1>1, <1>2

(* A put or get past its test is the FIFO's, and the last one closes it.   *)
LEMMA SemStepsAreFifo ==
  ASSUME SemFits, SemInv, [Sem!Next]_(Sem!vars)
  PROVE  [TokenFifo!Next]_(TokenFifo!fifoVars)
<1>1. ASSUME NEW t \in Sem!Threads, NEW to, Sem!Goto(t, to),
             to \in BusyPlaces => pc[t] \in BusyPlaces,
             UNCHANGED <<buffer, got>>, is_destroyed => is_destroyed'
      PROVE  [TokenFifo!Next]_(TokenFifo!fifoVars)
  BY <1>1, BusyKept, StutterOrClose
<1>2. ASSUME NEW t \in Sem!Threads, NEW from, NEW refused, NEW go,
             Sem!Test(t, from, refused, go), refused \notin BusyPlaces
      PROVE  [TokenFifo!Next]_(TokenFifo!fifoVars)
  <2>1. CASE is_destroyed
    BY <1>1, <1>2, <2>1 DEF Sem!Test, Sem!dataVars
  <2>2. CASE ~is_destroyed
    BY <1>2, <2>2, StutterOrClose DEF Sem!Test, Sem!dataVars
  <2> QED BY <2>1, <2>2
<1>3. ASSUME NEW p \in SemProducers, ~corrupt, Sem!PutStore(p)
      PROVE  [TokenFifo!Next]_(TokenFifo!fifoVars)
  <2>1. /\ Sem!Goto(p, "putPost") /\ UNCHANGED <<is_destroyed, got>>
        /\ pc[p] = "putIn" /\ p \in Sem!Threads
    BY <1>3 DEF Sem!PutStore, Sem!Threads
  <2>2. CASE UNCHANGED buffer
    BY <1>1, <2>1, <2>2 DEF BusyPlaces
  <2>3. CASE /\ Len(buffer) < SemLimit
             /\ \E m \in SemCells : buffer' = Append(buffer, m)
    <3>1. p \in Sem!Busy /\ p \in Sem!Busy'
      BY <2>1 DEF Sem!Busy, Sem!Inside, Sem!Goto, SemInv, SemTyped
    <3>2. \E m \in SemCells : TokenFifo!Put(m)
      BY <2>1, <2>3, <3>1 DEF TokenFifo!Put
    <3> QED BY <3>2 DEF TokenFifo!Next
  <2> QED BY <1>3, <2>2, <2>3, SemStoreInv
<1>4. ASSUME NEW c \in Consumers, ~corrupt, Sem!GetTake(c)
      PROVE  [TokenFifo!Next]_(TokenFifo!fifoVars)
  <2>1. /\ Sem!Goto(c, "getPost") /\ UNCHANGED is_destroyed
        /\ pc[c] = "getIn" /\ c \in Sem!Threads
    BY <1>4 DEF Sem!GetTake, Sem!Threads
  <2>2. CASE UNCHANGED <<buffer, got>>
    BY <1>1, <2>1, <2>2 DEF BusyPlaces
  <2>3. CASE /\ buffer # <<>> /\ buffer' = Tail(buffer)
             /\ got' = [got EXCEPT ![c] = Head(buffer)]
    <3>1. c \in Sem!Busy /\ c \in Sem!Busy'
      BY <2>1 DEF Sem!Busy, Sem!Inside, Sem!Goto, SemInv, SemTyped
    <3>2. TokenFifo!Get(c)
      BY <2>1, <2>3, <3>1 DEF TokenFifo!Get
    <3> QED BY <3>2 DEF TokenFifo!Next
  <2> QED BY <1>4, <2>2, <2>3, SemTakeInv
<1>5. ASSUME NEW p \in SemProducers, ~corrupt, Sem!Producer(p), ~Sem!PutStore(p)
      PROVE  [TokenFifo!Next]_(TokenFifo!fifoVars)
  <2>1. p \in Sem!Threads
    BY DEF Sem!Threads
  <2>2. CASE Sem!Test(p, "putTest", "putBack", "putLock")
    BY <1>2, <2>1, <2>2 DEF BusyPlaces
  <2>3. CASE Sem!PutLength(p)
    <3>1. /\ Sem!Goto(p, "put") \/ (UNCHANGED pc /\ pc[p] = "putLength")
          /\ UNCHANGED <<buffer, got, is_destroyed>>
      BY <2>3 DEF Sem!PutLength, Sem!Message_Queue
    <3>2. PICK to \in {"put", "putLength"} : Sem!Goto(p, to)
      BY <3>1 DEF Sem!Goto, SemInv, SemTyped
    <3>3. to \notin BusyPlaces
      BY DEF BusyPlaces
    <3> QED BY <1>1, <2>1, <3>1, <3>2, <3>3
  <2>4. CASE ~Sem!Test(p, "putTest", "putBack", "putLock") /\ ~Sem!PutLength(p)
    <3>1. \E to : /\ Sem!Goto(p, to)
                  /\ to \in BusyPlaces => pc[p] \in BusyPlaces
                  /\ UNCHANGED <<buffer, got, is_destroyed>>
      BY <1>5, <2>4
         DEF Sem!Producer, Sem!SemWait, Sem!SemPost, Sem!Lock, Sem!dataVars, BusyPlaces
    <3> QED BY <1>1, <2>1, <3>1
  <2> QED BY <2>2, <2>3, <2>4
<1>6. ASSUME NEW c \in Consumers, ~corrupt, Sem!Consumer(c), ~Sem!GetTake(c)
      PROVE  [TokenFifo!Next]_(TokenFifo!fifoVars)
  <2>1. c \in Sem!Threads
    BY DEF Sem!Threads
  <2>2. CASE Sem!GetTest(c)
    BY <1>2, <2>1, <2>2 DEF Sem!GetTest, BusyPlaces
  <2>3. CASE ~Sem!GetTest(c)
    <3>1. \E to : /\ Sem!Goto(c, to)
                  /\ to \in BusyPlaces => pc[c] \in BusyPlaces
                  /\ UNCHANGED <<buffer, got, is_destroyed>>
      BY <1>6, <2>3
         DEF Sem!Consumer, Sem!GetBack, Sem!SemWait, Sem!SemPost, Sem!Lock, Sem!dataVars,
             BusyPlaces
    <3> QED BY <1>1, <2>1, <3>1
  <2> QED BY <2>2, <2>3
<1>7. CASE Sem!MainThread
  <2>1. Main \in Sem!Threads
    BY DEF Sem!Threads
  <2>2. \E to : /\ Sem!Goto(Main, to) /\ to \notin BusyPlaces
                /\ UNCHANGED <<buffer, got>>
                /\ is_destroyed => is_destroyed'
    BY <1>7 DEF Sem!MainThread, Sem!DropRaise, Sem!SemPost, Sem!DropFree, Sem!Join,
                Sem!Destroy, Sem!dataVars, BusyPlaces
  <2> QED BY <1>1, <2>1, <2>2
<1>8. CASE UNCHANGED Sem!vars
  <2>1. UNCHANGED <<buffer, got, is_destroyed, pc>>
    BY <1>8 DEF Sem!vars
  <2>2. Sem!Busy' = Sem!Busy
    BY <2>1 DEF Sem!Busy, Sem!Inside
  <2> QED BY <2>1, <2>2 DEF TokenFifo!fifoVars
<1> QED BY <1>3, <1>4, <1>5, <1>6, <1>7, <1>8 DEF Sem!Next, Sem!Ended

(* Each put and get of the code is one step of the bounded FIFO, as long   *)
(* as the process does not end in the use of a freed node.                 *)
THEOREM SemRefinement == Sem!Spec => TokenFifo!Spec
<1>1. Sem!Init => TokenFifo!Init
  BY DEF Sem!Init, TokenFifo!Init
<1>2. SemInv /\ [Sem!Next]_(Sem!vars) => [TokenFifo!Next]_(TokenFifo!fifoVars)
  BY SemAssumptions, SemStepsAreFifo
<1> QED BY <1>1, <1>2, SemInvariance, PTL DEF Sem!Spec, TokenFifo!Spec
-----------------------------------------------------------------------------
(* The harness: whichever build runs, its own invariant holds.             *)
Inv ==
  /\ build \in {"cond", "sem"}
  /\ build = "cond" => IInv
  /\ build = "sem" => SemInv /\ Measured

-----------------------------------------------------------------------------
(* A step of the harness is one of the build that runs.                    *)
LEMMA StepOfBuild ==
  ASSUME Inv, [EitherNext]_eitherVars
  PROVE  /\ build' = build
         /\ build = "cond" => [Next]_vars /\ UNCHANGED semOnly
         /\ build = "sem" => [Sem!Next]_(Sem!vars) /\ UNCHANGED condOnly
<1>1. CASE UNCHANGED eitherVars
  BY <1>1 DEF eitherVars, condOnly, semOnly, vars, Sem!vars
<1>2. ASSUME NEW p \in Producers, EitherProducer(p)
      PROVE  /\ build' = build
             /\ build = "cond" => Next /\ UNCHANGED semOnly
             /\ build = "sem" => Sem!Next /\ UNCHANGED condOnly
  BY <1>2 DEF EitherProducer, OnCond, OnSem, Next, Sem!Next
<1>3. ASSUME NEW c \in Consumers, EitherConsumer(c)
      PROVE  /\ build' = build
             /\ build = "cond" => Next /\ UNCHANGED semOnly
             /\ build = "sem" => Sem!Next /\ UNCHANGED condOnly
  BY <1>3 DEF EitherConsumer, OnCond, OnSem, Next, Sem!Next
<1>4. ASSUME EitherMain
      PROVE  /\ build' = build
             /\ build = "cond" => Next /\ UNCHANGED semOnly
             /\ build = "sem" => Sem!Next /\ UNCHANGED condOnly
  BY <1>4 DEF EitherMain, OnCond, OnSem, Next, Sem!Next
<1>5. ASSUME NEW t \in Producers \cup Consumers, CondWakeup(t)
      PROVE  /\ build' = build
             /\ build = "cond" => Next /\ UNCHANGED semOnly
             /\ build = "sem" => Sem!Next /\ UNCHANGED condOnly
  <2>1. t \in Threads
    BY DEF Threads
  <2> QED BY <1>5, <2>1 DEF CondWakeup, OnCond, Next
<1> QED BY <1>1, <1>2, <1>3, <1>4, <1>5 DEF EitherNext

(* The invariant of the build that runs holds of the harness.              *)
LEMMA Invariance == EitherSpec => []Inv
<1>1. EitherInit => Inv
  <2>1. ASSUME build = "cond", Init PROVE Inv
    BY <2>1, CondFits, InitInv DEF Inv
  <2>2. ASSUME build = "sem", Sem!Init PROVE Inv
    BY <2>2, SemAssumptions, SemInitInv DEF Inv, Sem!Init, Measured
  <2> QED BY <2>1, <2>2 DEF EitherInit
<1>2. Inv /\ [EitherNext]_eitherVars => Inv'
  <2> SUFFICES ASSUME Inv, [EitherNext]_eitherVars PROVE Inv'
    OBVIOUS
  <2>1. CASE build = "cond"
    <3>1. IInv'
      BY <2>1, StepOfBuild, CondFits, NextInv DEF Inv
    <3> QED BY <2>1, <3>1, StepOfBuild DEF Inv
  <2>2. CASE build = "sem"
    <3>1. SemInv' /\ Measured'
      BY <2>2, StepOfBuild, SemAssumptions, SemNextInv, MeasuredNext DEF Inv
    <3> QED BY <2>2, <3>1, StepOfBuild DEF Inv
  <2> QED BY <2>1, <2>2 DEF Inv
<1> QED BY <1>1, <1>2, PTL DEF EitherSpec
-----------------------------------------------------------------------------
(* The variables of either build keep their types and bounds.              *)
THEOREM TypeCorrect == EitherSpec => []EitherTypeOK
<1>1. Inv => EitherTypeOK
  <2>1. IInv => TypeOK
    BY DEF IInv
  <2>2. SemInv /\ Measured => Sem!TypeOK
    BY SemAssumptions, SemTypesFromInv
  <2> QED BY <2>1, <2>2 DEF Inv, EitherTypeOK
<1> QED BY <1>1, Invariance, PTL

(* On the condition variable every allocated cell has one owner, although  *)
(* drop raises is_destroyed and frees the list while threads are inside.   *)
THEOREM OwnersCorrect == EitherSpec => []OneOwnerOnCond
<1>1. Inv => OneOwnerOnCond
  BY CondFits, OwnersFromInv DEF Inv, OneOwnerOnCond
<1> QED BY <1>1, Invariance, PTL

(* On semaphores a put, get or drop works on a list with freed nodes only  *)
(* if a thread was past its test of is_destroyed when main raised it; what *)
(* a put may read of a freed node when it measures its message is not of   *)
(* the list, and ends the process as overread.                             *)
THEOREM IntactCorrect == EitherSpec => []IntactUnlessCaught
<1>1. Inv => IntactUnlessCaught
  BY SemAssumptions, SemIntactFromInv DEF Inv, IntactUnlessCaught
<1> QED BY <1>1, Invariance, PTL

(* A step is one of the FIFO of the build that runs, or a stutter.         *)
LEMMA StepsAreFifo ==
  ASSUME Inv, [EitherNext]_eitherVars
  PROVE  [CondFifo!Next]_(CondFifo!fifoVars) /\ [SemFifo!Next]_(SemFifo!fifoVars)
<1>1. CASE build = "cond"
  <2>1. build' = "cond"
    BY <1>1, StepOfBuild
  <2>2. [Fifo!Next]_(Fifo!fifoVars)
    BY <1>1, CondFits, StepOfBuild, CondStepsAreFifo DEF Inv
  <2>3. [CondFifo!Next]_(CondFifo!fifoVars)
    BY <1>1, <2>1, <2>2
       DEF Fifo!Next, Fifo!Put, Fifo!Get, Fifo!Close, Fifo!fifoVars,
           CondFifo!Next, CondFifo!Put, CondFifo!Get, CondFifo!Close,
           CondFifo!fifoVars
  <2>4. UNCHANGED SemFifo!fifoVars
    BY <1>1, <2>1 DEF SemFifo!fifoVars
  <2> QED BY <2>3, <2>4
<1>2. CASE build = "sem"
  <2>1. build' = "sem"
    BY <1>2, StepOfBuild
  <2>2. [TokenFifo!Next]_(TokenFifo!fifoVars)
    BY <1>2, SemAssumptions, StepOfBuild, SemStepsAreFifo DEF Inv
  <2>3. [SemFifo!Next]_(SemFifo!fifoVars)
    BY <1>2, <2>1, <2>2
       DEF TokenFifo!Next, TokenFifo!Put, TokenFifo!Get, TokenFifo!Close,
           TokenFifo!fifoVars,
           SemFifo!Next, SemFifo!Put, SemFifo!Get, SemFifo!Close,
           SemFifo!fifoVars
  <2>4. UNCHANGED CondFifo!fifoVars
    BY <1>2, <2>1 DEF CondFifo!fifoVars
  <2> QED BY <2>3, <2>4
<1> QED BY <1>1, <1>2 DEF Inv

(* Whichever build runs, each put and get is one step of a bounded FIFO.   *)
THEOREM FifoCorrect == EitherSpec => ImplementsFifo
<1>1. EitherInit => CondFifo!Init /\ SemFifo!Init
  BY DEF EitherInit, Init, Sem!Init, CondFifo!Init, SemFifo!Init
<1>2. Inv /\ [EitherNext]_eitherVars =>
        [CondFifo!Next]_(CondFifo!fifoVars) /\ [SemFifo!Next]_(SemFifo!fifoVars)
  BY StepsAreFifo
<1> QED BY <1>1, <1>2, Invariance, PTL
       DEF EitherSpec, ImplementsFifo, CondFifo!Spec, SemFifo!Spec
=============================================================================
