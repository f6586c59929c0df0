---------------------------- MODULE ProxyProofs -----------------------------
(***************************************************************************)
(* The proxy of Lab31, for any workers, clients, sizes and traffic: the    *)
(* count of connections is exact; and unless two workers were in           *)
(* searchCache at once, a valid entry holds the whole response, clients    *)
(* are sent prefixes of it, and who waits on an entry is cared for.        *)
(*                                                                         *)
(* A handler puts back the connection it served, drops it, or ends the     *)
(* process with a fault; what it does to the cache is one of a few things. *)
(* The Shape lemmas say so of each handler, so that the parts of the       *)
(* invariant need to be kept by these few: Types (with Placed, what a      *)
(* worker's place says), Counted, Claimable (one worker at a time in       *)
(* searchCache, no URL in two entries), Data (an entry has one writer, and *)
(* holds what that received) and Care (the writer of an entry that others  *)
(* wait for still writes it).                                              *)
(***************************************************************************)
EXTENDS Proxy, FiniteSetTheorems, SequenceTheorems, WellFoundedInduction, TLAPS

Reading == {"RESPONDING_FROM_CACHE", "WAITING_DATA_ON_CACHE"}
Statuses == Writing \cup Reading \cup {"GETTING_REQUEST"}
Sending == {"blocked", "copy", "send"}
Busy == {"serve"} \cup Claiming \cup Sending
Labels == {"none", "top", "asleep", "poll"} \cup Busy

(* A connection that reads from the cache has an entry, one that gets its  *)
(* request has received nothing, and one that has received knows of what   *)
(* kind the response is.                                                   *)
Conn ==
  {c \in [client : Clients, status : Statuses, buffer : Int,
          cacheIndex : Entries \cup {Nil}, cacheBytesWritten : Nat, units : Nat,
          kind : Kinds \cup {Nil}] :
     /\ c.status \in Reading => c.cacheIndex \in Entries
     /\ c.status = "GETTING_REQUEST" => c.units = 0
     /\ c.units > 0 => c.kind \in Kinds}

Entry == [status : {"UNUSED", "DOWNLOADING", "VALID", "INVALID"},
          writerId : Workers \cup {Nil}, url : Urls \cup {Nil},
          data : Seq((Urls \cup {Nil}) \X Nat), memory : {"null", "alloc", "freed"},
          alreadyWritten : Nat, allSize : Nat]

CacheTypes ==
  /\ loaded \in [Workers -> Nat] /\ copied \in [Workers -> Entry]
  /\ cacheSize \in Nat /\ cache \in [Entries -> Entry]
  /\ raced \in BOOLEAN /\ misled \in BOOLEAN /\ reclaimed \in SUBSET Entries

QueueTypes ==
  /\ MAX_CACHE_SIZE \in Nat /\ wants \in [Clients -> Urls \cup {Nil}]
  /\ queue \in Seq(Clients)

WorkerTypes ==
  /\ allConnectionsCount \in Int
  /\ pc \in [Workers -> Labels]
  /\ todo \in [Workers -> SUBSET Nat]
  /\ connections \in [Workers -> Seq(Conn)]
  /\ abandoned \in SUBSET Entries

(* What a worker has to do is about connections it has, and the one it is  *)
(* at is in the state its place asks for.                                  *)
Placed(w) ==
  /\ todo[w] \subseteq 1 .. Own(w)
  /\ pc[w] \in Busy => todo[w] # {}
  /\ pc[w] = "reclaim" => EntryOf(w) \in Entries
  /\ pc[w] \in Claiming => Connection(w).status = "GETTING_REQUEST"
  /\ pc[w] \in Sending => Connection(w).status = "RESPONDING_FROM_CACHE"
  /\ w \in blocked => pc[w] = "blocked"

Places == WorkerTypes /\ \A w \in Workers : Placed(w)

Types == QueueTypes /\ CacheTypes /\ Places
-----------------------------------------------------------------------------
(* Numbers up to a bound have a least one among them.                      *)
LEMMA LeastOf ==
  ASSUME NEW n \in Nat, NEW S \in SUBSET (1 .. n), S # {}
  PROVE  \E i \in S : \A j \in S : i <= j
<1> DEFINE Lower == {1 .. i : i \in S}
           R == StrictSubsetOrdering(1 .. n)
<1>0. IsFiniteSet(1 .. n)
  BY FS_Interval
<1>1. IsWellFoundedOn(R, SUBSET (1 .. n))
  BY <1>0, FS_StrictSubsetOrderingWellFounded, FS_FiniteSubsetsOfFinite
<1>2. Lower \subseteq SUBSET (1 .. n) /\ Lower # {}
  <2>1. \A i \in S : 1 .. i \subseteq 1 .. n
    OBVIOUS
  <2> QED BY <2>1
<1>3. \E x \in Lower : \A y \in Lower : <<y, x>> \notin R
  <2> HIDE DEF Lower, R
  <2> QED BY <1>1, <1>2, WFMin
<1>4. PICK i \in S : \A y \in Lower : <<y, 1 .. i>> \notin R
  BY <1>3
<1>5. ASSUME NEW j \in S, ~(i <= j) PROVE FALSE
  <2>1. /\ 1 .. j \in Lower /\ 1 .. j \subseteq 1 .. i
        /\ i \in 1 .. i /\ i \notin 1 .. j
    BY <1>4, <1>5
  <2>2. <<1 .. j, 1 .. i>> \in R
    BY <1>2, <1>4, <2>1 DEF StrictSubsetOrdering
  <2> QED BY <1>4, <2>1, <2>2
<1> QED BY <1>5

(* The number of the connection a worker is at is one it still has to do,  *)
(* and depends on nothing else.                                            *)
LEMMA ServingIn ==
  ASSUME NEW w \in Workers, NEW n \in Nat, todo[w] \subseteq 1 .. n, todo[w] # {}
  PROVE  Serving(w) \in todo[w]
<1>1. \E i \in todo[w] : \A j \in todo[w] : i <= j
  BY LeastOf
<1> QED BY <1>1 DEF Serving

(* What another worker does leaves the connection a worker is at alone.    *)
LEMMA SameServing ==
  ASSUME NEW w \in Workers, todo'[w] = todo[w], connections'[w] = connections[w]
  PROVE  /\ Own(w)' = Own(w) /\ Serving(w)' = Serving(w)
         /\ Connection(w)' = Connection(w) /\ EntryOf(w)' = EntryOf(w)
BY DEF Own, Serving, Connection, EntryOf

(* The array without the connection at i: the last one is in its place.    *)
LEMMA MovedFacts ==
  ASSUME NEW S, NEW s \in Seq(S), NEW i \in 1 .. Len(s)
  PROVE  /\ Moved(s, i) \in Seq(S) /\ Len(Moved(s, i)) = Len(s) - 1
         /\ \A k \in 1 .. Len(s) - 1 :
              Moved(s, i)[k] = s[IF k = i THEN Len(s) ELSE k]
<1> DEFINE t == [s EXCEPT ![i] = s[Len(s)]]
<1>1. Len(s) \in Nat /\ Len(s) \in 1 .. Len(s) /\ i \in Nat
  BY LenProperties
<1>2. s[Len(s)] \in S
  BY <1>1, ElementOfSeq
<1>3. /\ t \in Seq(S) /\ Len(t) = Len(s)
      /\ \A j \in 1 .. Len(s) : t[j] = IF j = i THEN s[Len(s)] ELSE s[j]
  BY <1>2, ExceptSeq
<1>4. \A j \in 1 .. Len(s) - 1 : t[j] \in S
  BY <1>1, <1>3, ElementOfSeq
<1> HIDE DEF t
<1>5. /\ SubSeq(t, 1, Len(s) - 1) \in Seq(S)
      /\ Len(SubSeq(t, 1, Len(s) - 1)) = IF 1 <= Len(s) - 1 THEN Len(s) - 1 - 1 + 1 ELSE 0
      /\ \A j \in 1 .. Len(s) - 1 - 1 + 1 : SubSeq(t, 1, Len(s) - 1)[j] = t[1 + j - 1]
  BY <1>1, <1>4, SubSeqProperties
<1>6. Moved(s, i) = SubSeq(t, 1, Len(s) - 1)
  BY DEF Moved, t
<1>7. \A k \in 1 .. Len(s) - 1 : /\ k \in 1 .. Len(s) - 1 - 1 + 1 /\ 1 + k - 1 = k
                                 /\ k \in 1 .. Len(s)
  BY <1>1
<1>8. \A k \in 1 .. Len(s) - 1 : Moved(s, i)[k] = s[IF k = i THEN Len(s) ELSE k]
  BY <1>3, <1>5, <1>6, <1>7
<1>9. Len(Moved(s, i)) = Len(s) - 1
  <2>1. Len(Moved(s, i)) = IF 1 <= Len(s) - 1 THEN Len(s) - 1 - 1 + 1 ELSE 0
    BY <1>5, <1>6, Zenon
  <2>2. \A n \in Nat : n # 0 => (IF 1 <= n - 1 THEN n - 1 - 1 + 1 ELSE 0) = n - 1
    OBVIOUS
  <2>3. Len(s) # 0
    BY <1>1
  <2> QED BY <1>1, <2>1, <2>2, <2>3
<1> QED BY <1>5, <1>6, <1>8, <1>9

(* wakeUp makes those who wait send again and changes nothing else.        *)
LEMMA WokenFacts ==
  ASSUME NEW s \in Seq(Conn)
  PROVE  /\ Woken(s) \in Seq(Conn) /\ Len(Woken(s)) = Len(s)
         /\ \A k \in 1 .. Len(s) :
              Woken(s)[k] = IF s[k].status = "WAITING_DATA_ON_CACHE"
                            THEN [s[k] EXCEPT !.status = "RESPONDING_FROM_CACHE"]
                            ELSE s[k]
<1>1. Len(s) \in Nat /\ DOMAIN s = 1 .. Len(s)
  BY LenProperties
<1>2. ASSUME NEW k \in 1 .. Len(s)
      PROVE  /\ Woken(s)[k] = IF s[k].status = "WAITING_DATA_ON_CACHE"
                            THEN [s[k] EXCEPT !.status = "RESPONDING_FROM_CACHE"]
                            ELSE s[k]
             /\ Woken(s)[k] \in Conn
  <2>1. s[k] \in Conn
    BY ElementOfSeq
  <2>2. s[k].status = "WAITING_DATA_ON_CACHE"
          => [s[k] EXCEPT !.status = "RESPONDING_FROM_CACHE"] \in Conn
    BY <2>1 DEF Conn, Statuses, Reading
  <2> QED BY <1>1, <2>1, <2>2 DEF Woken
<1>3. Woken(s) \in [1 .. Len(s) -> Conn]
  BY <1>1, <1>2 DEF Woken
<1>4. Woken(s) \in Seq(Conn) /\ Len(Woken(s)) = Len(s)
  <2>1. Woken(s) \in Seq(Conn)
    BY <1>1, <1>3
  <2>2. DOMAIN Woken(s) = 1 .. Len(s) /\ DOMAIN Woken(s) = 1 .. Len(Woken(s))
    BY <1>3, <2>1, LenProperties
  <2>3. Len(Woken(s)) \in Nat
    BY <2>1, LenProperties
  <2> QED BY <1>1, <2>1, <2>2, <2>3
<1> QED BY <1>2, <1>4
-----------------------------------------------------------------------------
(* A connection of an array that its worker has handled another one of: it *)
(* may have been woken, or lost its buffer.                                *)
Alike(c, d) ==
  /\ d.client = c.client /\ d.cacheIndex = c.cacheIndex
  /\ d.cacheBytesWritten = c.cacheBytesWritten
  /\ d.units = c.units /\ d.kind = c.kind
  /\ \/ d.status = c.status
     \/ c.status = "WAITING_DATA_ON_CACHE" /\ d.status = "RESPONDING_FROM_CACHE"

(* s is the array of w with d for the connection it is at.                 *)
Others(w, s, d) ==
  /\ s \in Seq(Conn) /\ Len(s) = Own(w)
  /\ s[Serving(w)] = d
  /\ \A j \in (1 .. Own(w)) \ {Serving(w)} : Alike(connections[w][j], s[j])

(* Where the connection at k was before the one w is at stayed or left.    *)
Before(w, stays, k) == IF ~stays /\ k = Serving(w) THEN Own(w) ELSE k

(* A step of w on its connections: the one it is at becomes d and stays,   *)
(* or leaves as d.                                                         *)
Turn(w, d, stays) ==
  /\ connections' \in [Workers -> Seq(Conn)] /\ pc' \in [Workers -> Labels]
  /\ todo' \in [Workers -> SUBSET Nat]
  /\ \A v \in Workers \ {w} : /\ connections'[v] = connections[v]
                              /\ pc'[v] = pc[v] /\ todo'[v] = todo[v]
  /\ Own(w)' = IF stays THEN Own(w) ELSE Own(w) - 1
  /\ todo'[w] \subseteq todo[w] /\ todo'[w] \subseteq 1 .. Own(w)'
  /\ allConnectionsCount' = IF stays THEN allConnectionsCount ELSE allConnectionsCount - 1
  /\ \A k \in 1 .. Own(w)' :
       IF stays /\ k = Serving(w) THEN connections'[w][k] = d
       ELSE Alike(connections[w][Before(w, stays, k)], connections'[w][k])

(* The worker goes on with its next connection.                            *)
Served(w, d, stays) ==
  Turn(w, d, stays) /\ pc'[w] \in {"serve", "top"} /\ (pc'[w] = "serve" => todo'[w] # {})

(* What a worker at a connection has.                                      *)
LEMMA AtConnection ==
  ASSUME Places, NEW w \in Workers, pc[w] \in Busy
  PROVE  /\ connections[w] \in Seq(Conn) /\ Own(w) \in Nat
         /\ Serving(w) \in todo[w] /\ Serving(w) \in 1 .. Own(w)
         /\ Connection(w) \in Conn /\ connections[w][Serving(w)] = Connection(w)
<1>1. connections[w] \in Seq(Conn) /\ Own(w) \in Nat
  BY LenProperties DEF Places, WorkerTypes, Own
<1>2. todo[w] \subseteq 1 .. Own(w) /\ todo[w] # {}
  BY DEF Places, Placed
<1>3. Serving(w) \in todo[w]
  BY <1>1, <1>2, ServingIn
<1>4. Serving(w) \in 1 .. Len(connections[w])
  BY <1>2, <1>3 DEF Own
<1>5. connections[w][Serving(w)] \in Conn
  BY <1>1, <1>4, ElementOfSeq
<1> QED BY <1>1, <1>2, <1>3, <1>5 DEF Connection

(* The connection is changed.                                              *)
LEMMA PutOthers ==
  ASSUME Places, NEW w \in Workers, pc[w] \in Busy, NEW d \in Conn
  PROVE  Others(w, [connections[w] EXCEPT ![Serving(w)] = d], d)
<1> DEFINE t == [connections[w] EXCEPT ![Serving(w)] = d]
<1>1. connections[w] \in Seq(Conn) /\ Serving(w) \in 1 .. Len(connections[w])
  BY AtConnection DEF Own
<1>2. /\ t \in Seq(Conn) /\ Len(t) = Len(connections[w])
      /\ \A j \in 1 .. Len(connections[w]) :
           t[j] = IF j = Serving(w) THEN d ELSE connections[w][j]
  BY <1>1, ExceptSeq
<1> HIDE DEF t
<1>3. Others(w, t, d)
  BY <1>1, <1>2 DEF Others, Own, Alike
<1> QED BY <1>3 DEF t

(* It is changed once more.                                                *)
LEMMA PutAgain ==
  ASSUME Places, NEW w \in Workers, pc[w] \in Busy, NEW s, NEW c, Others(w, s, c),
         NEW d \in Conn
  PROVE  Others(w, [s EXCEPT ![Serving(w)] = d], d)
<1> DEFINE t == [s EXCEPT ![Serving(w)] = d]
<1>1. s \in Seq(Conn) /\ Len(s) = Own(w) /\ Serving(w) \in 1 .. Len(s)
  BY AtConnection DEF Others
<1>2. /\ t \in Seq(Conn) /\ Len(t) = Len(s)
      /\ \A j \in 1 .. Len(s) : t[j] = IF j = Serving(w) THEN d ELSE s[j]
  BY <1>1, ExceptSeq
<1> HIDE DEF t
<1>3. Others(w, t, d)
  BY <1>1, <1>2 DEF Others
<1> QED BY <1>3 DEF t

(* wakeUp is called.                                                       *)
LEMMA WokenOthers ==
  ASSUME Places, NEW w \in Workers, pc[w] \in Busy, NEW s, NEW d, Others(w, s, d),
         d.status # "WAITING_DATA_ON_CACHE"
  PROVE  /\ Others(w, Woken(s), d)
         /\ \A j \in 1 .. Own(w) : Woken(s)[j].status # "WAITING_DATA_ON_CACHE"
<1>1. s \in Seq(Conn) /\ Len(s) = Own(w) /\ Serving(w) \in 1 .. Len(s)
  BY AtConnection DEF Others
<1>2. /\ Woken(s) \in Seq(Conn) /\ Len(Woken(s)) = Len(s)
      /\ \A k \in 1 .. Len(s) :
           Woken(s)[k] = IF s[k].status = "WAITING_DATA_ON_CACHE"
                         THEN [s[k] EXCEPT !.status = "RESPONDING_FROM_CACHE"] ELSE s[k]
  BY <1>1, WokenFacts
<1>3. ASSUME NEW j \in 1 .. Len(s)
      PROVE  /\ Alike(s[j], Woken(s)[j]) /\ Woken(s)[j].status # "WAITING_DATA_ON_CACHE"
             /\ s[j].status = "WAITING_DATA_ON_CACHE" \/ Woken(s)[j] = s[j]
  <2>1. s[j] \in Conn
    BY <1>1, ElementOfSeq
  <2>2. CASE s[j].status = "WAITING_DATA_ON_CACHE"
    BY <1>2, <2>1, <2>2 DEF Alike, Conn
  <2>3. CASE s[j].status # "WAITING_DATA_ON_CACHE"
    BY <1>2, <2>1, <2>3 DEF Alike
  <2> QED BY <2>2, <2>3
<1>4. ASSUME NEW j \in (1 .. Own(w)) \ {Serving(w)}
      PROVE  Alike(connections[w][j], Woken(s)[j])
  <2>1. Alike(connections[w][j], s[j]) /\ Alike(s[j], Woken(s)[j])
    BY <1>1, <1>3 DEF Others
  <2> QED BY <2>1 DEF Alike
<1>5. Woken(s)[Serving(w)] = d
  BY <1>1, <1>2 DEF Others
<1> QED BY <1>1, <1>2, <1>3, <1>4, <1>5 DEF Others

(* freeBuffer is called on the last connection.                            *)
LEMMA FreedOthers ==
  ASSUME Places, NEW w \in Workers, pc[w] \in Busy, NEW s, NEW d, Others(w, s, d)
  PROVE  \E b \in Int : Others(w, FreedLast(s), [d EXCEPT !.buffer = b])
<1> DEFINE c == s[Len(s)]
           n == IF c.status = "GETTING_REQUEST" /\ c.buffer # 0 THEN -1 ELSE 0
           e == [c EXCEPT !.buffer = n]
           t == [s EXCEPT ![Len(s)] = e]
<1>1. s \in Seq(Conn) /\ Len(s) = Own(w) /\ Serving(w) \in 1 .. Len(s) /\ Len(s) \in Nat
  BY AtConnection DEF Others
<1>2. Len(s) \in 1 .. Len(s) /\ d \in Conn
  BY <1>1, ElementOfSeq DEF Others
<1>3. c \in Conn
  BY <1>1, <1>2, ElementOfSeq
<1>4. n \in Int
  OBVIOUS
<1>5. e \in Conn /\ Alike(c, e)
  <2> HIDE DEF c, n
  <2> QED BY <1>3, <1>4 DEF Conn, Alike
<1>6. /\ t \in Seq(Conn) /\ Len(t) = Len(s)
      /\ \A j \in 1 .. Len(s) : t[j] = IF j = Len(s) THEN e ELSE s[j]
  <2> HIDE DEF e
  <2> QED BY <1>1, <1>2, <1>5, ExceptSeq
<1>7. FreedLast(s) = t
  BY DEF FreedLast
<1>8. [d EXCEPT !.buffer = d.buffer] = d /\ d.buffer \in Int
  BY <1>2 DEF Conn
<1>9. \A j \in (1 .. Own(w)) \ {Serving(w)} : Alike(connections[w][j], t[j])
  <2> HIDE DEF c, e, t
  <2>1. Len(s) # Serving(w) => Alike(connections[w][Len(s)], e)
    <3>1. Len(s) # Serving(w) => Alike(connections[w][Len(s)], c)
      BY <1>1, <1>2 DEF Others, c
    <3> QED BY <1>5, <3>1 DEF Alike
  <2> QED BY <1>1, <1>6, <2>1 DEF Others
<1>10. CASE Serving(w) = Len(s)
  <2>1. e = [d EXCEPT !.buffer = n]
    BY <1>10 DEF Others
  <2> HIDE DEF e, n, t
  <2>2. Others(w, t, [d EXCEPT !.buffer = n])
    BY <1>1, <1>2, <1>6, <1>9, <1>10, <2>1 DEF Others
  <2> QED BY <1>4, <1>7, <2>2
<1>11. CASE Serving(w) # Len(s)
  <2> HIDE DEF e, t
  <2>1. Others(w, t, d)
    BY <1>1, <1>6, <1>9, <1>11 DEF Others
  <2> QED BY <1>7, <1>8, <2>1
<1> QED BY <1>10, <1>11
-----------------------------------------------------------------------------
(* The connection stays.                                                   *)
LEMMA KeepTurn ==
  ASSUME Places, NEW w \in Workers, pc[w] \in Busy, NEW s, NEW d, Others(w, s, d),
         Keep(w, s)
  PROVE  Served(w, d, TRUE) /\ abandoned' = abandoned
<1> DEFINE left == todo[w] \ {Serving(w)}
<1>1. /\ s \in Seq(Conn) /\ Len(s) = Own(w) /\ s[Serving(w)] = d
      /\ \A j \in (1 .. Own(w)) \ {Serving(w)} : Alike(connections[w][j], s[j])
  BY DEF Others
<1>2. /\ connections' = [connections EXCEPT ![w] = s]
      /\ todo' = [todo EXCEPT ![w] = left]
      /\ pc' = [pc EXCEPT ![w] = IF left = {} THEN "top" ELSE "serve"]
      /\ allConnectionsCount' = allConnectionsCount /\ abandoned' = abandoned
  BY DEF Keep, Go, Goto
<1>3. /\ connections \in [Workers -> Seq(Conn)] /\ todo \in [Workers -> SUBSET Nat]
      /\ pc \in [Workers -> Labels] /\ todo[w] \subseteq 1 .. Own(w)
  BY DEF Places, WorkerTypes, Placed
<1>4. "top" \in Labels /\ "serve" \in Labels
  BY DEF Labels, Busy
<1>5. connections'[w] = s /\ Own(w)' = Own(w)
  BY <1>1, <1>2, <1>3 DEF Own
<1>6. /\ connections' \in [Workers -> Seq(Conn)] /\ pc' \in [Workers -> Labels]
      /\ todo' \in [Workers -> SUBSET Nat]
  BY <1>1, <1>2, <1>3, <1>4
<1>7. /\ pc'[w] = (IF left = {} THEN "top" ELSE "serve") /\ todo'[w] = left
      /\ \A v \in Workers \ {w} : /\ connections'[v] = connections[v]
                                  /\ pc'[v] = pc[v] /\ todo'[v] = todo[v]
  BY <1>2, <1>3
<1>8. \A k \in 1 .. Own(w)' :
        IF TRUE /\ k = Serving(w) THEN connections'[w][k] = d
        ELSE Alike(connections[w][Before(w, TRUE, k)], connections'[w][k])
  BY <1>1, <1>5 DEF Before
<1>9. Turn(w, d, TRUE)
  BY <1>2, <1>3, <1>5, <1>6, <1>7, <1>8 DEF Turn
<1>10. pc'[w] \in {"serve", "top"} /\ (pc'[w] = "serve" => todo'[w] # {})
  BY <1>7
<1>11. Served(w, d, TRUE)
  BY <1>9, <1>10 DEF Served
<1> QED BY <1>2, <1>11

(* The connection leaves, and another one takes its place.                 *)
LEMMA LeaveTurn ==
  ASSUME Places, NEW w \in Workers, pc[w] \in Busy, NEW s, NEW d, Others(w, s, d),
         NEW entries, Leave(w, s, entries)
  PROVE  /\ Served(w, d, FALSE)
         /\ abandoned' = IF /\ d.status \in Writing /\ d.cacheIndex # Nil
                            /\ \/ entries[d.cacheIndex].status = "DOWNLOADING"
                               \/ cache[d.cacheIndex].status = "INVALID"
                         THEN abandoned \cup {d.cacheIndex} ELSE abandoned
<1> DEFINE left == todo[w] \ {Serving(w), Len(s)}
           t == Moved(s, Serving(w))
<1>1. /\ s \in Seq(Conn) /\ Len(s) = Own(w) /\ s[Serving(w)] = d
      /\ \A j \in (1 .. Own(w)) \ {Serving(w)} : Alike(connections[w][j], s[j])
  BY DEF Others
<1>2. /\ connections' = [connections EXCEPT ![w] = t]
      /\ todo' = [todo EXCEPT ![w] = left]
      /\ pc' = [pc EXCEPT ![w] = IF left = {} THEN "top" ELSE "serve"]
      /\ allConnectionsCount' = allConnectionsCount - 1
      /\ abandoned' = IF /\ d.status \in Writing /\ d.cacheIndex # Nil
                         /\ \/ entries[d.cacheIndex].status = "DOWNLOADING"
                            \/ cache[d.cacheIndex].status = "INVALID"
                      THEN abandoned \cup {d.cacheIndex} ELSE abandoned
  BY <1>1 DEF Leave, Go, Goto
<1>3. /\ connections \in [Workers -> Seq(Conn)] /\ todo \in [Workers -> SUBSET Nat]
      /\ pc \in [Workers -> Labels] /\ todo[w] \subseteq 1 .. Own(w)
  BY DEF Places, WorkerTypes, Placed
<1>4. Serving(w) \in 1 .. Own(w) /\ Own(w) \in Nat
  BY AtConnection
<1>5. /\ t \in Seq(Conn) /\ Len(t) = Own(w) - 1
      /\ \A k \in 1 .. Own(w) - 1 : t[k] = s[IF k = Serving(w) THEN Own(w) ELSE k]
  <2>1. /\ Moved(s, Serving(w)) \in Seq(Conn) /\ Len(Moved(s, Serving(w))) = Len(s) - 1
        /\ \A k \in 1 .. Len(s) - 1 :
             Moved(s, Serving(w))[k] = s[IF k = Serving(w) THEN Len(s) ELSE k]
    <3>1. s \in Seq(Conn) /\ Serving(w) \in 1 .. Len(s)
      BY <1>1, <1>4
    <3> QED BY <3>1, MovedFacts
  <2> QED BY <1>1, <2>1
<1> HIDE DEF t
<1>6. connections'[w] = t /\ Own(w)' = Own(w) - 1
  BY <1>2, <1>3, <1>5 DEF Own
<1>7. /\ pc'[w] = (IF left = {} THEN "top" ELSE "serve") /\ todo'[w] = left
      /\ \A v \in Workers \ {w} : /\ connections'[v] = connections[v]
                                  /\ pc'[v] = pc[v] /\ todo'[v] = todo[v]
  BY <1>2, <1>3
<1>8. "top" \in Labels /\ "serve" \in Labels
  BY DEF Labels, Busy
<1>9. /\ connections' \in [Workers -> Seq(Conn)] /\ pc' \in [Workers -> Labels]
      /\ todo' \in [Workers -> SUBSET Nat]
  BY <1>2, <1>3, <1>5, <1>8
<1>10. ASSUME NEW k \in 1 .. Own(w) - 1
       PROVE  Alike(connections[w][Before(w, FALSE, k)], connections'[w][k])
  <2>1. /\ Before(w, FALSE, k) \in (1 .. Own(w)) \ {Serving(w)}
        /\ Before(w, FALSE, k) = IF k = Serving(w) THEN Own(w) ELSE k
    BY <1>4 DEF Before
  <2>2. connections'[w][k] = s[Before(w, FALSE, k)]
    BY <1>5, <1>6, <2>1
  <2> QED BY <1>1, <2>1, <2>2
<1>11. left \subseteq 1 .. Own(w) - 1
  BY <1>1, <1>3, <1>4
<1>12. Turn(w, d, FALSE)
  BY <1>2, <1>6, <1>7, <1>9, <1>10, <1>11 DEF Turn
<1>13. pc'[w] \in {"serve", "top"} /\ (pc'[w] = "serve" => todo'[w] # {})
  BY <1>7
<1>14. Served(w, d, FALSE)
  BY <1>12, <1>13 DEF Served
<1> QED BY <1>2, <1>14

(* The worker stays at its connection, which becomes d.                    *)
LEMMA StandTurn ==
  ASSUME Places, NEW w \in Workers, pc[w] \in Busy, NEW s, NEW d, Others(w, s, d),
         connections' = [connections EXCEPT ![w] = s], NEW label \in Labels,
         Goto(w, label), UNCHANGED <<todo, allConnectionsCount>>
  PROVE  /\ Turn(w, d, TRUE) /\ pc'[w] = label /\ todo'[w] = todo[w]
         /\ Connection(w)' = d /\ EntryOf(w)' = d.cacheIndex /\ Serving(w)' = Serving(w)
<1>1. /\ s \in Seq(Conn) /\ Len(s) = Own(w) /\ s[Serving(w)] = d
      /\ \A j \in (1 .. Own(w)) \ {Serving(w)} : Alike(connections[w][j], s[j])
  BY DEF Others
<1>2. pc' = [pc EXCEPT ![w] = label]
  BY DEF Goto
<1>3. /\ connections \in [Workers -> Seq(Conn)] /\ todo \in [Workers -> SUBSET Nat]
      /\ pc \in [Workers -> Labels] /\ todo[w] \subseteq 1 .. Own(w)
  BY DEF Places, WorkerTypes, Placed
<1>4. connections'[w] = s /\ Own(w)' = Own(w)
  BY <1>1, <1>3 DEF Own
<1>5. /\ connections' \in [Workers -> Seq(Conn)] /\ pc' \in [Workers -> Labels]
      /\ todo' \in [Workers -> SUBSET Nat]
  BY <1>1, <1>2, <1>3
<1>6. /\ pc'[w] = label
      /\ \A v \in Workers \ {w} : /\ connections'[v] = connections[v]
                                  /\ pc'[v] = pc[v] /\ todo'[v] = todo[v]
  BY <1>2, <1>3
<1>7. \A k \in 1 .. Own(w)' :
        IF TRUE /\ k = Serving(w) THEN connections'[w][k] = d
        ELSE Alike(connections[w][Before(w, TRUE, k)], connections'[w][k])
  BY <1>1, <1>4 DEF Before
<1>8. Turn(w, d, TRUE)
  BY <1>3, <1>4, <1>5, <1>6, <1>7 DEF Turn
<1>9. Serving(w)' = Serving(w)
  BY DEF Serving
<1> QED BY <1>1, <1>4, <1>6, <1>8, <1>9 DEF Connection, EntryOf

(* The same, with the connection as it was.                                *)
LEMMA StandStill ==
  ASSUME Places, NEW w \in Workers, pc[w] \in Busy, NEW label \in Labels,
         Goto(w, label), UNCHANGED <<connections, todo, allConnectionsCount>>
  PROVE  /\ Turn(w, Connection(w), TRUE) /\ pc'[w] = label /\ todo'[w] = todo[w]
         /\ Connection(w)' = Connection(w) /\ EntryOf(w)' = EntryOf(w)
         /\ Serving(w)' = Serving(w)
<1>1. connections[w] \in Seq(Conn) /\ connections[w][Serving(w)] = Connection(w)
  BY AtConnection
<1>2. Others(w, connections[w], Connection(w))
  BY <1>1 DEF Others, Alike, Own
<1>3. connections' = [connections EXCEPT ![w] = connections[w]]
  BY DEF Places, WorkerTypes
<1> QED BY <1>2, <1>3, StandTurn DEF EntryOf

(* What was said of the other workers still holds.                         *)
LEMMA OtherPlaced ==
  ASSUME NEW v \in Workers, Placed(v), v \in blocked' => v \in blocked,
         connections'[v] = connections[v], pc'[v] = pc[v], todo'[v] = todo[v],
         UNCHANGED MAX_CACHE_SIZE
  PROVE  Placed(v)'
<1>1. /\ Own(v)' = Own(v) /\ Connection(v)' = Connection(v) /\ EntryOf(v)' = EntryOf(v)
  BY SameServing
<1>2. Entries' = Entries
  BY DEF Entries
<1> QED BY <1>1, <1>2 DEF Placed

(* After a connection was served its worker is well placed.                *)
LEMMA ServedPlaces ==
  ASSUME Places, NEW w \in Workers, NEW d, NEW stays \in BOOLEAN, Served(w, d, stays),
         blocked' \subseteq blocked \ {w}, abandoned' \in SUBSET Entries,
         UNCHANGED MAX_CACHE_SIZE
  PROVE  Places'
<1>1. allConnectionsCount' \in Int
  BY DEF Places, WorkerTypes, Served, Turn
<1>2. Conn' = Conn /\ Entries' = Entries
  BY DEF Conn, Entries
<1>3. WorkerTypes'
  BY <1>1, <1>2 DEF WorkerTypes, Served, Turn
<1>4. Placed(w)'
  BY DEF Placed, Served, Turn, Busy, Claiming, Sending
<1>5. ASSUME NEW v \in Workers \ {w} PROVE Placed(v)'
  BY OtherPlaced DEF Places, Served, Turn
<1> QED BY <1>3, <1>4, <1>5 DEF Places

(* And when it stays at the connection, if that is in the right state.     *)
LEMMA StandPlaces ==
  ASSUME Places, NEW w \in Workers, pc[w] \in Busy, NEW d, Turn(w, d, TRUE),
         todo'[w] = todo[w], UNCHANGED <<MAX_CACHE_SIZE, abandoned>>,
         \A v \in Workers \ {w} : v \in blocked' => v \in blocked,
         w \in blocked' => pc'[w] = "blocked",
         pc'[w] = "reclaim" => EntryOf(w)' \in Entries,
         pc'[w] \in Claiming => Connection(w)'.status = "GETTING_REQUEST",
         pc'[w] \in Sending => Connection(w)'.status = "RESPONDING_FROM_CACHE"
  PROVE  Places'
<1>1. allConnectionsCount' \in Int
  BY DEF Places, WorkerTypes, Turn
<1>2. Conn' = Conn /\ Entries' = Entries
  BY DEF Conn, Entries
<1>3. WorkerTypes'
  BY <1>1, <1>2 DEF WorkerTypes, Turn, Places
<1>4. todo[w] # {}
  BY DEF Places, Placed
<1>5. Placed(w)'
  BY <1>2, <1>4 DEF Placed, Turn
<1>6. ASSUME NEW v \in Workers \ {w} PROVE Placed(v)'
  BY OtherPlaced DEF Places, Turn
<1> QED BY <1>3, <1>5, <1>6 DEF Places
-----------------------------------------------------------------------------
(* What the handlers come to.  A connection that stays the same but for    *)
(* its state and its buffer:                                               *)
Same(c, d) ==
  /\ d.client = c.client /\ d.cacheIndex = c.cacheIndex /\ d.units = c.units
  /\ d.kind = c.kind /\ d.cacheBytesWritten = c.cacheBytesWritten
  /\ d.status \in Writing <=> c.status \in Writing
  /\ d.status \in Reading <=> c.status \in Reading

(* which entries are abandoned with it, when the cache becomes entries;    *)
Ended(d, stays, entries) ==
  abandoned' = IF /\ ~stays /\ d.status \in Writing /\ d.cacheIndex # Nil
                  /\ \/ entries[d.cacheIndex].status = "DOWNLOADING"
                     \/ cache[d.cacheIndex].status = "INVALID"
               THEN abandoned \cup {d.cacheIndex} ELSE abandoned

Outcome(w, d, stays, entries) == Served(w, d, stays) /\ Ended(d, stays, entries)

(* a step that has only to do with the connection;                         *)
Plain(w) ==
  \E d \in Conn, stays \in BOOLEAN :
    /\ Outcome(w, d, stays, cache) /\ Same(Connection(w), d)
    /\ d.status = "WAITING_DATA_ON_CACHE" /\ stays =>
         /\ Connection(w).status = "RESPONDING_FROM_CACHE"
         /\ NothingToSend(w) /\ cache[EntryOf(w)].writerId = w
         /\ cache[EntryOf(w)].status # "INVALID"
    /\ UNCHANGED Private

(* a search that finds the cache full, or finds the entry;                 *)
Searched == UNCHANGED <<blocked, loaded, copied, cacheVars, fault, misled, reclaimed>>

Uncached(w) ==
  \E d \in Conn, stays \in BOOLEAN :
    /\ Outcome(w, d, stays, cache) /\ Racing(w) /\ Searched
    /\ d.client = Connection(w).client /\ d.cacheIndex = Nil
    /\ d.status = "CONNECTING_TO_SERVER" /\ Connection(w).status = "GETTING_REQUEST"

Matches(c) ==
  /\ c.cacheIndex \in Entries /\ wants[c.client] # Nil
  /\ cache[c.cacheIndex].url = wants[c.client]

Found(w) ==
  \E d \in Conn :
    /\ Outcome(w, d, TRUE, cache) /\ Racing(w) /\ Searched
    /\ Matches(d) /\ cache[d.cacheIndex].status # "INVALID"
    /\ d.client = Connection(w).client /\ d.cacheBytesWritten = 0
    /\ d.status = "RESPONDING_FROM_CACHE" /\ Connection(w).status = "GETTING_REQUEST"

(* one that is about to claim an entry;                                    *)
Claims(w) ==
  \E d \in Conn :
    /\ Turn(w, d, TRUE) /\ todo'[w] = todo[w] /\ Connection(w)' = d
    /\ d.status = "GETTING_REQUEST" /\ d.client = Connection(w).client
    /\ Connection(w).status = "GETTING_REQUEST"
    /\ \/ pc'[w] = "load" /\ d.cacheIndex = Nil /\ cacheSize < MAX_CACHE_SIZE
       \/ pc'[w] = "reclaim" /\ Matches(d)
    /\ wants[d.client] # Nil
    /\ Racing(w) /\ Searched /\ UNCHANGED abandoned

(* an entry that becomes invalid, with no connection of w left waiting;    *)
NoneWaits(w) ==
  \A k \in 1 .. Own(w) : connections[w][k].status # "WAITING_DATA_ON_CACHE"

Received(c, d) ==
  /\ d.client = c.client /\ d.cacheIndex = c.cacheIndex /\ d.units = c.units + 1
  /\ d.status = "FORWARDING_RESPONSE" /\ c.status = "FORWARDING_RESPONSE"
  /\ c.units > 0 => d.kind = c.kind

Cancelled(w) ==
  \E d \in Conn, stays \in BOOLEAN, e \in Entries :
    /\ Outcome(w, d, stays, Invalid(e)) /\ NoneWaits(w)'
    /\ cache' = Invalid(e) /\ Broadcast(e)
    /\ IF stays THEN /\ Received(Connection(w), d) /\ d.cacheIndex = e
                     /\ cache[e].alreadyWritten = 0 /\ d.kind \notin {"ok", "short"}
                ELSE /\ d.status \in Writing /\ d.cacheIndex = EntryOf(w)
                     /\ Connection(w).status \in Writing
    /\ UNCHANGED <<loaded, copied, cacheSize, fault, misled, raced, reclaimed>>

(* a unit that is stored in the entry, or only sent on.                    *)
Longer(entry, d, more) ==
  /\ more.url = entry.url /\ more.writerId = entry.writerId
  /\ more.alreadyWritten = entry.alreadyWritten + 1
  /\ \/ /\ entry.alreadyWritten = 0 /\ d.kind \in {"ok", "short"}
        /\ more.data = << <<wants[d.client], d.units>> >> /\ more.allSize \in Nat \ {0}
     \/ /\ entry.alreadyWritten \in 1 .. entry.allSize - 1
        /\ more.data = Append(entry.data, <<wants[d.client], d.units>>)
        /\ more.allSize = entry.allSize

Stored(w) ==
  \E d \in Conn, stays \in BOOLEAN, e \in Entries, more \in Entry :
    /\ Outcome(w, d, stays, [cache EXCEPT ![e] = more]) /\ NoneWaits(w)'
    /\ cache' = [cache EXCEPT ![e] = more] /\ Broadcast(e)
    /\ Received(Connection(w), d) /\ d.cacheIndex = e
    /\ Longer(cache[e], d, more)
    /\ more.status = IF stays THEN cache[e].status ELSE "VALID"
    /\ stays <=> more.alreadyWritten # more.allSize
    /\ UNCHANGED <<loaded, copied, cacheSize, fault, misled, raced, reclaimed>>

Relayed(w) ==
  \E d \in Conn :
    /\ Outcome(w, d, TRUE, cache) /\ Received(Connection(w), d)
    /\ d.cacheIndex # Nil =>
         cache[d.cacheIndex].alreadyWritten = 0 /\ Connection(w).units > 0
    /\ UNCHANGED Private

(* a worker that goes to sleep on an entry, or to send from it.            *)
Stands(w) ==
  /\ Turn(w, Connection(w), TRUE) /\ todo'[w] = todo[w] /\ Serving(w)' = Serving(w)
  /\ Connection(w)' = Connection(w) /\ EntryOf(w)' = EntryOf(w)
  /\ Connection(w).status = "RESPONDING_FROM_CACHE"
  /\ \/ pc'[w] = "copy" /\ UNCHANGED blocked
     \/ /\ pc'[w] = "blocked" /\ blocked' = blocked \cup {w}
        /\ NothingToSend(w) /\ cache[EntryOf(w)].status # "INVALID"
        /\ cache[EntryOf(w)].status = "DOWNLOADING" \/ pc[w] = "blocked"
  /\ UNCHANGED <<loaded, copied, cacheVars, fault, history>>

Faulted ==
  UNCHANGED <<allConnectionsCount, pc, todo, threadVars, connections, cacheVars, history>>
-----------------------------------------------------------------------------
(* Where the handlers come to that.                                        *)
LEMMA KeepOutcome ==
  ASSUME Places, NEW w \in Workers, pc[w] \in Busy, NEW s, NEW d, Others(w, s, d),
         Keep(w, s), NEW entries
  PROVE  Outcome(w, d, TRUE, entries)
BY KeepTurn DEF Outcome, Ended

(* The connection leaves.                                                  *)
LEMMA LeaveOutcome ==
  ASSUME Places, NEW w \in Workers, pc[w] \in Busy, NEW s, NEW d, Others(w, s, d),
         NEW entries, Leave(w, s, entries)
  PROVE  Outcome(w, d, FALSE, entries)
<1>1. /\ Served(w, d, FALSE)
      /\ abandoned' = IF /\ d.status \in Writing /\ d.cacheIndex # Nil
                         /\ \/ entries[d.cacheIndex].status = "DOWNLOADING"
                            \/ cache[d.cacheIndex].status = "INVALID"
                      THEN abandoned \cup {d.cacheIndex} ELSE abandoned
  BY LeaveTurn
<1> QED BY <1>1 DEF Outcome, Ended

(* The connection is dropped as it is.                                     *)
LEMMA DropPlain ==
  ASSUME Places, NEW w \in Workers, pc[w] \in Busy, Drop(w)
  PROVE  /\ Connection(w) \in Conn /\ Outcome(w, Connection(w), FALSE, cache)
         /\ UNCHANGED Private => Plain(w)
<1>1. connections[w] \in Seq(Conn) /\ Connection(w) \in Conn
      /\ connections[w][Serving(w)] = Connection(w)
  BY AtConnection
<1>2. Others(w, connections[w], Connection(w))
  BY <1>1 DEF Others, Alike, Own
<1>3. Outcome(w, Connection(w), FALSE, cache)
  BY <1>2, LeaveOutcome DEF Drop
<1>4. Same(Connection(w), Connection(w))
  BY DEF Same
<1>5. UNCHANGED Private => Plain(w)
  BY <1>1, <1>3, <1>4 DEF Plain
<1> QED BY <1>1, <1>3, <1>5

(* It is dropped for an entry that is invalid, with what the unlock does.  *)
LEMMA GiveUpShape ==
  ASSUME Places, NEW w \in Workers, pc[w] \in Busy, NEW e, GiveUp(w, e)
  PROVE  Plain(w) \/ Faulted
<1>1. CASE Drop(w) /\ UNCHANGED Private
  BY <1>1, DropPlain
<1>2. CASE \E what : Fault(what)
  BY <1>2 DEF Fault, Faulted
<1> QED BY <1>1, <1>2, Zenon DEF GiveUp

(* It is dropped with its thread's readers woken.                          *)
LEMMA WokenPlain ==
  ASSUME Places, NEW w \in Workers, pc[w] \in Busy,
         Connection(w).status # "WAITING_DATA_ON_CACHE",
         Leave(w, Woken(connections[w]), cache), UNCHANGED Private
  PROVE  Plain(w)
<1> DEFINE c == Connection(w)
<1>1. connections[w] \in Seq(Conn) /\ c \in Conn /\ connections[w][Serving(w)] = c
  BY AtConnection
<1>2. Others(w, connections[w], c)
  BY <1>1 DEF Others, Alike, Own
<1>3. c.status # "WAITING_DATA_ON_CACHE" /\ c = Connection(w)
  OBVIOUS
<1> HIDE DEF c
<1>4. Others(w, Woken(connections[w]), c)
  BY <1>2, <1>3, WokenOthers
<1>5. Outcome(w, c, FALSE, cache)
  BY <1>4, LeaveOutcome
<1>6. Same(c, c)
  BY DEF Same
<1> QED BY <1>1, <1>3, <1>5, <1>6 DEF Plain

(* It changes, and stays or leaves.                                        *)
LEMMA PutPlain ==
  ASSUME Places, NEW w \in Workers, pc[w] \in Busy, NEW d \in Conn,
         Same(Connection(w), d), d.status # "WAITING_DATA_ON_CACHE", UNCHANGED Private,
         NEW s, s = [connections[w] EXCEPT ![Serving(w)] = d],
         Keep(w, s) \/ Leave(w, s, cache)
  PROVE  Plain(w)
<1>1. Others(w, s, d)
  BY PutOthers
<1>2. PICK stays \in BOOLEAN : Outcome(w, d, stays, cache)
  BY <1>1, KeepOutcome, LeaveOutcome
<1> QED BY <1>2 DEF Plain

(* It changes by Become.                                                   *)
LEMMA BecomePlain ==
  ASSUME Places, NEW w \in Workers, pc[w] \in Busy, NEW d \in Conn,
         Same(Connection(w), d), d.status # "WAITING_DATA_ON_CACHE", UNCHANGED Private,
         Become(w, d)
  PROVE  Plain(w)
<1> DEFINE s == [connections[w] EXCEPT ![Serving(w)] = d]
<1>1. Keep(w, s)
  BY DEF Become
<1> HIDE DEF s
<1>2. s = [connections[w] EXCEPT ![Serving(w)] = d]
  BY DEF s
<1> QED BY <1>1, <1>2, PutPlain

(* Connect, with the connection changed to c before.                       *)
LEMMA ConnectOutcome ==
  ASSUME Places, NEW w \in Workers, pc[w] \in Busy, NEW s, NEW c \in Conn,
         Others(w, s, c), c.status \notin Reading, NEW entries, Connect(w, s, entries)
  PROVE  \E stays \in BOOLEAN :
           /\ [c EXCEPT !.status = "CONNECTING_TO_SERVER"] \in Conn
           /\ Outcome(w, [c EXCEPT !.status = "CONNECTING_TO_SERVER"], stays, entries)
<1> DEFINE d == [c EXCEPT !.status = "CONNECTING_TO_SERVER"]
           t == [s EXCEPT ![Serving(w)] = d]
<1>1. d \in Conn
  BY DEF Conn, Statuses, Writing, Reading
<1>2. s[Serving(w)] = c
  BY DEF Others
<1>3. Keep(w, t) \/ Leave(w, t, entries)
  BY <1>2 DEF Connect
<1> HIDE DEF d
<1>4. Others(w, t, d)
  BY <1>1, PutAgain
<1> HIDE DEF t
<1>5. \E stays \in BOOLEAN : Outcome(w, d, stays, entries)
  BY <1>3, <1>4, KeepOutcome, LeaveOutcome
<1> QED BY <1>1, <1>5 DEF d

(* After wakeUp none of the array's connections waits, with all of them or *)
(* without the one that leaves.                                            *)
LEMMA LeaveNone ==
  ASSUME Places, NEW w \in Workers, pc[w] \in Busy, NEW s, NEW d, Others(w, s, d),
         \A j \in 1 .. Own(w) : s[j].status # "WAITING_DATA_ON_CACHE",
         NEW entries, Keep(w, s) \/ Leave(w, s, entries)
  PROVE  NoneWaits(w)'
<1>1. connections \in [Workers -> Seq(Conn)] /\ s \in Seq(Conn) /\ Len(s) = Own(w)
      /\ Own(w) \in Nat /\ Serving(w) \in 1 .. Own(w)
  BY AtConnection DEF Places, WorkerTypes, Others
<1>2. CASE Keep(w, s)
  <2>1. connections'[w] = s
    BY <1>1, <1>2 DEF Keep
  <2> QED BY <1>1, <2>1 DEF NoneWaits, Own
<1>3. CASE Leave(w, s, entries)
  <2> DEFINE t == Moved(s, Serving(w))
  <2>1. connections'[w] = t
    BY <1>1, <1>3 DEF Leave
  <2>2. /\ t \in Seq(Conn) /\ Len(t) = Own(w) - 1
        /\ \A k \in 1 .. Own(w) - 1 : t[k] = s[IF k = Serving(w) THEN Own(w) ELSE k]
    <3>1. /\ Moved(s, Serving(w)) \in Seq(Conn) /\ Len(Moved(s, Serving(w))) = Len(s) - 1
          /\ \A k \in 1 .. Len(s) - 1 :
               Moved(s, Serving(w))[k] = s[IF k = Serving(w) THEN Len(s) ELSE k]
      <4>1. s \in Seq(Conn) /\ Serving(w) \in 1 .. Len(s)
        BY <1>1
      <4> QED BY <4>1, MovedFacts
    <3> QED BY <1>1, <3>1
  <2> HIDE DEF t
  <2>3. \A k \in 1 .. Own(w) - 1 : t[k].status # "WAITING_DATA_ON_CACHE"
    BY <1>1, <2>2
  <2> QED BY <2>1, <2>2, <2>3 DEF NoneWaits, Own
<1> QED BY <1>2, <1>3

(* An entry that fails: its readers are woken, the connection leaves.      *)
LEMMA FailShape ==
  ASSUME Places, NEW w \in Workers, pc[w] \in Busy, NEW e, FailEntry(w, e),
         Connection(w).status \in Writing
  PROVE  Cancelled(w) \/ Faulted
<1> DEFINE c == Connection(w)
<1>1. connections[w] \in Seq(Conn) /\ c \in Conn /\ connections[w][Serving(w)] = c
      /\ Own(w) \in Nat /\ Serving(w) \in 1 .. Own(w)
  BY AtConnection
<1>2. Others(w, connections[w], c)
  BY <1>1 DEF Others, Alike, Own
<1>3. c.status # "WAITING_DATA_ON_CACHE"
  BY DEF Writing
<1> HIDE DEF c
<1>4. CASE e \notin Entries
  BY <1>4 DEF FailEntry, Fault, Faulted
<1>5. CASE e \in Entries
  <2>1. /\ cache' = Invalid(e) /\ Broadcast(e) /\ Leave(w, Woken(connections[w]), Invalid(e))
        /\ UNCHANGED <<cacheSize, loaded, copied, fault, misled, raced, reclaimed>>
    BY <1>5 DEF FailEntry
  <2>2. /\ Others(w, Woken(connections[w]), c)
        /\ \A j \in 1 .. Own(w) : Woken(connections[w])[j].status # "WAITING_DATA_ON_CACHE"
    BY <1>2, <1>3, WokenOthers
  <2>3. Outcome(w, c, FALSE, Invalid(e))
    BY <2>1, <2>2, LeaveOutcome
  <2>4. NoneWaits(w)'
    BY <2>1, <2>2, LeaveNone
  <2>5. Cancelled(w)
    BY <1>1, <1>5, <2>1, <2>3, <2>4 DEF Cancelled, c, EntryOf
  <2> QED BY <2>5
<1> QED BY <1>4, <1>5
-----------------------------------------------------------------------------
(* The handlers, one by one.                                               *)
(* searchCache, with the connection that holds its request.                *)
LEMMA SearchShape ==
  ASSUME Places, NEW w \in Workers, pc[w] \in Busy, NEW s, NEW c \in Conn,
         Others(w, s, c), c.status = "GETTING_REQUEST", c.client = Connection(w).client,
         Connection(w).status = "GETTING_REQUEST", NEW url, url = wants[c.client], url # Nil,
         SearchCache(w, s, url)
  PROVE  Uncached(w) \/ Found(w) \/ Claims(w) \/ Faulted
<1> DEFINE hits == {e \in 1 .. cacheSize : e \notin Entries \/ cache[e].url \in {url, Nil}}
           hit == CHOOSE e \in hits : \A f \in hits : e <= f
           At(e) == [s EXCEPT ![Serving(w)].cacheIndex = e]
           C(e) == [c EXCEPT !.cacheIndex = e]
<1>1. s[Serving(w)] = c
  BY DEF Others
<1>2. ASSUME NEW e \in Entries \cup {Nil}
      PROVE  /\ C(e) \in Conn /\ Others(w, At(e), C(e))
             /\ C(e).cacheIndex = e /\ C(e).status = "GETTING_REQUEST"
             /\ C(e).client = Connection(w).client /\ C(e).client = c.client
  <2>1. C(e) \in Conn
    BY DEF Conn, Reading
  <2>2. At(e) = [s EXCEPT ![Serving(w)] = C(e)]
    BY <1>1
  <2>3. Others(w, [s EXCEPT ![Serving(w)] = C(e)], C(e))
    <3> HIDE DEF C
    <3> QED BY <2>1, PutAgain
  <2>4. C(e).cacheIndex = e /\ C(e).status = "GETTING_REQUEST" /\ C(e).client = c.client
    BY DEF Conn
  <2> QED BY <2>1, <2>2, <2>3, <2>4
<1>3. Nil \in Entries \cup {Nil}
  OBVIOUS
<1> HIDE DEF C
<1>4. CASE /\ hits = {} /\ cacheSize >= MAX_CACHE_SIZE
           /\ Connect(w, At(Nil), cache)
           /\ Racing(w)
           /\ UNCHANGED <<blocked, loaded, copied, cacheVars, fault, misled, reclaimed>>
  <2> DEFINE d == [C(Nil) EXCEPT !.status = "CONNECTING_TO_SERVER"]
  <2>1. Connect(w, At(Nil), cache) /\ Racing(w) /\ Searched
    BY <1>4 DEF Searched
  <2> HIDE DEF At, hits
  <2>2. C(Nil) \in Conn /\ Others(w, At(Nil), C(Nil)) /\ C(Nil).status \notin Reading
    BY <1>2, <1>3 DEF Reading
  <2>3. PICK stays \in BOOLEAN : d \in Conn /\ Outcome(w, d, stays, cache)
    BY <2>1, <2>2, ConnectOutcome
  <2>4. d.client = Connection(w).client /\ d.cacheIndex = Nil
        /\ d.status = "CONNECTING_TO_SERVER"
    BY <1>2, <1>3 DEF Conn
  <2> HIDE DEF d
  <2> QED BY <2>1, <2>3, <2>4 DEF Uncached
<1>5. CASE /\ hits = {} /\ cacheSize < MAX_CACHE_SIZE
           /\ connections' = [connections EXCEPT ![w] = At(Nil)]
           /\ Goto(w, "load")
           /\ Racing(w)
           /\ UNCHANGED <<allConnectionsCount, todo, blocked, loaded, copied, cacheVars,
                          fault, misled, reclaimed, abandoned>>
  <2>1. /\ Goto(w, "load") /\ Racing(w) /\ Searched
        /\ UNCHANGED <<todo, allConnectionsCount, abandoned>>
        /\ connections' = [connections EXCEPT ![w] = At(Nil)]
        /\ cacheSize < MAX_CACHE_SIZE
    BY <1>5 DEF Searched
  <2> HIDE DEF At, hits
  <2>2. PICK label \in Labels : label = "load"
    BY DEF Labels, Busy, Claiming
  <2>3. PICK d, t : d = C(Nil) /\ t = At(Nil)
    OBVIOUS
  <2>4. /\ d \in Conn /\ Others(w, t, d) /\ d.cacheIndex = Nil
        /\ d.status = "GETTING_REQUEST" /\ d.client = Connection(w).client
        /\ wants[d.client] # Nil
    BY <1>2, <1>3, <2>3
  <2>5. connections' = [connections EXCEPT ![w] = t]
    BY <2>1, <2>3
  <2>6. /\ Turn(w, d, TRUE) /\ pc'[w] = label /\ todo'[w] = todo[w]
        /\ Connection(w)' = d
    <3>1. Goto(w, label) /\ UNCHANGED <<todo, allConnectionsCount>>
      BY <2>1, <2>2
    <3> QED BY <2>4, <2>5, <3>1, StandTurn
  <2> QED BY <2>1, <2>2, <2>4, <2>6 DEF Claims
<1>6. CASE Fault("no url")
  BY <1>6 DEF Fault, Faulted
<1>7. ASSUME hit \in Entries, cache[hit].url = url
      PROVE  hit \in Entries \cup {Nil} /\ Matches(C(hit))
  BY <1>2, <1>7 DEF Matches
<1>8. CASE /\ hits # {}
           /\ hit \in Entries /\ cache[hit].url = url /\ cache[hit].status # "INVALID"
           /\ Keep(w, [At(hit) EXCEPT ![Serving(w)].status = "RESPONDING_FROM_CACHE",
                                      ![Serving(w)].buffer = 0,
                                      ![Serving(w)].cacheBytesWritten = 0])
           /\ Racing(w)
           /\ UNCHANGED <<blocked, loaded, copied, cacheVars, fault, misled, reclaimed>>
  <2> DEFINE t == [At(hit) EXCEPT ![Serving(w)].status = "RESPONDING_FROM_CACHE",
                                  ![Serving(w)].buffer = 0,
                                  ![Serving(w)].cacheBytesWritten = 0]
             d == [C(hit) EXCEPT !.status = "RESPONDING_FROM_CACHE", !.buffer = 0,
                                 !.cacheBytesWritten = 0]
  <2>1. /\ hit \in Entries /\ cache[hit].url = url /\ cache[hit].status # "INVALID"
        /\ Keep(w, t) /\ Racing(w) /\ Searched
    BY <1>8 DEF Searched
  <2>2. C(hit) \in Conn /\ C(hit).cacheIndex = hit /\ C(hit).client = c.client
        /\ Others(w, At(hit), C(hit)) /\ Matches(C(hit))
    BY <1>2, <1>7, <2>1
  <2> HIDE DEF At, hit
  <2>3. At(hit) \in Seq(Conn) /\ At(hit)[Serving(w)] = C(hit)
        /\ Serving(w) \in DOMAIN At(hit)
    <3>1. At(hit) \in Seq(Conn) /\ At(hit)[Serving(w)] = C(hit) /\ Len(At(hit)) = Own(w)
      BY <2>2 DEF Others
    <3>2. Serving(w) \in 1 .. Own(w)
      BY AtConnection
    <3> QED BY <3>1, <3>2, LenProperties
  <2>4. t = [At(hit) EXCEPT ![Serving(w)] = d]
    BY <2>3
  <2>5. d \in Conn
    <3>1. C(hit) \in Conn /\ C(hit).cacheIndex \in Entries
      BY <2>2 DEF Matches
    <3>2. PICK x : x = C(hit)
      OBVIOUS
    <3>3. [x EXCEPT !.status = "RESPONDING_FROM_CACHE"] \in Conn
      BY <3>1, <3>2 DEF Conn, Statuses, Reading
    <3>4. \A y \in Conn : [y EXCEPT !.buffer = 0, !.cacheBytesWritten = 0] \in Conn
      <4>1. \A y \in Conn : [y EXCEPT !.buffer = 0] \in Conn
        BY DEF Conn
      <4>2. \A y \in Conn : [y EXCEPT !.cacheBytesWritten = 0] \in Conn
        BY DEF Conn
      <4>3. \A y : [y EXCEPT !.buffer = 0, !.cacheBytesWritten = 0]
                      = [[y EXCEPT !.buffer = 0] EXCEPT !.cacheBytesWritten = 0]
        OBVIOUS
      <4> QED BY <4>1, <4>2, <4>3
    <3>5. PICK y \in Conn : y = [x EXCEPT !.status = "RESPONDING_FROM_CACHE"]
      BY <3>3
    <3>6. d = [y EXCEPT !.buffer = 0, !.cacheBytesWritten = 0]
      BY <3>2, <3>5
    <3> QED BY <3>4, <3>6
  <2>6. /\ d.status = "RESPONDING_FROM_CACHE" /\ d.cacheBytesWritten = 0
        /\ d.client = c.client /\ d.cacheIndex = hit
    BY <2>2 DEF Conn
  <2> HIDE DEF d
  <2>7. Others(w, t, d)
    BY <2>2, <2>4, <2>5, PutAgain
  <2> HIDE DEF t
  <2>8. Outcome(w, d, TRUE, cache)
    BY <2>1, <2>7, KeepOutcome
  <2>9. Matches(d)
    BY <2>2, <2>6 DEF Matches
  <2> QED BY <2>1, <2>5, <2>6, <2>8, <2>9 DEF Found
<1>9. CASE /\ hits # {}
           /\ hit \in Entries /\ cache[hit].url = url /\ cache[hit].status = "INVALID"
           /\ connections' = [connections EXCEPT ![w] = At(hit)]
           /\ Goto(w, "reclaim")
           /\ Racing(w)
           /\ UNCHANGED <<allConnectionsCount, todo, blocked, loaded, copied, cacheVars,
                          fault, misled, reclaimed, abandoned>>
  <2>1. /\ Goto(w, "reclaim") /\ Racing(w) /\ Searched
        /\ UNCHANGED <<todo, allConnectionsCount, abandoned>>
        /\ connections' = [connections EXCEPT ![w] = At(hit)]
    BY <1>9 DEF Searched
  <2>2. /\ Matches(C(hit)) /\ Others(w, At(hit), C(hit)) /\ C(hit) \in Conn
        /\ C(hit).status = "GETTING_REQUEST" /\ C(hit).client = Connection(w).client
        /\ C(hit).cacheIndex = hit
    BY <1>2, <1>7, <1>9
  <2> HIDE DEF At, hit
  <2>3. PICK label \in Labels : label = "reclaim"
    BY DEF Labels, Busy, Claiming
  <2>4. PICK d, t : d = C(hit) /\ t = At(hit)
    OBVIOUS
  <2>5. /\ d \in Conn /\ Others(w, t, d) /\ Matches(d)
        /\ d.status = "GETTING_REQUEST" /\ d.client = Connection(w).client
        /\ wants[d.client] # Nil
    BY <2>2, <2>4 DEF Matches
  <2>6. connections' = [connections EXCEPT ![w] = t]
    BY <2>1, <2>4
  <2>7. /\ Turn(w, d, TRUE) /\ pc'[w] = label /\ todo'[w] = todo[w]
        /\ Connection(w)' = d
    <3>1. Goto(w, label) /\ UNCHANGED <<todo, allConnectionsCount>>
      BY <2>1, <2>3
    <3> QED BY <2>5, <2>6, <3>1, StandTurn
  <2> QED BY <2>1, <2>3, <2>5, <2>7 DEF Claims
<1> QED
  BY <1>4, <1>5, <1>6, <1>8, <1>9 DEF SearchCache

(* GETTING_REQUEST.                                                        *)
LEMMA GettingShape ==
  ASSUME Places, NEW w \in Workers, pc[w] \in Busy, GettingRequest(w)
  PROVE  Plain(w) \/ Uncached(w) \/ Found(w) \/ Claims(w) \/ Faulted
<1> DEFINE c == Connection(w)
           Holding(level) == [connections[w] EXCEPT ![Serving(w)].buffer = level]
           D(level) == [c EXCEPT !.buffer = level]
<1>1. c \in Conn /\ connections[w][Serving(w)] = c /\ c.status = "GETTING_REQUEST"
  BY AtConnection DEF GettingRequest
<1>2. ASSUME NEW level \in allocateMemory(c)
      PROVE  /\ D(level) \in Conn /\ Same(c, D(level))
             /\ D(level).status = "GETTING_REQUEST" /\ D(level).client = c.client
             /\ Holding(level) = [connections[w] EXCEPT ![Serving(w)] = D(level)]
             /\ Others(w, [connections[w] EXCEPT ![Serving(w)] = D(level)], D(level))
  <2>1. level \in Int
    BY <1>1 DEF allocateMemory, Conn
  <2>2. D(level) \in Conn /\ Same(c, D(level))
        /\ D(level).status = "GETTING_REQUEST" /\ D(level).client = c.client
    <3> HIDE DEF c
    <3> QED BY <1>1, <2>1 DEF Conn, Same
  <2>3. Holding(level) = [connections[w] EXCEPT ![Serving(w)] = D(level)]
    BY <1>1
  <2>4. Others(w, [connections[w] EXCEPT ![Serving(w)] = D(level)], D(level))
    <3> HIDE DEF D
    <3> QED BY <2>2, PutOthers
  <2> QED BY <2>2, <2>3, <2>4
<1>3. CASE Drop(w) /\ UNCHANGED Private
  BY <1>3, DropPlain
<1>4. ASSUME NEW level \in allocateMemory(c),
             Keep(w, Holding(level)) \/ Leave(w, Holding(level), cache), UNCHANGED Private
      PROVE  Plain(w)
  <2>1. PICK d, s : d = D(level) /\ s = Holding(level)
    OBVIOUS
  <2>2. /\ d \in Conn /\ Same(Connection(w), d) /\ d.status # "WAITING_DATA_ON_CACHE"
        /\ s = [connections[w] EXCEPT ![Serving(w)] = d]
    BY <1>2, <2>1
  <2>3. Keep(w, s) \/ Leave(w, s, cache)
    BY <1>4, <2>1
  <2> QED BY <1>4, <2>2, <2>3, PutPlain
<1>5. ASSUME NEW level \in allocateMemory(c), NEW url, url = getUrlFromData(c, level),
             url # Nil, SearchCache(w, Holding(level), url)
      PROVE  Uncached(w) \/ Found(w) \/ Claims(w) \/ Faulted
  <2>1. PICK d, s : d = D(level) /\ s = Holding(level)
    OBVIOUS
  <2>2. /\ d \in Conn /\ Others(w, s, d) /\ d.status = "GETTING_REQUEST"
        /\ d.client = Connection(w).client
    BY <1>2, <2>1
  <2>3. url = wants[d.client]
    BY <1>5, <2>2 DEF getUrlFromData
  <2>4. SearchCache(w, s, url) /\ Connection(w).status = "GETTING_REQUEST"
    BY <1>1, <1>5, <2>1
  <2> QED BY <1>5, <2>2, <2>3, <2>4, SearchShape
<1>6. CASE \E level \in allocateMemory(c) :
             NoHost(getUrlFromData(c, level))
  BY <1>6 DEF NoHost, Fault, Faulted
<1> HIDE DEF Holding, D, c
<1>7. \/ Drop(w) /\ UNCHANGED Private
      \/ \E level \in allocateMemory(c) :
           \/ (Keep(w, Holding(level)) \/ Leave(w, Holding(level), cache)) /\ UNCHANGED Private
           \/ NoHost(getUrlFromData(c, level))
           \/ /\ getUrlFromData(c, level) # Nil
              /\ SearchCache(w, Holding(level), getUrlFromData(c, level))
  BY DEF GettingRequest, c, Holding
<1> QED BY <1>3, <1>4, <1>5, <1>6, <1>7

(* CONNECTING_TO_SERVER.                                                   *)
LEMMA ConnectingShape ==
  ASSUME Places, NEW w \in Workers, pc[w] \in Busy, ConnectingToServer(w)
  PROVE  Plain(w)
<1>1. PICK c : c = Connection(w)
  OBVIOUS
<1>2. PICK d : d = [c EXCEPT !.status = "WRITING_REQUEST"]
  OBVIOUS
<1>3. c \in Conn /\ c.status = "CONNECTING_TO_SERVER"
  BY <1>1, AtConnection DEF ConnectingToServer
<1>4. d \in Conn /\ Same(c, d) /\ d.status # "WAITING_DATA_ON_CACHE"
  BY <1>2, <1>3 DEF Conn, Same, Statuses, Writing, Reading
<1>5. Become(w, d) /\ UNCHANGED Private
  BY <1>1, <1>2 DEF ConnectingToServer
<1> QED BY <1>1, <1>4, <1>5, BecomePlain

(* WRITING_REQUEST.                                                        *)
LEMMA WritingShape ==
  ASSUME Places, NEW w \in Workers, pc[w] \in Busy, WritingRequest(w)
  PROVE  Plain(w) \/ Cancelled(w) \/ Faulted
<1>1. PICK c : c = Connection(w)
  OBVIOUS
<1>2. c \in Conn /\ c.status = "WRITING_REQUEST"
  BY <1>1, AtConnection DEF WritingRequest
<1>3. CASE FailEntry(w, Serving(w))
  <2>1. Connection(w).status \in Writing
    BY <1>1, <1>2 DEF Writing
  <2> QED BY <1>3, <2>1, FailShape
<1>4. CASE Become(w, [c EXCEPT !.status = "FORWARDING_RESPONSE", !.buffer = 0])
           /\ UNCHANGED Private
  <2>1. PICK d : d = [c EXCEPT !.status = "FORWARDING_RESPONSE", !.buffer = 0]
    OBVIOUS
  <2>2. d \in Conn /\ Same(c, d) /\ d.status # "WAITING_DATA_ON_CACHE"
    <3>1. PICK b : b = [c EXCEPT !.status = "FORWARDING_RESPONSE"]
      OBVIOUS
    <3>2. b \in Conn /\ Same(c, b) /\ b.status = "FORWARDING_RESPONSE"
      BY <1>2, <3>1 DEF Conn, Same, Statuses, Writing, Reading
    <3>3. d = [b EXCEPT !.buffer = 0]
      BY <2>1, <3>1
    <3>4. d \in Conn /\ Same(b, d) /\ d.status = b.status
      BY <3>2, <3>3 DEF Conn, Same
    <3> QED BY <3>2, <3>4 DEF Same
  <2> QED BY <1>1, <1>4, <2>1, <2>2, BecomePlain
<1>5. CASE Become(w, [c EXCEPT !.status = "FORWARDING_REQUEST"]) /\ UNCHANGED Private
  <2>1. PICK d : d = [c EXCEPT !.status = "FORWARDING_REQUEST"]
    OBVIOUS
  <2>2. d \in Conn /\ Same(c, d) /\ d.status # "WAITING_DATA_ON_CACHE"
    BY <1>2, <2>1 DEF Conn, Same, Statuses, Writing, Reading
  <2> QED BY <1>1, <1>5, <2>1, <2>2, BecomePlain
<1>6. CASE \E what : Fault(what)
  BY <1>6 DEF Fault, Faulted
<1>7. CASE Leave(w, Woken(connections[w]), cache) /\ UNCHANGED Private
  <2>1. Connection(w).status # "WAITING_DATA_ON_CACHE"
    BY <1>1, <1>2
  <2> QED BY <1>7, <2>1, WokenPlain
<1> QED BY <1>1, <1>3, <1>4, <1>5, <1>6, <1>7 DEF WritingRequest

(* FORWARDING_REQUEST.                                                     *)
LEMMA RequestShape ==
  ASSUME Places, NEW w \in Workers, pc[w] \in Busy, ForwardingRequest(w)
  PROVE  Plain(w) \/ Faulted
<1>1. PICK c : c = Connection(w)
  OBVIOUS
<1>2. c \in Conn /\ c.status = "FORWARDING_REQUEST"
  BY <1>1, AtConnection DEF ForwardingRequest
<1>3. Same(c, c) /\ c.status # "WAITING_DATA_ON_CACHE"
  BY <1>2 DEF Same
<1>4. CASE Drop(w) /\ UNCHANGED Private
  BY <1>4, DropPlain
<1>5. CASE Become(w, c) /\ UNCHANGED Private
  BY <1>1, <1>2, <1>3, <1>5, BecomePlain
<1>6. CASE \E what : Fault(what)
  BY <1>6 DEF Fault, Faulted
<1> QED BY <1>1, <1>4, <1>5, <1>6 DEF ForwardingRequest

(* A unit that is stored, with the readers woken: the entry goes on, or is *)
(* complete and its writer leaves.                                         *)
LEMMA WrittenShape ==
  ASSUME Places, NEW w \in Workers, pc[w] \in Busy, cache \in [Entries -> Entry],
         NEW s, NEW d \in Conn, Others(w, s, d), NEW e \in Entries, NEW entry \in Entry,
         Received(Connection(w), d), d.cacheIndex = e, Longer(cache[e], d, entry),
         entry.status = cache[e].status, Written(w, s, e, entry),
         UNCHANGED <<loaded, copied, cacheSize, fault, misled, raced, reclaimed>>
  PROVE  Stored(w)
<1>1. d.status # "WAITING_DATA_ON_CACHE"
  BY DEF Received
<1>2. /\ Others(w, Woken(s), d)
      /\ \A j \in 1 .. Own(w) : Woken(s)[j].status # "WAITING_DATA_ON_CACHE"
  BY <1>1, WokenOthers
<1>3. PICK t : t = Woken(s)
  OBVIOUS
<1>4. Broadcast(e)
  BY DEF Written
<1>5. CASE Complete(entry)
  <2>1. PICK more : more = [entry EXCEPT !.status = "VALID"]
    OBVIOUS
  <2>2. PICK entries : entries = [cache EXCEPT ![e] = more]
    OBVIOUS
  <2>3. cache' = entries /\ Leave(w, t, entries)
    BY <1>3, <1>5, <2>1, <2>2 DEF Written
  <2>4. more \in Entry /\ Longer(cache[e], d, more) /\ more.status = "VALID"
        /\ more.alreadyWritten = more.allSize
    BY <1>5, <2>1 DEF Entry, Longer, Complete
  <2>5. Outcome(w, d, FALSE, entries) /\ NoneWaits(w)'
    BY <1>2, <1>3, <2>3, LeaveOutcome, LeaveNone
  <2> QED BY <1>4, <2>2, <2>3, <2>4, <2>5 DEF Stored
<1>6. CASE ~Complete(entry)
  <2>1. PICK entries : entries = [cache EXCEPT ![e] = entry]
    OBVIOUS
  <2>2. cache' = entries /\ Keep(w, t)
    BY <1>3, <1>6, <2>1 DEF Written
  <2>3. Outcome(w, d, TRUE, entries) /\ NoneWaits(w)'
    BY <1>2, <1>3, <2>2, KeepOutcome, LeaveNone
  <2>4. entry.alreadyWritten # entry.allSize
    BY <1>6 DEF Complete
  <2> QED BY <1>4, <2>1, <2>2, <2>3, <2>4 DEF Stored
<1> QED BY <1>5, <1>6

(* What the answers of the servers say of themselves.                      *)
LEMMA KindFacts ==
  ASSUME NEW kind \in Kinds
  PROVE  /\ getContentLengthFromData(kind) # -1 /\ getResponseCodeFromData(kind) = 200
              => kind \in {"ok", "short"} /\ getContentLengthFromData(kind) \in Nat \ {0}
         /\ getContentLengthFromData(kind) # -1 /\ getResponseCodeFromData(kind) # 200
              => kind \notin {"ok", "short"}
         /\ getContentLengthFromData(kind) = -1 => kind \notin {"ok", "short"}
<1>1. kind \in {"ok", "short", "error", "nolength", "nobody"} /\ Size \in Nat \ {0}
  BY ProxyAssumption
<1> QED BY <1>1 DEF getContentLengthFromData, getResponseCodeFromData, Length

(* The invalid entry whose connection may stay, to receive more.           *)
LEMMA InvalidShape ==
  ASSUME Places, NEW w \in Workers, pc[w] \in Busy,
         NEW t, NEW d \in Conn, Others(w, t, d), NEW e \in Entries,
         \A j \in 1 .. Own(w) : t[j].status # "WAITING_DATA_ON_CACHE",
         Received(Connection(w), d), d.cacheIndex = e,
         cache[e].alreadyWritten = 0, d.kind \notin {"ok", "short"},
         cache' = Invalid(e), Broadcast(e), Keep(w, t) \/ Leave(w, t, Invalid(e)),
         UNCHANGED <<loaded, copied, cacheSize, fault, misled, raced, reclaimed>>
  PROVE  Cancelled(w)
<1>1. NoneWaits(w)'
  BY LeaveNone
<1>2. Connection(w).status \in Writing /\ d.status \in Writing /\ d.cacheIndex = EntryOf(w)
  BY DEF Received, Writing, EntryOf
<1>3. CASE Keep(w, t)
  <2>1. Outcome(w, d, TRUE, Invalid(e))
    BY <1>3, KeepOutcome
  <2> QED BY <1>1, <2>1 DEF Cancelled
<1>4. CASE Leave(w, t, Invalid(e))
  <2>1. Outcome(w, d, FALSE, Invalid(e))
    BY <1>4, LeaveOutcome
  <2> QED BY <1>1, <1>2, <2>1 DEF Cancelled
<1> QED BY <1>3, <1>4

(* The first units of a response.                                          *)
LEMMA HeaderShape ==
  ASSUME Places, NEW w \in Workers, pc[w] \in Busy, cache \in [Entries -> Entry],
         wants \in [Clients -> Urls \cup {Nil}],
         NEW s, NEW d \in Conn, Others(w, s, d), NEW e \in Entries,
         Received(Connection(w), d), d.cacheIndex = e, cache[e].alreadyWritten = 0,
         NEW unit, unit = <<wants[d.client], d.units>>, WriteHeader(w, s, e, unit),
         UNCHANGED <<loaded, copied, cacheSize, fault, misled, raced, reclaimed>>
  PROVE  Stored(w) \/ Cancelled(w) \/ Relayed(w)
<1>1. s[Serving(w)] = d /\ Connection(w) \in Conn
  BY AtConnection DEF Others
<1>2. Connection(w).units \in Nat /\ d.units = Connection(w).units + 1
  BY <1>1 DEF Conn, Received
<1>3. d.kind \in Kinds
  BY <1>2 DEF Conn
<1>4. PICK statusCode, contentLength :
        /\ statusCode = getResponseCodeFromData(d.kind)
        /\ contentLength = getContentLengthFromData(d.kind)
  OBVIOUS
<1>5. /\ contentLength # -1 /\ statusCode = 200
           => d.kind \in {"ok", "short"} /\ contentLength \in Nat \ {0}
      /\ contentLength = -1 \/ statusCode # 200 => d.kind \notin {"ok", "short"}
  BY <1>3, <1>4, KindFacts
<1>6. d.status # "WAITING_DATA_ON_CACHE" /\ d.status = "FORWARDING_RESPONSE"
  BY DEF Received
<1>7. /\ Others(w, Woken(s), d)
      /\ \A j \in 1 .. Own(w) : Woken(s)[j].status # "WAITING_DATA_ON_CACHE"
  BY <1>6, WokenOthers
<1>8. CASE ~HeaderEnds(d) /\ Keep(w, s) /\ UNCHANGED <<blocked, cache>>
  <2>1. Outcome(w, d, TRUE, cache)
    BY <1>8, KeepOutcome
  <2>2. Connection(w).units > 0
    BY <1>2, <1>8 DEF HeaderEnds
  <2>3. UNCHANGED Private
    BY <1>8 DEF Private, cacheVars
  <2> QED BY <2>1, <2>2, <2>3 DEF Relayed
<1>9. ASSUME contentLength # -1, statusCode = 200,
             NEW entry, entry = [cache[e] EXCEPT !.allSize = contentLength, !.data = <<unit>>,
                                          !.memory = "alloc", !.alreadyWritten = 1],
             Written(w, IF Complete(entry) THEN FreedLast(s) ELSE s, e, entry)
      PROVE  Stored(w)
  <2>1. cache[e] \in Entry /\ d.client \in Clients /\ d.units \in Nat
    BY DEF Conn
  <2>2. unit \in (Urls \cup {Nil}) \X Nat
    BY <2>1
  <2>3. <<unit>> \in Seq((Urls \cup {Nil}) \X Nat)
    BY <2>2
  <2>4. PICK data : data = <<unit>>
    OBVIOUS
  <2>5. entry \in Entry /\ entry.status = cache[e].status
        /\ entry.url = cache[e].url /\ entry.writerId = cache[e].writerId
        /\ entry.data = data /\ entry.alreadyWritten = 1 /\ entry.allSize = contentLength
    <3>1. PICK x \in Entry : x = cache[e]
      BY <2>1
    <3>2. entry = [x EXCEPT !.allSize = contentLength, !.data = data, !.memory = "alloc",
                            !.alreadyWritten = 1]
      BY <1>9, <2>4, <3>1
    <3>3. data \in Seq((Urls \cup {Nil}) \X Nat) /\ contentLength \in Nat
      BY <1>5, <1>9, <2>3, <2>4
    <3>4. entry = [status |-> x.status, writerId |-> x.writerId, url |-> x.url, data |-> data,
                   memory |-> "alloc", alreadyWritten |-> 1, allSize |-> contentLength]
      BY <3>2 DEF Entry
    <3>5. entry \in Entry
      BY <3>3, <3>4 DEF Entry
    <3> QED BY <3>1, <3>4, <3>5
  <2>6. Longer(cache[e], d, entry)
    BY <1>5, <1>9, <2>4, <2>5 DEF Longer
  <2>7. CASE ~Complete(entry)
    <3>1. Written(w, s, e, entry)
      BY <1>9, <2>7
    <3> QED BY <2>5, <2>6, <3>1, WrittenShape
  <2>8. CASE Complete(entry)
    <3>1. PICK b \in Int : Others(w, FreedLast(s), [d EXCEPT !.buffer = b])
      BY FreedOthers
    <3>2. PICK f, r : f = [d EXCEPT !.buffer = b] /\ r = FreedLast(s)
      OBVIOUS
    <3>3. f \in Conn /\ Received(Connection(w), f) /\ f.cacheIndex = e
          /\ Longer(cache[e], f, entry)
      BY <2>6, <3>2 DEF Conn, Received, Longer
    <3>4. Written(w, r, e, entry) /\ Others(w, r, f)
      BY <1>9, <2>8, <3>1, <3>2
    <3> QED BY <2>5, <3>3, <3>4, WrittenShape
  <2> QED BY <2>7, <2>8
<1>10. ASSUME NEW buffer \in Int, d.kind \notin {"ok", "short"}, cache' = Invalid(e),
              Broadcast(e), Keep(w, [Woken(s) EXCEPT ![Serving(w)].buffer = buffer])
       PROVE  Cancelled(w)
  <2>1. PICK f, r : f = [d EXCEPT !.buffer = buffer] /\ r = Woken(s)
    OBVIOUS
  <2>2. PICK t : t = [r EXCEPT ![Serving(w)] = f]
    OBVIOUS
  <2>3. f \in Conn /\ Received(Connection(w), f) /\ f.cacheIndex = e /\ f.kind = d.kind
        /\ f.status = d.status
    BY <2>1 DEF Conn, Received
  <2>4. Others(w, t, f)
    BY <1>7, <2>1, <2>2, <2>3, PutAgain
  <2>5. t = [Woken(s) EXCEPT ![Serving(w)].buffer = buffer]
    BY <1>7, <2>1, <2>2 DEF Others
  <2>6. Keep(w, t)
    BY <1>10, <2>5
  <2>7. \A j \in 1 .. Own(w) : t[j].status # "WAITING_DATA_ON_CACHE"
    <3>1. r \in Seq(Conn) /\ Len(r) = Own(w)
      BY <1>7, <2>1 DEF Others
    <3>2. \A j \in 1 .. Own(w) : t[j] = f \/ t[j] = r[j]
      BY <2>2, <3>1
    <3> QED BY <1>6, <1>7, <2>1, <2>3, <3>2
  <2> QED BY <1>10, <2>3, <2>4, <2>6, <2>7, InvalidShape
<1>11. ASSUME d.kind \notin {"ok", "short"}, cache' = Invalid(e), Broadcast(e),
              Leave(w, Woken(s), Invalid(e))
       PROVE  Cancelled(w)
  <2>1. PICK t : t = Woken(s)
    OBVIOUS
  <2> QED BY <1>7, <1>11, <2>1, InvalidShape
<1> QED
  <2>1. PICK c : c = s[Serving(w)]
    OBVIOUS
  <2>2. PICK entry : entry = [cache[e] EXCEPT !.allSize = getContentLengthFromData(c.kind),
                                !.data = <<unit>>, !.memory = "alloc", !.alreadyWritten = 1]
    OBVIOUS
  <2>3. \/ ~HeaderEnds(c) /\ Keep(w, s) /\ UNCHANGED <<blocked, cache>>
        \/ /\ getContentLengthFromData(c.kind) # -1 /\ getResponseCodeFromData(c.kind) = 200
           /\ Written(w, IF Complete(entry) THEN FreedLast(s) ELSE s, e, entry)
        \/ /\ getContentLengthFromData(c.kind) # -1 /\ getResponseCodeFromData(c.kind) # 200
           /\ cache' = Invalid(e) /\ Broadcast(e)
           /\ Keep(w, [Woken(s) EXCEPT ![Serving(w)].buffer = 0])
        \/ /\ getContentLengthFromData(c.kind) = -1
           /\ cache' = Invalid(e) /\ Broadcast(e)
           /\ Keep(w, [Woken(s) EXCEPT ![Serving(w)].buffer = 1])
        \/ /\ getContentLengthFromData(c.kind) = -1
           /\ cache' = Invalid(e) /\ Broadcast(e)
           /\ Leave(w, Woken(s), Invalid(e))
    BY <2>1, <2>2 DEF WriteHeader, Cacheable
  <2>4. c = d
    BY <1>1, <2>1
  <2>5. CASE ~HeaderEnds(c) /\ Keep(w, s) /\ UNCHANGED <<blocked, cache>>
    BY <1>8, <2>4, <2>5
  <2>6. CASE /\ getContentLengthFromData(c.kind) # -1 /\ getResponseCodeFromData(c.kind) = 200
             /\ Written(w, IF Complete(entry) THEN FreedLast(s) ELSE s, e, entry)
    <3>1. entry = [cache[e] EXCEPT !.allSize = contentLength, !.data = <<unit>>,
                                   !.memory = "alloc", !.alreadyWritten = 1]
      BY <1>4, <2>2, <2>4
    <3> QED BY <1>4, <1>9, <2>4, <2>6, <3>1
  <2>7. CASE /\ getContentLengthFromData(c.kind) # -1 /\ getResponseCodeFromData(c.kind) # 200
             /\ cache' = Invalid(e) /\ Broadcast(e)
             /\ Keep(w, [Woken(s) EXCEPT ![Serving(w)].buffer = 0])
    BY <1>4, <1>5, <1>10, <2>4, <2>7
  <2>8. CASE /\ getContentLengthFromData(c.kind) = -1
             /\ cache' = Invalid(e) /\ Broadcast(e)
             /\ Keep(w, [Woken(s) EXCEPT ![Serving(w)].buffer = 1])
    BY <1>4, <1>5, <1>10, <2>4, <2>8
  <2>9. CASE /\ getContentLengthFromData(c.kind) = -1
             /\ cache' = Invalid(e) /\ Broadcast(e)
             /\ Leave(w, Woken(s), Invalid(e))
    BY <1>4, <1>5, <1>11, <2>4, <2>9
  <2> QED BY <2>3, <2>5, <2>6, <2>7, <2>8, <2>9

(* FORWARDING_RESPONSE.                                                    *)
LEMMA ResponseShape ==
  ASSUME Places, NEW w \in Workers, pc[w] \in Busy, cache \in [Entries -> Entry],
         wants \in [Clients -> Urls \cup {Nil}], ForwardingResponse(w)
  PROVE  Plain(w) \/ Cancelled(w) \/ Stored(w) \/ Relayed(w) \/ Faulted
<1>1. PICK c, e : c = Connection(w) /\ e = c.cacheIndex
  OBVIOUS
<1>2. c \in Conn /\ c.status = "FORWARDING_RESPONSE" /\ e \in Entries \cup {Nil}
  BY <1>1, AtConnection DEF ForwardingResponse, Conn
<1>3. CASE Drop(w) /\ UNCHANGED Private
  BY <1>3, DropPlain
<1>4. CASE FailEntry(w, e)
  <2>1. Connection(w).status \in Writing
    BY <1>1, <1>2 DEF Writing
  <2> QED BY <1>4, <2>1, FailShape
<1>5. CASE Fault("beyond the data")
  BY <1>5 DEF Fault, Faulted
<1>6. ASSUME NEW kind \in IF c.units = 0 THEN Kinds ELSE {c.kind},
             NEW d, d = [c EXCEPT !.units = @ + 1, !.kind = kind],
             NEW unit, unit = <<wants[c.client], d.units>>,
             Forward(w, [connections[w] EXCEPT ![Serving(w)] = d], e, unit),
             UNCHANGED <<loaded, copied, cacheSize, fault, misled, raced, reclaimed>>
      PROVE  Stored(w) \/ Cancelled(w) \/ Relayed(w)
  <2>1. c.units \in Nat /\ kind \in Kinds /\ (c.units > 0 => kind = c.kind)
    BY <1>2 DEF Conn
  <2>2. PICK n : n = c.units + 1
    OBVIOUS
  <2>3. d = [c EXCEPT !.units = n, !.kind = kind] /\ n \in Nat \ {0}
    BY <1>6, <2>1, <2>2
  <2>4. d = [client |-> c.client, status |-> c.status, buffer |-> c.buffer,
             cacheIndex |-> c.cacheIndex, cacheBytesWritten |-> c.cacheBytesWritten,
             units |-> n, kind |-> kind]
    BY <1>2, <2>3 DEF Conn
  <2>5. d \in Conn
    BY <1>2, <2>1, <2>3, <2>4 DEF Conn
  <2>6. Received(c, d) /\ d.client = c.client /\ d.cacheIndex = e /\ d.kind = kind
    BY <1>1, <1>2, <2>1, <2>2, <2>4 DEF Received
  <2>7. PICK s : s = [connections[w] EXCEPT ![Serving(w)] = d]
    OBVIOUS
  <2>8. Others(w, s, d)
    BY <2>5, <2>7, PutOthers
  <2>9. Received(Connection(w), d) /\ unit = <<wants[d.client], d.units>>
    BY <1>1, <1>6, <2>6
  <2>10. CASE e = Nil /\ Keep(w, s) /\ UNCHANGED <<blocked, cache>>
    <3>1. Outcome(w, d, TRUE, cache)
      BY <2>8, <2>10, KeepOutcome
    <3>2. UNCHANGED Private
      BY <1>6, <2>10 DEF Private, cacheVars
    <3> QED BY <2>5, <2>6, <2>9, <2>10, <3>1, <3>2 DEF Relayed
  <2>11. CASE e # Nil /\ cache[e].alreadyWritten = 0 /\ WriteHeader(w, s, e, unit)
    <3>1. e \in Entries
      BY <1>2, <2>11
    <3> QED BY <1>6, <2>5, <2>6, <2>8, <2>9, <2>11, <3>1, HeaderShape
  <2>12. ASSUME e # Nil, cache[e].alreadyWritten \in 1 .. cache[e].allSize - 1,
                Written(w, s, e, [cache[e] EXCEPT !.alreadyWritten = @ + 1,
                                                  !.data = Append(@, unit)])
         PROVE  Stored(w)
    <3>1. e \in Entries /\ cache[e] \in Entry
      BY <1>2, <2>12
    <3>2. PICK x, data, m : /\ x \in Entry /\ x = cache[e] /\ data = Append(x.data, unit)
                            /\ m = x.alreadyWritten + 1
      BY <3>1
    <3>3. PICK entry : entry = [x EXCEPT !.alreadyWritten = m, !.data = data]
      OBVIOUS
    <3>4. entry = [cache[e] EXCEPT !.alreadyWritten = @ + 1, !.data = Append(@, unit)]
      BY <3>2, <3>3 DEF Entry
    <3>5. unit \in (Urls \cup {Nil}) \X Nat
      BY <2>3, <2>4, <1>2, <1>6 DEF Conn
    <3>6. data \in Seq((Urls \cup {Nil}) \X Nat) /\ m \in Nat
      BY <3>2, <3>5 DEF Entry
    <3>7. entry = [status |-> x.status, writerId |-> x.writerId, url |-> x.url, data |-> data,
                   memory |-> x.memory, alreadyWritten |-> m, allSize |-> x.allSize]
      BY <3>2, <3>3 DEF Entry
    <3>8. entry \in Entry
      BY <3>2, <3>6, <3>7 DEF Entry
    <3>9. Longer(cache[e], d, entry) /\ entry.status = cache[e].status
      BY <2>9, <2>12, <3>2, <3>7 DEF Longer
    <3>10. Written(w, s, e, entry)
      BY <2>12, <3>4
    <3> QED BY <1>6, <2>5, <2>6, <2>8, <2>9, <3>1, <3>8, <3>9, <3>10, WrittenShape
  <2> QED BY <1>6, <2>7, <2>10, <2>11, <2>12 DEF Forward
<1>7. \/ Drop(w) /\ UNCHANGED Private
      \/ FailEntry(w, e)
      \/ Fault("beyond the data")
      \/ \E kind \in IF c.units = 0 THEN Kinds ELSE {c.kind} :
           LET d == [c EXCEPT !.units = @ + 1, !.kind = kind]
               unit == <<wants[c.client], d.units>>
           IN  /\ Forward(w, [connections[w] EXCEPT ![Serving(w)] = d], e, unit)
               /\ UNCHANGED <<loaded, copied, cacheSize, fault, misled, raced, reclaimed>>
  BY <1>1 DEF ForwardingResponse
<1> QED BY <1>3, <1>4, <1>5, <1>6, <1>7

(* RESPONDING_FROM_CACHE.                                                  *)
LEMMA RespondingShape ==
  ASSUME Places, NEW w \in Workers, pc[w] = "serve", RespondingFromCache(w)
  PROVE  Plain(w) \/ Stands(w) \/ Faulted
<1>1. pc[w] \in Busy
  BY DEF Busy
<1>2. PICK c : c = Connection(w)
  OBVIOUS
<1>3. c \in Conn /\ c.status = "RESPONDING_FROM_CACHE"
  BY <1>1, <1>2, AtConnection DEF RespondingFromCache
<1>4. CASE GiveUp(w, EntryOf(w))
  BY <1>1, <1>4, GiveUpShape
<1>5. CASE /\ cache[EntryOf(w)].status # "INVALID"
           /\ NothingToSend(w) /\ cache[EntryOf(w)].writerId = w
           /\ Become(w, [c EXCEPT !.status = "WAITING_DATA_ON_CACHE"])
           /\ UNCHANGED Private
  <2>1. PICK d, s : /\ d = [c EXCEPT !.status = "WAITING_DATA_ON_CACHE"]
                    /\ s = [connections[w] EXCEPT ![Serving(w)] = d]
    OBVIOUS
  <2>2. d \in Conn /\ Same(c, d)
    BY <1>3, <2>1 DEF Conn, Same, Statuses, Writing, Reading
  <2>3. Others(w, s, d)
    BY <1>1, <2>1, <2>2, PutOthers
  <2>4. Keep(w, s)
    BY <1>5, <2>1 DEF Become
  <2>5. Outcome(w, d, TRUE, cache)
    BY <1>1, <2>3, <2>4, KeepOutcome
  <2> QED BY <1>2, <1>3, <1>5, <2>2, <2>5 DEF Plain
<1>6. ASSUME NEW label \in {"blocked", "copy"}, Goto(w, label),
             cache[EntryOf(w)].status # "INVALID",
             \/ /\ label = "blocked" /\ blocked' = blocked \cup {w}
                /\ cache[EntryOf(w)].status = "DOWNLOADING" /\ NothingToSend(w)
             \/ label = "copy" /\ UNCHANGED blocked,
             UNCHANGED <<allConnectionsCount, todo, loaded, copied, connections, cacheVars,
                         fault, history>>
      PROVE  Stands(w)
  <2>1. label \in Labels /\ UNCHANGED <<connections, todo, allConnectionsCount>>
    BY <1>6 DEF Labels, Busy, Sending
  <2>2. /\ Turn(w, Connection(w), TRUE) /\ pc'[w] = label /\ todo'[w] = todo[w]
        /\ Connection(w)' = Connection(w) /\ EntryOf(w)' = EntryOf(w)
        /\ Serving(w)' = Serving(w)
    BY <1>1, <1>6, <2>1, StandStill
  <2> QED BY <1>2, <1>3, <1>6, <2>2 DEF Stands
<1> QED
  <2>1. \/ GiveUp(w, EntryOf(w))
        \/ /\ cache[EntryOf(w)].status # "INVALID"
           /\ NothingToSend(w) /\ cache[EntryOf(w)].writerId = w
           /\ Become(w, [c EXCEPT !.status = "WAITING_DATA_ON_CACHE"])
           /\ UNCHANGED Private
        \/ /\ cache[EntryOf(w)].status # "INVALID"
           /\ \/ /\ cache[EntryOf(w)].status = "DOWNLOADING" /\ NothingToSend(w)
                 /\ Goto(w, "blocked") /\ blocked' = blocked \cup {w}
              \/ Goto(w, "copy") /\ UNCHANGED blocked
           /\ UNCHANGED <<allConnectionsCount, todo, loaded, copied, connections, cacheVars,
                          fault, history>>
    BY <1>2 DEF RespondingFromCache
  <2> QED BY <1>4, <1>5, <1>6, <2>1

(* An entry that is copied;                                                *)
Copied(w) ==
  /\ Turn(w, Connection(w), TRUE) /\ todo'[w] = todo[w] /\ Serving(w)' = Serving(w)
  /\ Connection(w)' = Connection(w) /\ EntryOf(w)' = EntryOf(w)
  /\ pc[w] = "copy" /\ pc'[w] = "send"
  /\ copied' = [copied EXCEPT ![w] = cache[EntryOf(w)]]
  /\ UNCHANGED <<blocked, loaded, cacheVars, fault, history>>

(* a unit of it that is sent, or the client that has gone;                 *)
Sent(w) ==
  \E d \in Conn, stays \in BOOLEAN :
    LET c == Connection(w)
        entry == copied[w]
        more == entry.alreadyWritten > c.cacheBytesWritten
    IN  /\ Outcome(w, d, stays, cache) /\ pc[w] = "send"
        /\ copied' = [copied EXCEPT ![w] = Fresh]
        /\ d.client = c.client /\ d.cacheIndex = c.cacheIndex
        /\ d.status = "RESPONDING_FROM_CACHE" /\ c.status = "RESPONDING_FROM_CACHE"
        /\ \/ ~stays /\ UNCHANGED misled
           \/ /\ entry.alreadyWritten >= c.cacheBytesWritten
              /\ d.cacheBytesWritten = c.cacheBytesWritten + (IF more THEN 1 ELSE 0)
              /\ misled' = \/ misled
                           \/ /\ more
                              /\ entry.data[c.cacheBytesWritten + 1]
                                   # <<wants[c.client], c.cacheBytesWritten + 1>>
              /\ stays <=> d.cacheBytesWritten # cache[c.cacheIndex].allSize
        /\ UNCHANGED <<blocked, loaded, cacheVars, fault, raced, reclaimed>>

(* an entry that is claimed again, or claimed;                             *)
Claimed(entry, w, memory, url) ==
  [entry EXCEPT !.status = "DOWNLOADING", !.writerId = w, !.alreadyWritten = 0, !.allSize = 0,
                !.memory = memory, !.url = url]

Connected(w, d, e) ==
  /\ d.client = Connection(w).client /\ d.cacheIndex = e /\ d.units = Connection(w).units
  /\ d.status = "CONNECTING_TO_SERVER" /\ Connection(w).status = "GETTING_REQUEST"

Reclaims(w) ==
  \E d \in Conn, stays \in BOOLEAN, e \in Entries, memory \in {"null", "alloc", "freed"} :
    /\ pc[w] = "reclaim" /\ e = EntryOf(w) /\ Connected(w, d, e)
    /\ cache' = [cache EXCEPT ![e] = Claimed(@, w, memory, @.url)]
    /\ Outcome(w, d, stays, cache') /\ Racing(w)
    /\ copied' = [v \in Workers |-> IF pc[v] = "send" /\ EntryOf(v) = e
                                    THEN [copied[v] EXCEPT !.memory = "freed"]
                                    ELSE copied[v]]
    /\ reclaimed' = reclaimed \cup {e}
    /\ UNCHANGED <<blocked, loaded, cacheSize, fault, misled>>

Indexes(w) ==
  \E d \in Conn, stays \in BOOLEAN, e \in Entries :
    /\ pc[w] = "index" /\ e = cacheSize /\ Connected(w, d, e)
    /\ cache' = [cache EXCEPT ![e] = Claimed(@, w, @.memory, wants[d.client])]
    /\ Outcome(w, d, stays, cache') /\ Racing(w)
    /\ UNCHANGED <<blocked, loaded, copied, cacheSize, fault, misled, reclaimed>>

(* the steps to it.                                                        *)
Counts(w) ==
  /\ Turn(w, Connection(w), TRUE) /\ todo'[w] = todo[w] /\ Connection(w)' = Connection(w)
  /\ \/ /\ pc[w] = "load" /\ pc'[w] = "store"
        /\ loaded' = [loaded EXCEPT ![w] = cacheSize] /\ UNCHANGED cacheSize
     \/ /\ pc[w] = "store" /\ pc'[w] = "index"
        /\ loaded' = [loaded EXCEPT ![w] = 0] /\ cacheSize' = loaded[w] + 1
  /\ UNCHANGED <<blocked, copied, cache, fault, history>>

(* The loop about cond_wait.                                               *)
LEMMA BlockedShape ==
  ASSUME Places, NEW w \in Workers, Blocked(w)
  PROVE  w \notin blocked /\ pc[w] \in Busy /\ (Plain(w) \/ Stands(w) \/ Faulted)
<1>1. pc[w] \in Busy /\ pc[w] = "blocked" /\ w \notin blocked
  BY DEF Busy, Sending, Blocked
<1>2. Connection(w).status = "RESPONDING_FROM_CACHE"
  BY <1>1 DEF Places, Placed, Sending
<1>3. CASE GiveUp(w, EntryBehind(w))
  BY <1>1, <1>3, GiveUpShape
<1>4. CASE /\ NothingToSend(w) /\ cache[EntryOf(w)].status # "INVALID"
           /\ blocked' = blocked \cup {w}
           /\ UNCHANGED <<allConnectionsCount, pc, todo, loaded, copied, connections, cacheVars,
                          fault, history>>
  <2>1. PICK label \in Labels : label = "blocked"
    BY DEF Labels, Busy, Sending
  <2>2. Goto(w, label) /\ UNCHANGED <<connections, todo, allConnectionsCount>>
    BY <1>1, <1>4, <2>1 DEF Goto, Places, WorkerTypes
  <2>3. /\ Turn(w, Connection(w), TRUE) /\ pc'[w] = label /\ todo'[w] = todo[w]
        /\ Connection(w)' = Connection(w) /\ EntryOf(w)' = EntryOf(w)
        /\ Serving(w)' = Serving(w)
    BY <1>1, <2>2, StandStill
  <2> QED BY <1>1, <1>2, <1>4, <2>1, <2>3 DEF Stands
<1>5. CASE /\ Goto(w, "copy")
           /\ UNCHANGED <<allConnectionsCount, todo, blocked, loaded, copied, connections,
                          cacheVars, fault, history>>
  <2>1. PICK label \in Labels : label = "copy"
    BY DEF Labels, Busy, Sending
  <2>2. Goto(w, label) /\ UNCHANGED <<connections, todo, allConnectionsCount>>
    BY <1>5, <2>1
  <2>3. /\ Turn(w, Connection(w), TRUE) /\ pc'[w] = label /\ todo'[w] = todo[w]
        /\ Connection(w)' = Connection(w) /\ EntryOf(w)' = EntryOf(w)
        /\ Serving(w)' = Serving(w)
    BY <1>1, <2>2, StandStill
  <2> QED BY <1>1, <1>2, <1>5, <2>1, <2>3 DEF Stands
<1> QED BY <1>1, <1>3, <1>4, <1>5 DEF Blocked

(* The copy.                                                               *)
LEMMA CopyShape ==
  ASSUME Places, NEW w \in Workers, Copy(w)
  PROVE  pc[w] \in Busy /\ Copied(w)
<1>1. pc[w] \in Busy /\ pc[w] = "copy"
  BY DEF Busy, Sending, Copy
<1>2. PICK label \in Labels : label = "send"
  BY DEF Labels, Busy, Sending
<1>3. Goto(w, label) /\ UNCHANGED <<connections, todo, allConnectionsCount>>
  BY <1>2 DEF Copy
<1>4. /\ Turn(w, Connection(w), TRUE) /\ pc'[w] = label /\ todo'[w] = todo[w]
      /\ Connection(w)' = Connection(w) /\ EntryOf(w)' = EntryOf(w)
      /\ Serving(w)' = Serving(w)
  BY <1>1, <1>3, StandStill
<1> QED BY <1>1, <1>2, <1>4 DEF Copied, Copy

(* The two steps of cacheSize++.                                           *)
LEMMA CountsShape ==
  ASSUME Places, NEW w \in Workers, Load(w) \/ Store(w)
  PROVE  pc[w] \in Busy /\ Counts(w)
<1>1. pc[w] \in Busy
  BY DEF Busy, Claiming, Load, Store
<1>2. ASSUME NEW label \in Labels, Goto(w, label),
             UNCHANGED <<connections, todo, allConnectionsCount>>
      PROVE  /\ Turn(w, Connection(w), TRUE) /\ pc'[w] = label /\ todo'[w] = todo[w]
             /\ Connection(w)' = Connection(w)
  BY <1>1, <1>2, StandStill
<1>3. "store" \in Labels /\ "index" \in Labels
  BY DEF Labels, Busy, Claiming
<1>4. CASE Load(w)
  <2>1. PICK label \in Labels : label = "store"
    BY <1>3
  <2>2. Goto(w, label) /\ UNCHANGED <<connections, todo, allConnectionsCount>>
    BY <1>4, <2>1 DEF Load
  <2>3. /\ Turn(w, Connection(w), TRUE) /\ pc'[w] = "store" /\ todo'[w] = todo[w]
        /\ Connection(w)' = Connection(w)
    BY <1>2, <2>1, <2>2
  <2>4. /\ pc[w] = "load" /\ loaded' = [loaded EXCEPT ![w] = cacheSize]
        /\ UNCHANGED cacheSize
    BY <1>4 DEF Load, cacheVars
  <2>5. UNCHANGED <<blocked, copied, cache, fault, history>>
    BY <1>4 DEF Load, cacheVars
  <2> QED BY <1>1, <2>3, <2>4, <2>5 DEF Counts
<1>5. CASE Store(w)
  <2>1. PICK label \in Labels : label = "index"
    BY <1>3
  <2>2. Goto(w, label) /\ UNCHANGED <<connections, todo, allConnectionsCount>>
    BY <1>5, <2>1 DEF Store
  <2>3. /\ Turn(w, Connection(w), TRUE) /\ pc'[w] = "index" /\ todo'[w] = todo[w]
        /\ Connection(w)' = Connection(w)
    BY <1>2, <2>1, <2>2
  <2>4. /\ pc[w] = "store" /\ loaded' = [loaded EXCEPT ![w] = 0]
        /\ cacheSize' = loaded[w] + 1
    BY <1>5 DEF Store
  <2>5. UNCHANGED <<blocked, copied, cache, fault, history>>
    BY <1>5 DEF Store
  <2> QED BY <1>1, <2>3, <2>4, <2>5 DEF Counts
<1> QED BY <1>1, <1>4, <1>5

(* The entry that is claimed again.                                        *)
LEMMA ReclaimShape ==
  ASSUME Places, NEW w \in Workers, cache \in [Entries -> Entry], Reclaim(w)
  PROVE  pc[w] \in Busy /\ (Reclaims(w) \/ Faulted)
<1>1. pc[w] = "reclaim" /\ pc[w] \in Busy
  BY DEF Busy, Claiming, Reclaim
<1>2. PICK c, e : c = Connection(w) /\ e = EntryOf(w)
  OBVIOUS
<1>3. /\ c \in Conn /\ c.status = "GETTING_REQUEST" /\ e \in Entries /\ e = c.cacheIndex
      /\ connections[w] \in Seq(Conn) /\ connections[w][Serving(w)] = c
  BY <1>1, <1>2, AtConnection DEF Places, Placed, Claiming, EntryOf
<1>4. Others(w, connections[w], c)
  BY <1>3 DEF Others, Alike, Own
<1>5. PICK x \in Entry : x = cache[e]
  BY <1>3
<1>6. PICK memory \in {"null", "alloc", "freed"} :
        memory = IF x.memory = "null" THEN x.memory ELSE "freed"
  BY DEF Entry
<1>7. PICK y : y = [Downloading(x, w) EXCEPT !.memory = memory]
  OBVIOUS
<1>8. PICK entries : entries = [cache EXCEPT ![e] = y]
  OBVIOUS
<1>9. y = Claimed(x, w, memory, x.url)
  <2>1. y = [status |-> "DOWNLOADING", writerId |-> w, url |-> x.url, data |-> x.data,
             memory |-> memory, alreadyWritten |-> 0, allSize |-> 0]
    BY <1>5, <1>7 DEF Downloading, Entry
  <2>2. PICK z : z = Claimed(x, w, memory, x.url)
    OBVIOUS
  <2>3. z = [status |-> "DOWNLOADING", writerId |-> w, url |-> x.url, data |-> x.data,
             memory |-> memory, alreadyWritten |-> 0, allSize |-> 0]
    BY <1>5, <2>2 DEF Claimed, Entry
  <2> QED BY <2>1, <2>2, <2>3
<1>10. CASE \E what : Fault(what)
  BY <1>1, <1>10 DEF Fault, Faulted
<1>11. ASSUME cache' = entries, Connect(w, connections[w], entries), Racing(w),
              copied' = [v \in Workers |-> IF pc[v] = "send" /\ EntryOf(v) = e
                                           THEN [copied[v] EXCEPT !.memory = "freed"]
                                           ELSE copied[v]],
              reclaimed' = reclaimed \cup {e},
              UNCHANGED <<blocked, loaded, cacheSize, fault, misled>>
       PROVE  Reclaims(w)
  <2>1. PICK d, s : d = [c EXCEPT !.status = "CONNECTING_TO_SERVER"] /\ s = connections[w]
    OBVIOUS
  <2>2. c.status \notin Reading
    BY <1>3 DEF Reading
  <2>3. PICK stays \in BOOLEAN : d \in Conn /\ Outcome(w, d, stays, entries)
    BY <1>1, <1>3, <1>4, <1>11, <2>1, <2>2, ConnectOutcome
  <2>4. Connected(w, d, e)
    BY <1>2, <1>3, <2>1 DEF Connected, Conn
  <2>5. cache' = [cache EXCEPT ![e] = Claimed(@, w, memory, @.url)]
    BY <1>3, <1>5, <1>8, <1>9, <1>11
  <2>6. Outcome(w, d, stays, cache')
    BY <1>11, <2>3 DEF Outcome, Ended
  <2> QED BY <1>1, <1>2, <1>3, <1>11, <2>3, <2>4, <2>5, <2>6 DEF Reclaims
<1> QED
  <2>1. \/ \E what : Fault(what)
        \/ /\ cache' = entries
           /\ copied' = [v \in Workers |-> IF pc[v] = "send" /\ EntryOf(v) = e
                                           THEN [copied[v] EXCEPT !.memory = "freed"]
                                           ELSE copied[v]]
           /\ reclaimed' = reclaimed \cup {e}
           /\ Racing(w)
           /\ Connect(w, connections[w], entries)
           /\ UNCHANGED <<blocked, loaded, cacheSize, fault, misled>>
    <3>1. entries = [cache EXCEPT ![EntryOf(w)] = [Downloading(@, w) EXCEPT
                       !.memory = IF cache[EntryOf(w)].memory = "null" THEN "null" ELSE "freed"]]
      BY <1>2, <1>5, <1>6, <1>7, <1>8
    <3>2. e = EntryOf(w)
      BY <1>2
    <3> QED BY <3>1, <3>2, Zenon DEF Reclaim
  <2> QED BY <1>1, <1>10, <1>11, <2>1

(* The last entry, which the array becomes longer by.                      *)
LEMMA IndexShape ==
  ASSUME Places, NEW w \in Workers, cache \in [Entries -> Entry], Index(w)
  PROVE  pc[w] \in Busy /\ (Indexes(w) \/ Faulted)
<1>1. pc[w] = "index" /\ pc[w] \in Busy
  <2>1. pc[w] = "index"
    BY Zenon DEF Index
  <2> QED BY <2>1 DEF Busy, Claiming
<1>2. PICK c, e : c = Connection(w) /\ e = cacheSize
  OBVIOUS
<1>3. /\ c \in Conn /\ c.status = "GETTING_REQUEST"
      /\ connections[w] \in Seq(Conn) /\ connections[w][Serving(w)] = c
  BY <1>1, <1>2, AtConnection DEF Places, Placed, Claiming
<1>4. CASE \E what : Fault(what)
  BY <1>1, <1>4 DEF Fault, Faulted
<1>5. ASSUME e \in Entries,
             NEW s, s = [connections[w] EXCEPT ![Serving(w)].cacheIndex = e],
             NEW entries,
             entries = [cache EXCEPT ![e] = [Downloading(@, w) EXCEPT !.url = wants[c.client]]],
             cache' = entries, Connect(w, s, entries), Racing(w),
             UNCHANGED <<blocked, loaded, copied, cacheSize, fault, misled, reclaimed>>
      PROVE  Indexes(w)
  <2>1. PICK x \in Entry : x = cache[e]
    BY <1>5
  <2>2. PICK y : y = Claimed(x, w, x.memory, wants[c.client])
    OBVIOUS
  <2>3. entries = [cache EXCEPT ![e] = y]
    <3>1. y = [status |-> "DOWNLOADING", writerId |-> w, url |-> wants[c.client],
               data |-> x.data, memory |-> x.memory, alreadyWritten |-> 0, allSize |-> 0]
      BY <2>1, <2>2 DEF Claimed, Entry
    <3>2. PICK z : z = [Downloading(x, w) EXCEPT !.url = wants[c.client]]
      OBVIOUS
    <3>3. z = [status |-> "DOWNLOADING", writerId |-> w, url |-> wants[c.client],
               data |-> x.data, memory |-> x.memory, alreadyWritten |-> 0, allSize |-> 0]
      BY <2>1, <3>2 DEF Downloading, Entry
    <3>4. z = y
      BY <3>1, <3>3
    <3> QED BY <1>5, <2>1, <3>2, <3>4
  <2>4. PICK b : b = [c EXCEPT !.cacheIndex = e]
    OBVIOUS
  <2>5. b \in Conn /\ b.cacheIndex = e /\ b.status \notin Reading
        /\ b.client = c.client /\ b.units = c.units
    BY <1>3, <1>5, <2>4 DEF Conn, Reading
  <2>6. s = [connections[w] EXCEPT ![Serving(w)] = b]
    BY <1>3, <1>5, <2>4
  <2>7. Others(w, s, b)
    BY <1>1, <2>5, <2>6, PutOthers
  <2>8. PICK d : d = [b EXCEPT !.status = "CONNECTING_TO_SERVER"]
    OBVIOUS
  <2>9. PICK stays \in BOOLEAN : d \in Conn /\ Outcome(w, d, stays, entries)
    BY <1>1, <1>5, <2>5, <2>7, <2>8, ConnectOutcome
  <2>10. Connected(w, d, e) /\ d.client = c.client
    BY <1>2, <1>3, <2>5, <2>8 DEF Connected, Conn
  <2>11. cache' = [cache EXCEPT ![e] = Claimed(@, w, @.memory, wants[d.client])]
    BY <1>5, <2>1, <2>2, <2>3, <2>10
  <2>12. Outcome(w, d, stays, cache')
    BY <1>5, <2>9 DEF Outcome, Ended
  <2> QED BY <1>1, <1>2, <1>5, <2>9, <2>10, <2>11, <2>12 DEF Indexes
<1> QED
  <2>1. \/ \E what : Fault(what)
        \/ \E s, entries :
             /\ s = [connections[w] EXCEPT ![Serving(w)].cacheIndex = e]
             /\ entries = [cache EXCEPT ![e] = [Downloading(@, w) EXCEPT !.url = wants[c.client]]]
             /\ e \in Entries
             /\ cache' = entries
             /\ Racing(w)
             /\ Connect(w, s, entries)
             /\ UNCHANGED <<blocked, loaded, copied, cacheSize, fault, misled, reclaimed>>
    <3>1. c = Connection(w) /\ e = cacheSize
      BY <1>2
    <3> QED BY <3>1, Zenon DEF Index
  <2> QED BY <1>1, <1>4, <1>5, <2>1

(* The send.                                                               *)
LEMMA SendShape ==
  ASSUME Places, NEW w \in Workers, copied \in [Workers -> Entry], SendCached(w)
  PROVE  pc[w] \in Busy /\ (Sent(w) \/ Faulted)
<1>1. pc[w] = "send" /\ pc[w] \in Busy
  <2>1. pc[w] = "send"
    BY Zenon DEF SendCached
  <2> QED BY <2>1 DEF Busy, Sending
<1>2. PICK c, entry : c = Connection(w) /\ entry = copied[w]
  OBVIOUS
<1>3. /\ c \in Conn /\ c.status = "RESPONDING_FROM_CACHE" /\ entry \in Entry
  BY <1>1, <1>2, AtConnection DEF Places, Placed, Sending
<1>4. PICK m : m = c.cacheBytesWritten + (IF entry.alreadyWritten > c.cacheBytesWritten
                                          THEN 1 ELSE 0)
  OBVIOUS
<1>5. PICK d : d = [c EXCEPT !.cacheBytesWritten = m]
  OBVIOUS
<1>6. /\ d \in Conn /\ d.client = c.client /\ d.cacheIndex = c.cacheIndex
      /\ d.status = c.status /\ d.cacheBytesWritten = m
  <2>1. m \in Nat
    BY <1>3, <1>4 DEF Conn
  <2> QED BY <1>3, <1>5, <2>1 DEF Conn
<1>7. d = IF entry.alreadyWritten > c.cacheBytesWritten
          THEN [c EXCEPT !.cacheBytesWritten = @ + 1] ELSE c
  BY <1>3, <1>4, <1>5 DEF Conn
<1>8. CASE \E what : Fault(what)
  BY <1>1, <1>8 DEF Fault, Faulted
<1>9. CASE /\ Drop(w)
           /\ copied' = [copied EXCEPT ![w] = Fresh]
           /\ UNCHANGED <<blocked, loaded, cacheVars, fault, misled, raced, reclaimed>>
  <2>1. Outcome(w, c, FALSE, cache)
    BY <1>1, <1>2, <1>9, DropPlain
  <2> QED BY <1>1, <1>2, <1>3, <1>9, <2>1 DEF Sent
<1>10. ASSUME entry.alreadyWritten >= c.cacheBytesWritten,
              misled' = \/ misled
                        \/ /\ entry.alreadyWritten > c.cacheBytesWritten
                           /\ entry.data[Offset(c)]
                                # <<wants[c.client], c.cacheBytesWritten + 1>>,
              NEW s, s = [connections[w] EXCEPT ![Serving(w)] = d],
              IF d.cacheBytesWritten = cache[c.cacheIndex].allSize
              THEN Leave(w, s, cache) ELSE Keep(w, s),
              copied' = [copied EXCEPT ![w] = Fresh],
              UNCHANGED <<blocked, loaded, cacheVars, fault, raced, reclaimed>>
       PROVE  Sent(w)
  <2>1. Others(w, s, d)
    BY <1>1, <1>6, <1>10, PutOthers
  <2>2. PICK stays \in BOOLEAN :
          /\ stays <=> d.cacheBytesWritten # cache[c.cacheIndex].allSize
          /\ Outcome(w, d, stays, cache)
    BY <1>1, <1>10, <2>1, KeepOutcome, LeaveOutcome
  <2>3. Offset(c) = c.cacheBytesWritten + 1
    BY DEF Offset
  <2> QED BY <1>1, <1>2, <1>3, <1>4, <1>6, <1>10, <2>2, <2>3 DEF Sent
<1> QED
  <2>1. \/ /\ Drop(w)
           /\ copied' = [copied EXCEPT ![w] = Fresh]
           /\ UNCHANGED <<blocked, loaded, cacheVars, fault, misled, raced, reclaimed>>
        \/ \E what : Fault(what)
        \/ \E s : /\ s = [connections[w] EXCEPT ![Serving(w)] = d]
                  /\ entry.alreadyWritten >= c.cacheBytesWritten
                  /\ misled' = \/ misled
                               \/ /\ entry.alreadyWritten > c.cacheBytesWritten
                                  /\ entry.data[Offset(c)]
                                       # <<wants[c.client], c.cacheBytesWritten + 1>>
                  /\ IF d.cacheBytesWritten = cache[c.cacheIndex].allSize
                     THEN Leave(w, s, cache) ELSE Keep(w, s)
                  /\ copied' = [copied EXCEPT ![w] = Fresh]
                  /\ UNCHANGED <<blocked, loaded, cacheVars, fault, raced, reclaimed>>
    BY <1>2, <1>7, Zenon DEF SendCached
  <2> QED BY <1>1, <1>8, <1>9, <1>10, <2>1
-----------------------------------------------------------------------------
(* A step that serves a connection;                                        *)
Handled(w) ==
  \/ Plain(w) \/ Uncached(w) \/ Found(w) \/ Claims(w) \/ Reclaims(w) \/ Counts(w)
  \/ Indexes(w) \/ Cancelled(w) \/ Stored(w) \/ Relayed(w)
  \/ Stands(w) \/ Copied(w) \/ Sent(w)

Owed == allConnectionsCount + (IF main = "count" THEN 1 ELSE 0) - Len(queue)

(* one that takes a socket from the queue;                                 *)
Takes(w) ==
  \E c \in Clients :
    /\ connections' = [connections EXCEPT ![w] = Append(@, Accepted(c))]
    /\ pc[w] \notin Busy /\ pc' = [pc EXCEPT ![w] = "poll"]
    /\ queue' \in Seq(Clients) /\ Owed' = Owed + 1 /\ UNCHANGED allConnectionsCount
    /\ UNCHANGED <<todo, blocked, loaded, copied, cacheVars, history>>

(* one that leaves the connections and the cache alone.                    *)
Aside ==
  /\ queue' \in Seq(Clients) /\ allConnectionsCount' \in Int /\ Owed' = Owed
  /\ pc' \in [Workers -> Labels] /\ todo' \in [Workers -> SUBSET Nat]
  /\ \A v \in Workers :
       \/ pc'[v] = pc[v] /\ todo'[v] = todo[v]
       \/ pc[v] \notin Busy /\ pc'[v] \notin Busy /\ todo'[v] = todo[v]
       \/ pc[v] \notin Busy /\ pc'[v] = "serve" /\ todo'[v] \in (SUBSET (1 .. Own(v))) \ {{}}
  /\ blocked' \subseteq blocked
  /\ UNCHANGED <<connections, loaded, copied, cacheVars, history>>

Handler(w) ==
  \/ Serve(w) \/ Reclaim(w) \/ Load(w) \/ Store(w) \/ Index(w)
  \/ Blocked(w) \/ Copy(w) \/ SendCached(w)

(* The steps of a worker at a connection.                                  *)
LEMMA HandlerShape ==
  ASSUME Types, NEW w \in Workers, Handler(w)
  PROVE  /\ UNCHANGED <<choices, main, queue>>
         /\ (pc[w] \in Busy /\ w \notin blocked /\ Handled(w)) \/ Aside
<1> USE DEF Types
<1>1. Places /\ cache \in [Entries -> Entry] /\ copied \in [Workers -> Entry]
      /\ wants \in [Clients -> Urls \cup {Nil}]
  BY DEF CacheTypes, QueueTypes
<1>2. Handling
  BY Zenon DEF Handler, Serve, Reclaim, Load, Store, Index, Blocked, Copy, SendCached
<1>3. UNCHANGED <<choices, main, queue>>
  BY <1>2 DEF Handling, Running, queueVars
<1>4. Faulted => Aside
  <2> SUFFICES ASSUME Faulted PROVE Aside
    OBVIOUS
  <2>1. Owed' = Owed
    BY <1>3 DEF Owed, Faulted
  <2>2. queue' \in Seq(Clients) /\ allConnectionsCount' \in Int
    BY <1>3 DEF Faulted, QueueTypes, Places, WorkerTypes
  <2> QED BY <2>1, <2>2 DEF Faulted, Aside, threadVars, Places, WorkerTypes
<1>5. w \notin blocked
  <2>1. pc[w] # "blocked" \/ Blocked(w)
    <3>1. \/ pc[w] = "serve" \/ pc[w] = "reclaim" \/ pc[w] = "load" \/ pc[w] = "store"
          \/ pc[w] = "index" \/ pc[w] = "copy" \/ pc[w] = "send" \/ Blocked(w)
      BY Zenon DEF Handler, Serve, Reclaim, Load, Store, Index, Copy, SendCached
    <3> QED BY <3>1
  <2> QED BY <2>1 DEF Blocked, Places, Placed
<1>6. pc[w] \in Busy
  <2>1. \/ pc[w] = "serve" \/ pc[w] = "reclaim" \/ pc[w] = "load" \/ pc[w] = "store"
        \/ pc[w] = "index" \/ pc[w] = "blocked" \/ pc[w] = "copy" \/ pc[w] = "send"
    BY Zenon DEF Handler, Serve, Reclaim, Load, Store, Index, Blocked, Copy, SendCached
  <2> QED BY <2>1 DEF Busy, Sending, Claiming
<1>7. Handled(w) \/ Faulted
  <2>1. CASE Serve(w)
    <3>1. pc[w] = "serve"
      BY <2>1 DEF Serve
    <3>2. CASE GettingRequest(w)
      BY <1>1, <1>6, <3>2, GettingShape DEF Handled
    <3>3. CASE ConnectingToServer(w) \/ WritingRequest(w) \/ ForwardingRequest(w)
      BY <1>1, <1>6, <3>3, ConnectingShape, WritingShape, RequestShape DEF Handled
    <3>4. CASE ForwardingResponse(w)
      BY <1>1, <1>6, <3>4, ResponseShape DEF Handled
    <3>5. CASE RespondingFromCache(w)
      BY <1>1, <3>1, <3>5, RespondingShape DEF Handled
    <3> QED BY <2>1, <3>2, <3>3, <3>4, <3>5 DEF Serve
  <2>2. CASE Reclaim(w)
    BY <1>1, <2>2, ReclaimShape DEF Handled
  <2>3. CASE Load(w) \/ Store(w)
    BY <1>1, <2>3, CountsShape DEF Handled
  <2>4. CASE Index(w)
    BY <1>1, <2>4, IndexShape DEF Handled
  <2>5. CASE Blocked(w)
    BY <1>1, <2>5, BlockedShape DEF Handled
  <2>6. CASE Copy(w)
    BY <1>1, <2>6, CopyShape DEF Handled
  <2>7. CASE SendCached(w)
    BY <1>1, <2>7, SendShape DEF Handled
  <2> QED BY <2>1, <2>2, <2>3, <2>4, <2>5, <2>6, <2>7 DEF Handler
<1> QED BY <1>3, <1>4, <1>5, <1>6, <1>7

(* The steps of a worker about the queue.                                  *)
LEMMA QueueingShape ==
  ASSUME Types, NEW w \in Workers, Queueing(w)
  PROVE  UNCHANGED choices /\ (Aside \/ Takes(w))
<1>1. /\ queue \in Seq(Clients) /\ allConnectionsCount \in Int /\ pc \in [Workers -> Labels]
      /\ todo \in [Workers -> SUBSET Nat]
  BY DEF Types, QueueTypes, Places, WorkerTypes
<1>2. UNCHANGED <<choices, todo, loaded, copied, cacheVars, history>>
  BY DEF Queueing, Running
<1>3. {"top", "asleep", "poll"} \subseteq Labels \ Busy
  BY DEF Labels, Busy, Claiming, Sending
<1>4. ASSUME UNCHANGED <<main, queue, allConnectionsCount, connections>>,
             blocked' \subseteq blocked,
             \/ UNCHANGED pc
             \/ /\ pc[w] \in {"top", "asleep"}
                /\ \E label \in {"top", "asleep", "poll"} : Goto(w, label)
      PROVE  Aside
  <2>1. Owed' = Owed
    BY <1>4 DEF Owed
  <2>2. /\ pc' \in [Workers -> Labels]
        /\ \A v \in Workers : pc'[v] = pc[v] \/ (pc[v] \notin Busy /\ pc'[v] \notin Busy)
    BY <1>1, <1>3, <1>4 DEF Goto
  <2>3. UNCHANGED <<connections, loaded, copied, cacheVars, history>>
    BY <1>2, <1>4
  <2>4. /\ queue' \in Seq(Clients) /\ allConnectionsCount' \in Int
        /\ UNCHANGED todo /\ todo' \in [Workers -> SUBSET Nat]
    BY <1>1, <1>2, <1>4
  <2> QED BY <1>4, <2>1, <2>2, <2>3, <2>4 DEF Aside
<1>5. ASSUME pc[w] \in {"top", "asleep"}, ~isEmpty, relock = "fails", UNCHANGED blocked,
             connections' = [connections EXCEPT ![w] = initNewConnection(@, Head(queue))],
             queue' = Tail(queue), Goto(w, "poll"),
             UNCHANGED <<main, stuck, came, allConnectionsCount, asleep>>
      PROVE  Takes(w)
  <2>1. Head(queue) \in Clients /\ queue' \in Seq(Clients) /\ Len(queue') = Len(queue) - 1
        /\ Len(queue) \in Nat
    BY <1>1, <1>5, HeadTailProperties, LenProperties DEF isEmpty
  <2>2. Owed' = Owed + 1
    BY <1>1, <1>5, <2>1 DEF Owed
  <2>3. connections' = [connections EXCEPT ![w] = Append(@, Accepted(Head(queue)))]
    BY <1>5 DEF initNewConnection
  <2> QED BY <1>1, <1>2, <1>3, <1>5, <2>1, <2>2, <2>3 DEF Takes, Goto
<1>6. CASE Top(w) /\ UNCHANGED blocked
  <2>1. CASE ~isEmpty /\ getSocketFromQueue(w)
    BY <1>2, <1>4, <1>5, <1>6, <2>1 DEF Top, getSocketFromQueue, Blocks
  <2>2. CASE /\ \E label \in {"top", "asleep", "poll"} : Goto(w, label)
             /\ UNCHANGED <<queueVars, allConnectionsCount, connections>>
    BY <1>2, <1>4, <1>6, <2>2 DEF Top, queueVars
  <2> QED BY <1>6, <2>1, <2>2 DEF Top
<1>7. CASE Awake(w) /\ UNCHANGED blocked
  <2>1. CASE ~isEmpty /\ getSocketFromQueue(w)
    BY <1>2, <1>4, <1>5, <1>7, <2>1 DEF Awake, getSocketFromQueue, Blocks
  <2>2. CASE UNCHANGED <<main, queue, allConnectionsCount, pc, connections>>
    BY <1>2, <1>4, <1>7, <2>2
  <2> QED BY <1>7, <2>1, <2>2 DEF Awake, Blocks, queueVars
<1>8. CASE SpuriousWakeup(w)
  BY <1>2, <1>4, <1>8 DEF SpuriousWakeup, queueVars
<1> QED BY <1>6, <1>7, <1>8 DEF Queueing

(* Of poll.                                                                *)
LEMMA PollShape ==
  ASSUME Types, NEW w \in Workers, Poll(w)
  PROVE  UNCHANGED choices /\ Aside
<1>1. /\ queue \in Seq(Clients) /\ allConnectionsCount \in Int /\ pc \in [Workers -> Labels]
      /\ todo \in [Workers -> SUBSET Nat]
  BY DEF Types, QueueTypes, Places, WorkerTypes
<1>2. PICK ready : /\ ready \subseteq 1 .. Own(w) /\ ready # {}
                   /\ todo' = [todo EXCEPT ![w] = ready]
  BY DEF Poll
<1>3. pc[w] = "poll" /\ Goto(w, "serve")
      /\ UNCHANGED <<queueVars, allConnectionsCount, threadVars, connections, cacheVars, history>>
  BY DEF Poll
<1>4. "poll" \notin Busy /\ "serve" \in Labels
  BY DEF Labels, Busy, Claiming, Sending
<1>5. 1 .. Own(w) \subseteq Nat
  OBVIOUS
<1>6. /\ pc' \in [Workers -> Labels] /\ todo' \in [Workers -> SUBSET Nat]
      /\ \A v \in Workers :
           \/ pc'[v] = pc[v] /\ todo'[v] = todo[v]
           \/ pc[v] \notin Busy /\ pc'[v] = "serve"
              /\ todo'[v] \in (SUBSET (1 .. Own(v))) \ {{}}
  BY <1>1, <1>2, <1>3, <1>4, <1>5 DEF Goto
<1>7. Owed' = Owed
  BY <1>3 DEF Owed, queueVars
<1>8. UNCHANGED choices
  BY DEF Poll, Running
<1> QED BY <1>1, <1>3, <1>6, <1>7, <1>8 DEF Aside, queueVars, threadVars

(* Of main.                                                                *)
LEMMA MainShape ==
  ASSUME Types, MainThread
  PROVE  UNCHANGED choices /\ Aside
<1>1. /\ queue \in Seq(Clients) /\ allConnectionsCount \in Int /\ pc \in [Workers -> Labels]
      /\ todo \in [Workers -> SUBSET Nat]
  BY DEF Types, QueueTypes, Places, WorkerTypes
<1>2. UNCHANGED <<choices, todo, blocked, loaded, copied, cacheVars, history>>
  BY DEF MainThread, Running
<1>3. "none" \in Labels \ Busy /\ "top" \in Labels \ Busy
  BY DEF Labels, Busy, Claiming, Sending
<1>4. ASSUME UNCHANGED connections, queue' \in Seq(Clients), allConnectionsCount' \in Int,
             Owed' = Owed,
             UNCHANGED pc \/ \E w \in Workers : pc[w] = "none" /\ Goto(w, "top")
      PROVE  Aside
  <2>1. /\ pc' \in [Workers -> Labels]
        /\ \A v \in Workers : pc'[v] = pc[v] \/ (pc[v] \notin Busy /\ pc'[v] \notin Busy)
    BY <1>1, <1>3, <1>4 DEF Goto
  <2> QED BY <1>1, <1>2, <1>4, <2>1 DEF Aside
<1>5. CASE Start
  <2>1. UNCHANGED <<queue, allConnectionsCount, connections>>
    BY <1>5 DEF Start
  <2>2. main # "count" /\ main' # "count"
        /\ (UNCHANGED pc \/ \E w \in Workers : pc[w] = "none" /\ Goto(w, "top"))
    BY <1>5 DEF Start, createThreadPool, getProxySocket, initThread
  <2>3. Owed' = Owed
    BY <2>1, <2>2 DEF Owed
  <2> QED BY <1>1, <1>2, <1>4, <2>1, <2>2, <2>3
<1>6. CASE Count
  <2>1. /\ main = "count" /\ main' = "accept" /\ UNCHANGED <<queue, pc, connections>>
        /\ allConnectionsCount' = allConnectionsCount + 1
    BY <1>6 DEF Count
  <2>2. Owed' = Owed /\ allConnectionsCount' \in Int
    <3>1. Len(queue) \in Nat
      BY <1>1, LenProperties
    <3> QED BY <1>1, <2>1, <3>1 DEF Owed
  <2> QED BY <1>1, <1>2, <1>4, <2>1, <2>2
<1>7. ASSUME NEW c \in Clients, Accept(c)
      PROVE  Aside
  <2>1. CASE Blocks(Main)
    <3>1. UNCHANGED <<main, queue, allConnectionsCount, pc, connections>>
      BY <2>1 DEF Blocks
    <3>2. Owed' = Owed
      BY <3>1 DEF Owed
    <3> QED BY <1>1, <1>2, <1>4, <3>1, <3>2
  <2>2. CASE /\ queue' = Append(queue, c) /\ main' = "count"
             /\ UNCHANGED <<stuck, allConnectionsCount, pc, connections>>
    <3>1. queue' \in Seq(Clients) /\ Len(queue') = Len(queue) + 1 /\ Len(queue) \in Nat
      BY <1>1, <2>2, AppendProperties, LenProperties
    <3>2. Owed' = Owed
      BY <1>1, <1>7, <2>2, <3>1 DEF Owed, Accept
    <3> QED BY <1>1, <1>2, <1>4, <2>2, <3>1, <3>2
  <2> QED BY <1>7, <2>1, <2>2 DEF Accept, putSocketInQueue
<1> QED BY <1>2, <1>5, <1>6, <1>7 DEF MainThread

(* Every step of the proxy.                                                *)
LEMMA StepShape ==
  ASSUME Types, [Next]_vars
  PROVE  /\ UNCHANGED choices
         /\ \/ Aside
            \/ \E w \in Workers : Takes(w)
            \/ \E w \in Workers : /\ pc[w] \in Busy /\ w \notin blocked /\ Handled(w)
                                  /\ UNCHANGED <<main, queue>>
<1>1. /\ queue \in Seq(Clients) /\ allConnectionsCount \in Int /\ pc \in [Workers -> Labels]
      /\ todo \in [Workers -> SUBSET Nat]
  BY DEF Types, QueueTypes, Places, WorkerTypes
<1>2. ASSUME UNCHANGED <<main, queue, allConnectionsCount, pc, todo, threadVars, connections,
                         cacheVars, history>>
      PROVE  Aside
  <2>1. Owed' = Owed
    BY <1>2 DEF Owed
  <2> QED BY <1>1, <1>2, <2>1 DEF Aside, threadVars
<1>3. CASE MainThread
  BY <1>3, MainShape
<1>4. ASSUME NEW w \in Workers, work(w)
      PROVE  /\ UNCHANGED choices
             /\ \/ Aside \/ Takes(w)
                \/ pc[w] \in Busy /\ w \notin blocked /\ Handled(w) /\ UNCHANGED <<main, queue>>
  <2>1. Queueing(w) \/ Poll(w) \/ Handler(w)
    BY <1>4 DEF work, Handler
  <2> QED BY <2>1, QueueingShape, PollShape, HandlerShape
<1>5. CASE \E c \in Clients : ClientLeaves(c)
  <2>1. UNCHANGED <<choices, queueVars, allConnectionsCount, pc, todo, threadVars,
                    connections, cacheVars, history>>
    BY <1>5 DEF ClientLeaves, Running
  <2> QED BY <1>2, <2>1 DEF queueVars
<1>6. CASE UNCHANGED vars
  BY <1>2, <1>6 DEF vars, queueVars
<1> QED BY <1>3, <1>4, <1>5, <1>6 DEF Next
-----------------------------------------------------------------------------
(* What the state is made of stays what it is.                             *)
(* After a connection was served:                                          *)
LEMMA OutcomePlaces ==
  ASSUME Types, NEW w \in Workers, w \notin blocked, NEW d \in Conn, NEW stays \in BOOLEAN,
         NEW entries, Outcome(w, d, stays, entries), blocked' \subseteq blocked,
         UNCHANGED choices
  PROVE  Places'
<1>1. abandoned \in SUBSET Entries /\ d.cacheIndex \in Entries \cup {Nil}
  BY DEF Types, Places, WorkerTypes, Conn
<1>2. abandoned' \in SUBSET Entries
  BY <1>1 DEF Outcome, Ended
<1>3. Served(w, d, stays) /\ UNCHANGED MAX_CACHE_SIZE
  BY DEF Outcome, choices
<1> QED BY <1>2, <1>3, ServedPlaces DEF Types

(* When the cache is as it was:                                            *)
LEMMA SameCacheTypes ==
  ASSUME Types, UNCHANGED <<choices, queue, loaded, copied, cacheVars, misled, reclaimed>>,
         raced' \in BOOLEAN, Places'
  PROVE  Types'
<1>1. QueueTypes'
  BY DEF Types, QueueTypes, choices
<1>2. CacheTypes'
  BY DEF Types, CacheTypes, choices, cacheVars, Entries
<1> QED BY <1>1, <1>2 DEF Types

(* When an entry was changed:                                              *)
LEMMA EntryTypes ==
  ASSUME Types, UNCHANGED <<choices, queue, loaded, cacheSize, misled>>,
         NEW e \in Entries, NEW entry \in Entry, cache' = [cache EXCEPT ![e] = entry],
         raced' \in BOOLEAN, copied' \in [Workers -> Entry],
         reclaimed' \in SUBSET Entries, Places'
  PROVE  Types'
<1>1. QueueTypes'
  BY DEF Types, QueueTypes, choices
<1>2. Entries' = Entries
  BY DEF Entries, choices
<1>3. cache' \in [Entries -> Entry]
  BY DEF Types, CacheTypes
<1>4. CacheTypes'
  BY <1>2, <1>3 DEF Types, CacheTypes
<1> QED BY <1>1, <1>4 DEF Types

(* Of a worker that stays at the connection it is at:                      *)
LEMMA StandTypes ==
  ASSUME Types, NEW w \in Workers, pc[w] \in Busy, w \notin blocked,
         Claims(w) \/ Stands(w) \/ Copied(w) \/ Counts(w), UNCHANGED <<choices, queue>>
  PROVE  Types'
<1>1. Places /\ UNCHANGED MAX_CACHE_SIZE
  BY DEF Types, choices
<1>2. Entries' = Entries
  BY DEF Entries, choices
<1>3. CASE Claims(w)
  <2>1. PICK d \in Conn :
          /\ Turn(w, d, TRUE) /\ todo'[w] = todo[w] /\ Connection(w)' = d
          /\ d.status = "GETTING_REQUEST"
          /\ pc'[w] = "load" \/ (pc'[w] = "reclaim" /\ d.cacheIndex \in Entries)
    BY <1>3 DEF Claims, Matches
  <2>2. Racing(w) /\ Searched /\ UNCHANGED abandoned
    BY <1>3 DEF Claims
  <2>3. /\ pc'[w] = "reclaim" => EntryOf(w)' \in Entries
        /\ pc'[w] \notin Sending /\ UNCHANGED blocked
        /\ UNCHANGED <<loaded, copied, cacheVars, misled, reclaimed>>
        /\ raced' \in BOOLEAN
    BY <2>1, <2>2 DEF EntryOf, Sending, Searched, Racing, Types, CacheTypes
  <2>4. Places'
    BY <1>1, <2>1, <2>2, <2>3, StandPlaces
  <2> QED BY <2>3, <2>4, SameCacheTypes
<1>4. CASE Stands(w)
  <2>1. /\ Turn(w, Connection(w), TRUE) /\ todo'[w] = todo[w]
        /\ Connection(w)' = Connection(w) /\ Connection(w).status = "RESPONDING_FROM_CACHE"
        /\ pc'[w] \in {"copy", "blocked"}
        /\ UNCHANGED <<loaded, copied, cacheVars, history>>
        /\ \A v \in Workers \ {w} : v \in blocked' => v \in blocked
        /\ w \in blocked' => pc'[w] = "blocked"
    BY <1>4 DEF Stands
  <2>2. /\ pc'[w] \notin Claiming /\ pc'[w] # "reclaim"
        /\ UNCHANGED <<abandoned, misled, reclaimed>> /\ raced' \in BOOLEAN
    BY <2>1 DEF Claiming, history, Types, CacheTypes
  <2>3. Places'
    BY <1>1, <2>1, <2>2, StandPlaces
  <2> QED BY <2>1, <2>2, <2>3, SameCacheTypes
<1>5. CASE Copied(w)
  <2>1. /\ Turn(w, Connection(w), TRUE) /\ todo'[w] = todo[w]
        /\ Connection(w)' = Connection(w) /\ EntryOf(w)' = EntryOf(w)
        /\ pc[w] = "copy" /\ pc'[w] = "send"
        /\ copied' = [copied EXCEPT ![w] = cache[EntryOf(w)]]
        /\ UNCHANGED <<blocked, loaded, cacheVars, history>>
    BY <1>5 DEF Copied
  <2>2. /\ pc'[w] \notin Claiming /\ pc'[w] # "reclaim"
        /\ UNCHANGED <<abandoned, misled, reclaimed>> /\ raced' \in BOOLEAN
    BY <2>1 DEF Claiming, history, Types, CacheTypes
  <2>3. Connection(w).status = "RESPONDING_FROM_CACHE" /\ Connection(w) \in Conn
    BY <1>1, <2>1, AtConnection DEF Places, Placed, Sending
  <2>4. EntryOf(w) \in Entries
    BY <2>3 DEF Conn, EntryOf, Reading
  <2>5. Places'
    BY <1>1, <2>1, <2>2, <2>3, StandPlaces
  <2>6. CacheTypes'
    BY <1>2, <2>1, <2>2, <2>4 DEF Types, CacheTypes, cacheVars
  <2>7. QueueTypes'
    BY DEF Types, QueueTypes, choices
  <2> QED BY <2>5, <2>6, <2>7 DEF Types
<1>6. CASE Counts(w)
  <2>1. /\ Turn(w, Connection(w), TRUE) /\ todo'[w] = todo[w]
        /\ Connection(w)' = Connection(w) /\ pc[w] \in Claiming
        /\ pc'[w] \in {"store", "index"}
        /\ loaded' = [loaded EXCEPT ![w] = cacheSize] \/ loaded' = [loaded EXCEPT ![w] = 0]
        /\ cacheSize' = cacheSize \/ cacheSize' = loaded[w] + 1
        /\ UNCHANGED <<blocked, copied, cache, history>>
    BY <1>6 DEF Counts, Claiming
  <2>2. /\ pc'[w] \notin Sending /\ pc'[w] # "reclaim"
        /\ UNCHANGED <<abandoned, misled, reclaimed>> /\ raced' \in BOOLEAN
    BY <2>1 DEF Sending, history, Types, CacheTypes
  <2>3. Connection(w).status = "GETTING_REQUEST"
    BY <1>1, <2>1 DEF Places, Placed
  <2>4. Places'
    BY <1>1, <2>1, <2>2, <2>3, StandPlaces
  <2>5. loaded \in [Workers -> Nat] /\ cacheSize \in Nat
    BY DEF Types, CacheTypes
  <2>6. loaded' \in [Workers -> Nat] /\ cacheSize' \in Nat
    BY <2>1, <2>5
  <2>7. CacheTypes'
    BY <1>2, <2>1, <2>2, <2>6 DEF Types, CacheTypes
  <2>8. QueueTypes'
    BY DEF Types, QueueTypes, choices
  <2> QED BY <2>4, <2>7, <2>8 DEF Types
<1> QED BY <1>3, <1>4, <1>5, <1>6

(* Of a worker that serves its connection:                                 *)
LEMMA HandledTypes ==
  ASSUME Types, NEW w \in Workers, pc[w] \in Busy, w \notin blocked, Handled(w),
         UNCHANGED <<choices, queue>>
  PROVE  Types'
<1>1. /\ Places /\ raced \in BOOLEAN /\ copied \in [Workers -> Entry]
      /\ cache \in [Entries -> Entry] /\ reclaimed \in SUBSET Entries
      /\ wants \in [Clients -> Urls \cup {Nil}]
  BY DEF Types, CacheTypes, QueueTypes
<1>2. Racing(w) => raced' \in BOOLEAN
  BY <1>1 DEF Racing
<1>3. ASSUME NEW e \in Entries PROVE e \in Entries /\ Broadcast(e) => blocked' \subseteq blocked
  BY DEF Broadcast
<1>4. CASE Claims(w) \/ Stands(w) \/ Copied(w) \/ Counts(w)
  BY <1>4, StandTypes
<1>5. CASE Plain(w) \/ Relayed(w)
  <2>1. \E d \in Conn, stays \in BOOLEAN : Outcome(w, d, stays, cache) /\ UNCHANGED Private
    BY <1>5 DEF Plain, Relayed
  <2>2. UNCHANGED <<blocked, loaded, copied, cacheVars, misled, raced, reclaimed>>
    BY <2>1 DEF Private
  <2>3. Places'
    BY <2>1, <2>2, OutcomePlaces
  <2> QED BY <1>1, <2>2, <2>3, SameCacheTypes
<1>6. CASE Uncached(w) \/ Found(w)
  <2>1. /\ \E d \in Conn, stays \in BOOLEAN : Outcome(w, d, stays, cache)
        /\ Racing(w) /\ Searched
    BY <1>6 DEF Uncached, Found
  <2>2. Places'
    BY <2>1, OutcomePlaces DEF Searched
  <2> QED BY <1>2, <2>1, <2>2, SameCacheTypes DEF Searched
<1>7. CASE Reclaims(w)
  <2>1. PICK d \in Conn, stays \in BOOLEAN, e \in Entries, memory \in {"null", "alloc", "freed"} :
          /\ cache' = [cache EXCEPT ![e] = Claimed(@, w, memory, @.url)]
          /\ Outcome(w, d, stays, cache') /\ Racing(w)
          /\ copied' = [v \in Workers |-> IF pc[v] = "send" /\ EntryOf(v) = e
                                          THEN [copied[v] EXCEPT !.memory = "freed"]
                                          ELSE copied[v]]
          /\ reclaimed' = reclaimed \cup {e}
          /\ UNCHANGED <<blocked, loaded, cacheSize, fault, misled>>
    BY <1>7 DEF Reclaims
  <2>2. PICK entry : entry = Claimed(cache[e], w, memory, cache[e].url)
    OBVIOUS
  <2>3. entry \in Entry /\ cache' = [cache EXCEPT ![e] = entry]
    <3>1. PICK x \in Entry : x = cache[e]
      BY <1>1
    <3>2. entry = [status |-> "DOWNLOADING", writerId |-> w, url |-> x.url, data |-> x.data,
                   memory |-> memory, alreadyWritten |-> 0, allSize |-> 0]
      BY <2>2, <3>1 DEF Claimed, Entry
    <3>3. entry \in Entry
      BY <3>2 DEF Entry
    <3> QED BY <1>1, <2>1, <2>2, <3>3
  <2>4. copied' \in [Workers -> Entry]
    <3>1. \A x \in Entry : [x EXCEPT !.memory = "freed"] \in Entry
      BY DEF Entry
    <3> QED BY <1>1, <2>1, <3>1
  <2>5. PICK entries : entries = cache'
    OBVIOUS
  <2>6. Outcome(w, d, stays, entries)
    BY <2>1, <2>5 DEF Outcome, Ended
  <2>7. Places'
    BY <2>1, <2>6, OutcomePlaces
  <2>8. raced' \in BOOLEAN /\ reclaimed' \in SUBSET Entries
    BY <1>1, <1>2, <2>1
  <2> QED BY <2>1, <2>3, <2>4, <2>7, <2>8, EntryTypes
<1>8. CASE Indexes(w)
  <2>1. PICK d \in Conn, stays \in BOOLEAN, e \in Entries :
          /\ cache' = [cache EXCEPT ![e] = Claimed(@, w, @.memory, wants[d.client])]
          /\ Outcome(w, d, stays, cache') /\ Racing(w)
          /\ UNCHANGED <<blocked, loaded, copied, cacheSize, fault, misled, reclaimed>>
    BY <1>8 DEF Indexes
  <2>2. PICK entry : entry = Claimed(cache[e], w, cache[e].memory, wants[d.client])
    OBVIOUS
  <2>3. entry \in Entry /\ cache' = [cache EXCEPT ![e] = entry]
    <3>1. PICK x \in Entry : x = cache[e]
      BY <1>1
    <3>2. PICK u \in Urls \cup {Nil} : u = wants[d.client]
      BY <1>1 DEF Conn
    <3>3. entry = [status |-> "DOWNLOADING", writerId |-> w, url |-> u, data |-> x.data,
                   memory |-> x.memory, alreadyWritten |-> 0, allSize |-> 0]
      BY <2>2, <3>1, <3>2 DEF Claimed, Entry
    <3>4. entry \in Entry
      BY <3>3 DEF Entry
    <3> QED BY <1>1, <2>1, <2>2, <3>4
  <2>4. PICK entries : entries = cache'
    OBVIOUS
  <2>5. Outcome(w, d, stays, entries)
    BY <2>1, <2>4 DEF Outcome, Ended
  <2>6. Places'
    BY <2>1, <2>5, OutcomePlaces
  <2>7. raced' \in BOOLEAN /\ reclaimed' \in SUBSET Entries /\ copied' \in [Workers -> Entry]
    BY <1>1, <1>2, <2>1
  <2> QED BY <2>1, <2>3, <2>6, <2>7, EntryTypes
<1>9. CASE Cancelled(w)
  <2>1. PICK d \in Conn, stays \in BOOLEAN, e \in Entries :
          /\ Outcome(w, d, stays, Invalid(e)) /\ cache' = Invalid(e) /\ Broadcast(e)
          /\ UNCHANGED <<loaded, copied, cacheSize, fault, misled, raced, reclaimed>>
    BY <1>9 DEF Cancelled
  <2>2. PICK entry : entry = [cache[e] EXCEPT !.status = "INVALID", !.writerId = Nil]
    OBVIOUS
  <2>3. entry \in Entry /\ cache' = [cache EXCEPT ![e] = entry]
    <3>1. PICK x \in Entry : x = cache[e]
      BY <1>1
    <3>2. entry = [status |-> "INVALID", writerId |-> Nil, url |-> x.url, data |-> x.data,
                   memory |-> x.memory, alreadyWritten |-> x.alreadyWritten,
                   allSize |-> x.allSize]
      BY <2>2, <3>1 DEF Entry
    <3>3. entry \in Entry
      BY <3>2 DEF Entry
    <3> QED BY <1>1, <2>1, <2>2, <3>3 DEF Invalid
  <2>4. PICK entries : entries = Invalid(e)
    OBVIOUS
  <2>5. Outcome(w, d, stays, entries)
    BY <2>1, <2>4
  <2>6. Places'
    BY <1>3, <2>1, <2>5, OutcomePlaces
  <2> QED BY <1>1, <2>1, <2>3, <2>6, EntryTypes
<1>10. CASE Stored(w)
  <2>1. PICK d \in Conn, stays \in BOOLEAN, e \in Entries, more \in Entry :
          /\ Outcome(w, d, stays, [cache EXCEPT ![e] = more])
          /\ cache' = [cache EXCEPT ![e] = more] /\ Broadcast(e)
          /\ UNCHANGED <<loaded, copied, cacheSize, fault, misled, raced, reclaimed>>
    BY <1>10 DEF Stored
  <2>2. PICK entries : entries = [cache EXCEPT ![e] = more]
    OBVIOUS
  <2>3. Outcome(w, d, stays, entries)
    BY <2>1, <2>2
  <2>4. Places'
    BY <1>3, <2>1, <2>3, OutcomePlaces
  <2> QED BY <1>1, <2>1, <2>4, EntryTypes
<1>11. CASE Sent(w)
  <2>1. /\ \E d \in Conn, stays \in BOOLEAN : Outcome(w, d, stays, cache)
        /\ copied' = [copied EXCEPT ![w] = Fresh]
        /\ UNCHANGED <<blocked, loaded, cacheVars, raced, reclaimed>>
        /\ misled' \in BOOLEAN
    <3>1. misled \in BOOLEAN
      BY DEF Types, CacheTypes
    <3> QED BY <1>11, <3>1 DEF Sent
  <2>2. Places'
    BY <2>1, OutcomePlaces
  <2>3. Fresh \in Entry
    BY EmptySeq DEF Fresh, Entry
  <2>4. CacheTypes'
    BY <1>1, <2>1, <2>3 DEF Types, CacheTypes, cacheVars, Entries, choices
  <2>5. QueueTypes'
    BY DEF Types, QueueTypes, choices
  <2> QED BY <2>2, <2>4, <2>5 DEF Types
<1> QED BY <1>4, <1>5, <1>6, <1>7, <1>8, <1>9, <1>10, <1>11 DEF Handled

(* Of a worker that takes a socket:                                        *)
LEMMA TakesTypes ==
  ASSUME Types, NEW w \in Workers, Takes(w), UNCHANGED choices
  PROVE  Types'
<1>1. PICK c \in Clients :
        /\ connections' = [connections EXCEPT ![w] = Append(@, Accepted(c))]
        /\ pc[w] \notin Busy /\ pc' = [pc EXCEPT ![w] = "poll"]
        /\ queue' \in Seq(Clients) /\ UNCHANGED allConnectionsCount
        /\ UNCHANGED <<todo, blocked, loaded, copied, cacheVars, history>>
  BY DEF Takes
<1>2. Conn' = Conn /\ Entries' = Entries
  BY DEF Conn, Entries, choices
<1>3. WorkerTypes /\ connections[w] \in Seq(Conn)
  BY DEF Types, Places, WorkerTypes
<1>4. Accepted(c) \in Conn
  BY DEF Accepted, Conn, Statuses, Reading
<1>5. PICK s : s = Append(connections[w], Accepted(c))
  OBVIOUS
<1>6. /\ s \in Seq(Conn) /\ Len(s) = Len(connections[w]) + 1
      /\ Len(connections[w]) \in Nat
  BY <1>3, <1>4, <1>5, AppendProperties, LenProperties
<1>7. WorkerTypes'
  <2>1. connections' = [connections EXCEPT ![w] = s] /\ "poll" \in Labels
    BY <1>1, <1>5 DEF Labels
  <2> QED BY <1>1, <1>2, <1>3, <1>6, <2>1 DEF WorkerTypes, history
<1>8. Placed(w)'
  <2>1. connections'[w] = s
    BY <1>1, <1>3, <1>5 DEF WorkerTypes
  <2>2. todo[w] \subseteq 1 .. Own(w) /\ w \notin blocked
    BY <1>1 DEF Types, Places, Placed, Busy, Sending
  <2>3. Own(w)' = Own(w) + 1 /\ Own(w) \in Nat
    BY <1>6, <2>1 DEF Own
  <2>4. todo'[w] \subseteq 1 .. Own(w)'
    BY <1>1, <2>2, <2>3
  <2>5. pc'[w] = "poll"
    BY <1>1, <1>3 DEF WorkerTypes
  <2> QED BY <1>1, <2>2, <2>4, <2>5 DEF Placed, Busy, Claiming, Sending
<1>9. ASSUME NEW v \in Workers \ {w} PROVE Placed(v)'
  <2>1. connections'[v] = connections[v] /\ pc'[v] = pc[v] /\ todo'[v] = todo[v]
    BY <1>1, <1>3 DEF WorkerTypes
  <2> QED BY <1>1, <2>1, OtherPlaced DEF Types, Places, choices
<1>10. Places'
  BY <1>7, <1>8, <1>9 DEF Places
<1>11. QueueTypes'
  BY <1>1 DEF Types, QueueTypes, choices
<1>12. CacheTypes'
  BY <1>1, <1>2 DEF Types, CacheTypes, cacheVars, history
<1> QED BY <1>10, <1>11, <1>12 DEF Types

(* Of the others:                                                          *)
LEMMA AsideTypes ==
  ASSUME Types, Aside, UNCHANGED choices
  PROVE  Types'
<1>1. Conn' = Conn /\ Entries' = Entries
  BY DEF Conn, Entries, choices
<1>2. WorkerTypes'
  BY <1>1 DEF Types, Places, WorkerTypes, Aside, history
<1>3. ASSUME NEW v \in Workers PROVE Placed(v)'
  <2>1. Placed(v) /\ connections'[v] = connections[v] /\ (v \in blocked' => v \in blocked)
    BY DEF Types, Places, Aside
  <2>2. CASE pc'[v] = pc[v] /\ todo'[v] = todo[v]
    BY <2>1, <2>2, OtherPlaced DEF choices
  <2>3. CASE pc[v] \notin Busy
    <3>1. Own(v)' = Own(v) /\ v \notin blocked
      BY <2>1, <2>3 DEF Own, Placed, Busy, Sending
    <3>2. \/ pc'[v] \notin Busy /\ todo'[v] = todo[v]
          \/ pc'[v] = "serve" /\ todo'[v] \in (SUBSET (1 .. Own(v))) \ {{}}
          \/ pc'[v] = pc[v] /\ todo'[v] = todo[v]
      BY DEF Aside
    <3> QED BY <2>1, <2>3, <3>1, <3>2 DEF Placed, Busy, Claiming, Sending
  <2> QED BY <2>2, <2>3 DEF Aside
<1>4. QueueTypes'
  BY DEF Types, QueueTypes, choices, Aside
<1>5. CacheTypes'
  BY <1>1 DEF Types, CacheTypes, cacheVars, history, Aside
<1> QED BY <1>2, <1>3, <1>4, <1>5 DEF Types, Places

(* At the start:                                                           *)
LEMMA InitTypes ==
  ASSUME Init
  PROVE  Types
<1>1. MAX_CACHE_SIZE \in Nat /\ wants \in [Clients -> Urls \cup {Nil}] /\ queue = <<>>
  BY ProxyAssumption DEF Init, createQueue, isEmpty
<1>2. QueueTypes
  BY <1>1, EmptySeq DEF QueueTypes
<1>3. Fresh \in Entry
  BY EmptySeq DEF Fresh, Entry
<1>4. CacheTypes
  BY <1>3 DEF Init, CacheTypes
<1>5. WorkerTypes
  BY EmptySeq DEF Init, WorkerTypes, Labels
<1>6. ASSUME NEW w \in Workers PROVE Placed(w)
  BY DEF Init, Placed, Busy, Claiming, Sending
<1> QED BY <1>2, <1>4, <1>5, <1>6 DEF Types, Places

(* And by every step.                                                      *)
LEMMA StepTypes ==
  ASSUME Types, [Next]_vars
  PROVE  Types'
BY StepShape, AsideTypes, TakesTypes, HandledTypes

(* The variables are always of their types, and every worker has what its  *)
(* place in the code asks for.                                             *)
THEOREM TypesCorrect == Spec => []Types
BY InitTypes, StepTypes, PTL DEF Spec
-----------------------------------------------------------------------------
(* The count.  Every step that serves a connection is a turn of its worker. *)
LEMMA HandledTurn ==
  ASSUME NEW w \in Workers, Handled(w)
  PROVE  \E d \in Conn \cup {Connection(w)}, stays \in BOOLEAN : Turn(w, d, stays)
<1>1. CASE Plain(w) \/ Uncached(w) \/ Found(w) \/ Relayed(w)
  BY <1>1 DEF Plain, Uncached, Found, Relayed, Outcome, Served
<1>2. CASE Cancelled(w) \/ Stored(w)
  BY <1>2 DEF Cancelled, Stored, Outcome, Served
<1>3. CASE Reclaims(w) \/ Indexes(w)
  BY <1>3 DEF Reclaims, Indexes, Outcome, Served
<1>4. CASE Sent(w)
  BY <1>4 DEF Sent, Outcome, Served
<1>5. CASE Claims(w)
  BY <1>5 DEF Claims
<1>6. CASE Counts(w) \/ Stands(w) \/ Copied(w)
  BY <1>6 DEF Counts, Stands, Copied
<1> QED BY <1>1, <1>2, <1>3, <1>4, <1>5, <1>6 DEF Handled

(* The places of the workers' arrays.                                      *)
LEMMA HeldIs ==
  ASSUME NEW w \in Workers, NEW k
  PROVE  <<w, k>> \in Held <=> k \in 1 .. Own(w)
BY DEF Held

Counted == IsFiniteSet(Held) /\ Owed = Cardinality(Held)

(* A socket becomes a connection.                                          *)
LEMMA TakesCounted ==
  ASSUME Types, Counted, NEW w \in Workers, Takes(w)
  PROVE  Counted'
<1>1. PICK c \in Clients :
        /\ connections' = [connections EXCEPT ![w] = Append(@, Accepted(c))]
        /\ Owed' = Owed + 1
  BY DEF Takes
<1>2. connections \in [Workers -> Seq(Conn)] /\ Own(w) \in Nat /\ Accepted(c) \in Conn
  BY LenProperties DEF Types, Places, WorkerTypes, Own, Accepted, Conn, Statuses, Reading
<1>3. Own(w)' = Own(w) + 1
  BY <1>1, <1>2, AppendProperties DEF Own
<1>4. \A v \in Workers \ {w} : Own(v)' = Own(v)
  BY <1>1, <1>2 DEF Own
<1>5. Held' = Held \cup {<<w, Own(w) + 1>>}
  BY <1>2, <1>3, <1>4 DEF Held
<1>6. <<w, Own(w) + 1>> \notin Held
  BY <1>2, HeldIs
<1>7. IsFiniteSet(Held') /\ Cardinality(Held') = Cardinality(Held) + 1
  BY <1>5, <1>6, FS_AddElement DEF Counted
<1> QED BY <1>1, <1>7 DEF Counted

(* A connection stays or leaves.                                           *)
LEMMA TurnCounted ==
  ASSUME Types, Counted, NEW w \in Workers, pc[w] \in Busy, NEW d, NEW stays \in BOOLEAN,
         Turn(w, d, stays), UNCHANGED <<main, queue>>
  PROVE  Counted'
<1>1. Own(w) \in Nat /\ Own(w) \in 1 .. Own(w)
  BY AtConnection DEF Types
<1>2. \A v \in Workers \ {w} : Own(v)' = Own(v)
  BY DEF Turn, Own
<1>3. allConnectionsCount \in Int /\ Len(queue) \in Nat
  BY LenProperties DEF Types, Places, WorkerTypes, QueueTypes
<1>4. CASE stays
  <2>1. Own(w)' = Own(w) /\ allConnectionsCount' = allConnectionsCount
    BY <1>4 DEF Turn
  <2>2. Held' = Held
    BY <1>2, <2>1 DEF Held
  <2>3. Owed' = Owed
    BY <2>1 DEF Owed
  <2> QED BY <2>2, <2>3 DEF Counted
<1>5. CASE ~stays
  <2>1. Own(w)' = Own(w) - 1 /\ allConnectionsCount' = allConnectionsCount - 1
    BY <1>5 DEF Turn
  <2>2. Held' = Held \ {<<w, Own(w)>>}
    BY <1>1, <1>2, <2>1 DEF Held
  <2>3. <<w, Own(w)>> \in Held
    BY <1>1, HeldIs
  <2>4. Owed' = Owed - 1
    BY <1>3, <2>1 DEF Owed
  <2>5. IsFiniteSet(Held') /\ Cardinality(Held') = Cardinality(Held) - 1
    BY <2>2, <2>3, FS_RemoveElement DEF Counted
  <2> QED BY <2>4, <2>5 DEF Counted
<1> QED BY <1>4, <1>5

(* Every step keeps the count.                                             *)
LEMMA StepCounted ==
  ASSUME Types, Counted, [Next]_vars
  PROVE  Counted'
<1>1. CASE Aside
  <2>1. Held' = Held /\ Owed' = Owed
    BY <1>1 DEF Aside, Held, Own
  <2> QED BY <2>1 DEF Counted
<1>2. ASSUME NEW w \in Workers, pc[w] \in Busy, Handled(w), UNCHANGED <<main, queue>>
      PROVE  Counted'
  <2>1. \E d : \E stays \in BOOLEAN : Turn(w, d, stays)
    BY <1>2, HandledTurn
  <2> QED BY <1>2, <2>1, TurnCounted
<1> QED BY <1>1, <1>2, StepShape, TakesCounted

(* There are as many connections as main has accepted and no worker has    *)
(* dropped: allConnectionsCount is what the queue and the arrays hold.     *)
THEOREM CountCorrect == Spec => []CountExact
<1>1. Init => Counted
  <2> SUFFICES ASSUME Init PROVE Counted
    OBVIOUS
  <2>1. \A w \in Workers : Own(w) = 0
    BY EmptySeq DEF Init, Own
  <2>2. Held = {}
    BY <2>1 DEF Held
  <2>3. queue = <<>> /\ allConnectionsCount = 0 /\ main = "create"
    BY DEF Init, createQueue, isEmpty
  <2>4. Owed = 0
    <3>1. Len(queue) = 0 /\ main # "count"
      BY <2>3, EmptySeq
    <3>2. (IF main = "count" THEN 1 ELSE 0) = 0
      BY <3>1
    <3>3. Owed = 0 + (0 - 0)
      BY <2>3, <3>1, <3>2 DEF Owed
    <3> QED BY <3>3
  <2> QED BY <2>2, <2>4, FS_EmptySet DEF Counted
<1>2. Types /\ Counted /\ [Next]_vars => Types' /\ Counted'
  BY StepTypes, StepCounted
<1>3. Types /\ Counted => CountExact
  <2> SUFFICES ASSUME Types, Counted PROVE CountExact
    OBVIOUS
  <2>1. /\ allConnectionsCount \in Int /\ Len(queue) \in Nat
        /\ Owed = Cardinality(Held) /\ Cardinality(Held) \in Nat
    BY LenProperties, FS_CardinalityType DEF Types, Places, WorkerTypes, QueueTypes, Counted
  <2> QED BY <2>1 DEF CountExact, Owed
<1> QED BY <1>1, <1>2, <1>3, InitTypes, PTL DEF Spec
-----------------------------------------------------------------------------
(* The positions of the connections.  Who writes an entry, and who reads   *)
(* it:                                                                     *)
Writes(c, e) == c.status \in Writing /\ c.cacheIndex = e
Reads(c, e) == c.status \in Reading /\ c.cacheIndex = e

(* A connection that is alike does what the other did.                     *)
LEMMA AlikeFacts ==
  ASSUME NEW c, NEW d, Alike(c, d)
  PROVE  /\ \A e : (Writes(d, e) <=> Writes(c, e)) /\ (Reads(d, e) <=> Reads(c, e))
         /\ d.status = "WAITING_DATA_ON_CACHE" => c.status = "WAITING_DATA_ON_CACHE"
         /\ d.client = c.client /\ d.cacheIndex = c.cacheIndex
BY DEF Alike, Writes, Reads, Writing, Reading

(* What the workers have is of the type of a connection.                   *)
LEMMA ConnTypes ==
  ASSUME Places, NEW v \in Workers
  PROVE  /\ connections[v] \in Seq(Conn) /\ Own(v) \in Nat
         /\ DOMAIN connections[v] = 1 .. Own(v)
         /\ \A k \in 1 .. Own(v) : connections[v][k] \in Conn
BY LenProperties, ElementOfSeq DEF Places, WorkerTypes, Own

(* Where the connection at k of v was before a turn of w.                  *)
Was(w, stays, v, k) == IF v = w THEN Before(w, stays, k) ELSE k

(* After a turn of w every connection but the one it is at is where it was *)
(* or was moved, and is alike.                                             *)
LEMMA TurnConns ==
  ASSUME Places, NEW w \in Workers, pc[w] \in Busy, NEW d, NEW stays \in BOOLEAN,
         Turn(w, d, stays), NEW v \in Workers
  PROVE  /\ \A k \in 1 .. Own(v)' :
              \/ v = w /\ stays /\ k = Serving(w) /\ connections'[v][k] = d
              \/ /\ Was(w, stays, v, k) \in 1 .. Own(v)
                 /\ ~(v = w /\ Was(w, stays, v, k) = Serving(w))
                 /\ Alike(connections[v][Was(w, stays, v, k)], connections'[v][k])
         /\ \A i \in 1 .. Own(v) :
              \/ v = w /\ i = Serving(w)
              \/ \E k \in 1 .. Own(v)' : Alike(connections[v][i], connections'[v][k])
         /\ \A j, k \in 1 .. Own(v)' :
              Was(w, stays, v, j) = Was(w, stays, v, k) => j = k
         /\ v = w /\ stays =>
              Serving(w) \in 1 .. Own(v)' /\ connections'[v][Serving(w)] = d
<1>1. CASE v # w
  <2>1. connections'[v] = connections[v] /\ Own(v)' = Own(v)
    BY <1>1 DEF Turn, Own
  <2>2. \A k : Was(w, stays, v, k) = k
    BY <1>1 DEF Was
  <2>3. \A k \in 1 .. Own(v) : Alike(connections[v][k], connections'[v][k])
    BY <2>1 DEF Alike
  <2> QED BY <1>1, <2>1, <2>2, <2>3
<1>2. CASE v = w
  <2>1. Own(w) \in Nat /\ Serving(w) \in 1 .. Own(w)
    BY AtConnection
  <2>2. /\ Own(w)' = IF stays THEN Own(w) ELSE Own(w) - 1
        /\ \A k \in 1 .. Own(w)' :
             IF stays /\ k = Serving(w) THEN connections'[w][k] = d
             ELSE Alike(connections[w][Before(w, stays, k)], connections'[w][k])
    BY DEF Turn
  <2>3. \A k : Was(w, stays, v, k) = Before(w, stays, k)
    BY <1>2 DEF Was
  <2>4. CASE stays
    <3>1. \A k : Before(w, stays, k) = k
      BY <2>4 DEF Before
    <3>2. Own(w)' = Own(w)
      BY <2>2, <2>4
    <3>3. \A k \in 1 .. Own(w) :
            IF k = Serving(w) THEN connections'[w][k] = d
            ELSE Alike(connections[w][k], connections'[w][k])
      BY <2>2, <2>4, <3>1, <3>2
    <3>4. \A i \in 1 .. Own(w) :
            i = Serving(w) \/ \E k \in 1 .. Own(w) : Alike(connections[w][i], connections'[w][k])
      BY <3>3
    <3>5. \A k \in 1 .. Own(w) :
            \/ k = Serving(w) /\ connections'[w][k] = d
            \/ k # Serving(w) /\ Alike(connections[w][k], connections'[w][k])
      BY <3>3
    <3>6. \A k : Was(w, stays, v, k) = k
      BY <2>3, <3>1
    <3>7. \A k \in 1 .. Own(w) :
            \/ stays /\ k = Serving(w) /\ connections'[w][k] = d
            \/ /\ Was(w, stays, v, k) \in 1 .. Own(w) /\ Was(w, stays, v, k) # Serving(w)
               /\ Alike(connections[w][Was(w, stays, v, k)], connections'[w][k])
      BY <2>4, <3>5, <3>6
    <3> QED BY <1>2, <2>1, <3>2, <3>4, <3>5, <3>6, <3>7
  <2>5. CASE ~stays
    <3>1. /\ \A k : Before(w, stays, k) = IF k = Serving(w) THEN Own(w) ELSE k
          /\ Own(w)' = Own(w) - 1
      BY <2>2, <2>5 DEF Before
    <3>2. ASSUME NEW k \in 1 .. Own(w) - 1
          PROVE  /\ Before(w, stays, k) \in (1 .. Own(w)) \ {Serving(w)}
                 /\ Alike(connections[w][Before(w, stays, k)], connections'[w][k])
      BY <2>1, <2>2, <2>5, <3>1
    <3>3. ASSUME NEW i \in (1 .. Own(w)) \ {Serving(w)}
          PROVE  \E k \in 1 .. Own(w) - 1 : Before(w, stays, k) = i
      <4>1. CASE i = Own(w)
        BY <2>1, <3>1, <4>1
      <4>2. CASE i # Own(w)
        BY <2>1, <3>1, <4>2
      <4> QED BY <4>1, <4>2
    <3>4. \A j, k \in 1 .. Own(w) - 1 : Before(w, stays, j) = Before(w, stays, k) => j = k
      BY <2>1, <3>1
    <3>5. \A i \in 1 .. Own(w) :
            i = Serving(w) \/ \E k \in 1 .. Own(w) - 1 :
                                Alike(connections[w][i], connections'[w][k])
      BY <3>2, <3>3
    <3> QED BY <1>2, <2>3, <2>5, <3>1, <3>2, <3>4, <3>5
  <2> QED BY <2>4, <2>5
<1> QED BY <1>1, <1>2

(* Only the worker whose turn it is may cease to write an entry.           *)
LEMMA TurnWriters ==
  ASSUME Places, Places', NEW w \in Workers, pc[w] \in Busy, NEW d, NEW stays \in BOOLEAN,
         Turn(w, d, stays), NEW e, NEW v \in Workers, v \in Writers(e)
  PROVE  \/ v \in Writers(e)'
         \/ v = w /\ Writes(Connection(w), e) /\ ~(stays /\ Writes(d, e))
<1>1. DOMAIN connections[v] = 1 .. Own(v) /\ DOMAIN connections'[v] = 1 .. Own(v)'
  <2>1. connections[v] \in Seq(Conn) /\ connections'[v] \in Seq(Conn')
    BY DEF Places, WorkerTypes
  <2> QED BY <2>1, LenProperties DEF Own
<1>2. PICK i \in 1 .. Own(v) : Writes(connections[v][i], e)
  BY <1>1 DEF Writers, Writes
<1>3. \A k \in 1 .. Own(v)' : Writes(connections'[v][k], e) => v \in Writers(e)'
  BY <1>1 DEF Writers, Writes
<1>4. CASE v = w /\ i = Serving(w)
  BY <1>2, <1>3, <1>4, TurnConns DEF Connection
<1>5. CASE ~(v = w /\ i = Serving(w))
  <2>1. PICK k \in 1 .. Own(v)' : Alike(connections[v][i], connections'[v][k])
    BY <1>5, TurnConns
  <2>2. Writes(connections'[v][k], e)
    BY <1>2, <2>1, AlikeFacts
  <2> QED BY <1>3, <2>2
<1> QED BY <1>4, <1>5
-----------------------------------------------------------------------------
(* What one worker in searchCache at a time comes to.  A connection with   *)
(* an entry asked for its URL;                                             *)
Named(c) ==
  c.cacheIndex # Nil =>
    wants[c.client] # Nil /\ cache[c.cacheIndex].url = wants[c.client]

AllNamed == \A v \in Workers : \A k \in 1 .. Own(v) : Named(connections[v][k])

(* a worker that claims an entry claims one that nobody has;               *)
Claim(v) ==
  /\ pc[v] \in Claiming => wants[Connection(v).client] # Nil
  /\ pc[v] \in {"load", "store"} => cacheSize < MAX_CACHE_SIZE
  /\ pc[v] = "store" => loaded[v] = cacheSize
  /\ pc[v] = "index" => cacheSize \in Entries /\ cache[cacheSize].url = Nil

OneClaims == \A v, w \in Workers : pc[v] \in Claiming /\ pc[w] \in Claiming => v = w

(* and the entries in use are those with a URL.                            *)
Sized(e) ==
  /\ e > cacheSize => cache[e].url = Nil
  /\ cache[e].url = Nil => /\ cache[e].status \in {"UNUSED", "INVALID"}
                           /\ cache[e].alreadyWritten = 0
  /\ cache[e].url # Nil => cache[e].status # "UNUSED"

Sizes == \A e \in Entries : Sized(e)

Claimable == OneClaims /\ (\A v \in Workers : Claim(v)) /\ Sizes /\ AllNamed

(* A URL stays with its entry, so those that asked for it have it.         *)
LEMMA TurnNamed ==
  ASSUME Places, AllNamed, UNCHANGED wants, NEW w \in Workers, pc[w] \in Busy,
         NEW d, NEW stays \in BOOLEAN, Turn(w, d, stays),
         \A e \in Entries : cache[e].url # Nil => cache'[e].url = cache[e].url,
         stays => Named(d)'
  PROVE  AllNamed'
<1> SUFFICES ASSUME NEW v \in Workers, NEW k \in 1 .. Own(v)'
             PROVE  Named(connections[v][k])'
  BY DEF AllNamed
<1>1. CASE stays /\ connections'[v][k] = d
  BY <1>1 DEF Named
<1>2. ASSUME NEW i \in 1 .. Own(v), Alike(connections[v][i], connections'[v][k])
      PROVE  Named(connections[v][k])'
  <2>1. PICK c \in Conn : c = connections[v][i]
    BY ConnTypes
  <2>2. PICK x : x = connections'[v][k]
    OBVIOUS
  <2>3. Named(c) /\ x.client = c.client /\ x.cacheIndex = c.cacheIndex
    BY <1>2, <2>1, <2>2, AlikeFacts DEF AllNamed
  <2>4. c.cacheIndex \in Entries \cup {Nil}
    BY <2>1 DEF Conn
  <2>5. Named(x)'
    BY <2>3, <2>4 DEF Named
  <2> QED BY <2>2, <2>5 DEF Named
<1> QED BY <1>1, <1>2, TurnConns

(* The other workers do not claim, or have what they had.                  *)
LEMMA TurnClaims ==
  ASSUME Claimable, NEW w \in Workers, NEW d, NEW stays \in BOOLEAN, Turn(w, d, stays),
         UNCHANGED choices, Claim(w)',
         pc'[w] \in Claiming => \A v \in Workers \ {w} : pc[v] \notin Claiming,
         \/ \A v \in Workers \ {w} : pc[v] \notin Claiming
         \/ /\ UNCHANGED <<cacheSize, loaded>>
            /\ \A e \in Entries : cache'[e].url = cache[e].url
  PROVE  OneClaims' /\ \A v \in Workers : Claim(v)'
<1>1. ASSUME NEW v \in Workers \ {w}
      PROVE  /\ pc'[v] = pc[v] /\ Connection(v)' = Connection(v)
  BY SameServing DEF Turn
<1>2. OneClaims'
  BY <1>1 DEF Claimable, OneClaims
<1>3. ASSUME NEW v \in Workers \ {w} PROVE Claim(v)'
  <2>1. Claim(v) /\ pc'[v] = pc[v] /\ Connection(v)' = Connection(v)
    BY <1>1 DEF Claimable
  <2>2. CASE pc[v] \notin Claiming
    BY <2>1, <2>2 DEF Claim, Claiming
  <2>3. CASE UNCHANGED <<cacheSize, loaded>> /\ \A e \in Entries : cache'[e].url = cache[e].url
    BY <2>1, <2>3 DEF Claim, choices, Entries
  <2> QED BY <2>2, <2>3
<1> QED BY <1>2, <1>3

(* A step after which the worker does not claim, and that leaves the URLs  *)
(* alone.                                                                  *)
LEMMA QuietClaims ==
  ASSUME Types, Claimable, UNCHANGED <<choices, cacheSize, loaded>>,
         NEW w \in Workers, pc[w] \in Busy,
         NEW d, NEW stays \in BOOLEAN, Turn(w, d, stays), pc'[w] \notin Claiming,
         \A e \in Entries : cache'[e].url = cache[e].url,
         Sizes', stays => Named(d)'
  PROVE  Claimable'
<1>1. Claim(w)'
  BY DEF Claim, Claiming
<1>2. OneClaims' /\ \A v \in Workers : Claim(v)'
  BY <1>1, TurnClaims
<1>3. AllNamed'
  BY TurnNamed DEF Types, Claimable, choices
<1> QED BY <1>2, <1>3 DEF Claimable

(* The same, when the cache stays as it is.                                *)
LEMMA SameClaims ==
  ASSUME Types, Claimable, UNCHANGED <<choices, cacheVars, loaded>>,
         NEW w \in Workers, pc[w] \in Busy,
         NEW d, NEW stays \in BOOLEAN, Turn(w, d, stays), pc'[w] \notin Claiming,
         \/ d.client = Connection(w).client /\ d.cacheIndex = Connection(w).cacheIndex
         \/ d.cacheIndex = Nil \/ Matches(d)
  PROVE  Claimable'
<1>1. Sizes'
  BY DEF Claimable, Sizes, Sized, cacheVars, choices, Entries
<1>2. Named(Connection(w))
  BY AtConnection DEF Types, Claimable, AllNamed
<1>3. Named(d)'
  BY <1>2 DEF Named, Matches, cacheVars, choices
<1>4. \A e \in Entries : cache'[e].url = cache[e].url
  BY DEF cacheVars
<1> QED BY <1>1, <1>3, <1>4, QuietClaims DEF cacheVars

(* An entry becomes another with the same URL.                             *)
LEMMA EntrySized ==
  ASSUME Claimable, UNCHANGED <<choices, cacheSize>>,
         NEW e \in Entries, \A f \in Entries \ {e} : cache'[f] = cache[f],
         Sized(e)'
  PROVE  Sizes'
<1>1. Entries' = Entries
  BY DEF choices, Entries
<1>2. ASSUME NEW f \in Entries PROVE Sized(f)'
  BY DEF Claimable, Sizes, Sized
<1> QED BY <1>1, <1>2 DEF Sizes

(* By the steps that leave the cache as it is:                             *)
LEMMA StillClaims ==
  ASSUME Types, Claimable, UNCHANGED choices, NEW w \in Workers, pc[w] \in Busy,
         \/ Plain(w) \/ Uncached(w) \/ Found(w) \/ Relayed(w)
         \/ Stands(w) \/ Copied(w) \/ Sent(w)
  PROVE  Claimable'
<1>1. /\ "serve" \notin Claiming /\ "top" \notin Claiming /\ "copy" \notin Claiming
      /\ "blocked" \notin Claiming /\ "send" \notin Claiming
  BY DEF Claiming
<1>2. CASE Plain(w) \/ Uncached(w) \/ Found(w) \/ Relayed(w)
  <2>1. PICK d \in Conn, stays \in BOOLEAN :
          /\ Outcome(w, d, stays, cache) /\ UNCHANGED <<cacheVars, loaded>>
          /\ \/ d.client = Connection(w).client /\ d.cacheIndex = Connection(w).cacheIndex
             \/ d.cacheIndex = Nil \/ Matches(d)
    BY <1>2 DEF Plain, Uncached, Found, Relayed, Private, Searched, Same, Received
  <2>2. Turn(w, d, stays) /\ pc'[w] \notin Claiming
    BY <1>1, <2>1 DEF Outcome, Served
  <2> QED BY <2>1, <2>2, SameClaims
<1>3. CASE Sent(w)
  <2>1. PICK d \in Conn, stays \in BOOLEAN :
          /\ Outcome(w, d, stays, cache) /\ UNCHANGED <<cacheVars, loaded>>
          /\ d.client = Connection(w).client /\ d.cacheIndex = Connection(w).cacheIndex
    BY <1>3 DEF Sent
  <2>2. Turn(w, d, stays) /\ pc'[w] \notin Claiming
    BY <1>1, <2>1 DEF Outcome, Served
  <2> QED BY <2>1, <2>2, SameClaims
<1>4. CASE Stands(w) \/ Copied(w)
  <2>1. /\ Turn(w, Connection(w), TRUE) /\ UNCHANGED <<cacheVars, loaded>>
        /\ pc'[w] \notin Claiming
    BY <1>1, <1>4 DEF Stands, Copied
  <2> QED BY <2>1, SameClaims
<1> QED BY <1>2, <1>3, <1>4

(* By those that claim it, while no other worker does:                     *)
LEMMA ClaimsClaims ==
  ASSUME Types, Claimable, UNCHANGED choices, NEW w \in Workers, pc[w] \in Busy,
         Claims(w), ~raced'
  PROVE  Claimable'
<1>1. PICK d \in Conn :
        /\ Turn(w, d, TRUE) /\ Connection(w)' = d /\ wants[d.client] # Nil
        /\ \/ pc'[w] = "load" /\ d.cacheIndex = Nil /\ cacheSize < MAX_CACHE_SIZE
           \/ pc'[w] = "reclaim" /\ Matches(d)
        /\ Racing(w) /\ UNCHANGED <<cacheVars, loaded>>
  BY DEF Claims, Searched
<1>2. \A v \in Workers \ {w} : pc[v] \notin Claiming
  BY <1>1 DEF Racing
<1>3. Claim(w)'
  BY <1>1 DEF Claim, choices, cacheVars
<1>4. OneClaims' /\ \A v \in Workers : Claim(v)'
  BY <1>1, <1>2, <1>3, TurnClaims
<1>5. Sizes'
  BY <1>1 DEF Claimable, Sizes, Sized, cacheVars, choices, Entries
<1>6. Named(d)'
  BY <1>1 DEF Named, Matches, cacheVars, choices
<1>7. AllNamed'
  <2>1. \A e \in Entries : cache'[e].url = cache[e].url
    BY <1>1 DEF cacheVars
  <2> QED BY <1>1, <1>6, <2>1, TurnNamed DEF Types, Claimable, choices
<1> QED BY <1>4, <1>5, <1>7 DEF Claimable

(* Raising cacheSize keeps the claims: nobody else is in searchCache.      *)
LEMMA CountsClaims ==
  ASSUME Types, Claimable, UNCHANGED choices, NEW w \in Workers, pc[w] \in Busy, Counts(w)
  PROVE  Claimable'
<1>1. /\ Turn(w, Connection(w), TRUE) /\ Connection(w)' = Connection(w)
      /\ \/ /\ pc[w] = "load" /\ pc'[w] = "store"
            /\ loaded' = [loaded EXCEPT ![w] = cacheSize] /\ UNCHANGED cacheSize
         \/ /\ pc[w] = "store" /\ pc'[w] = "index"
            /\ loaded' = [loaded EXCEPT ![w] = 0] /\ cacheSize' = loaded[w] + 1
      /\ UNCHANGED cache
  BY DEF Counts
<1>2. /\ loaded \in [Workers -> Nat] /\ cacheSize \in Nat /\ MAX_CACHE_SIZE \in Nat
      /\ Claim(w) /\ pc[w] \in Claiming /\ pc'[w] \in Claiming
  BY <1>1 DEF Types, CacheTypes, QueueTypes, Claimable, Claiming
<1>3. \A v \in Workers \ {w} : pc[v] \notin Claiming
  BY <1>2 DEF Claimable, OneClaims
<1>4. cacheSize' = cacheSize \/ (cacheSize' = cacheSize + 1 /\ cacheSize < MAX_CACHE_SIZE)
  BY <1>1, <1>2 DEF Claim
<1>5. Sizes'
  <2>1. Entries' = Entries
    BY DEF Entries, choices
  <2>2. ASSUME NEW e \in Entries PROVE Sized(e)'
    BY <1>1, <1>2, <1>4 DEF Claimable, Sizes, Sized, Entries
  <2> QED BY <2>1, <2>2 DEF Sizes
<1>6. Claim(w)'
  <2>1. wants'[Connection(w).client] # Nil
    BY <1>2 DEF Claim, choices
  <2>2. CASE pc[w] = "load" /\ pc'[w] = "store"
    BY <1>1, <1>2, <2>1, <2>2 DEF Claim, choices
  <2>3. CASE pc[w] = "store" /\ pc'[w] = "index"
    <3>1. cacheSize' = cacheSize + 1 /\ cacheSize < MAX_CACHE_SIZE
      BY <1>1, <1>2, <2>3 DEF Claim
    <3>2. cacheSize' \in Entries /\ cacheSize' > cacheSize
      BY <1>2, <3>1 DEF Entries
    <3>3. cache[cacheSize'].url = Nil
      BY <3>2 DEF Claimable, Sizes, Sized
    <3> QED BY <1>1, <2>1, <2>3, <3>2, <3>3 DEF Claim, choices, Entries
  <2> QED BY <1>1, <2>2, <2>3
<1>7. OneClaims' /\ \A v \in Workers : Claim(v)'
  BY <1>1, <1>3, <1>6, TurnClaims
<1>8. Named(Connection(w))
  BY AtConnection DEF Types, Claimable, AllNamed
<1>9. AllNamed'
  <2>1. Named(Connection(w))'
    BY <1>1, <1>8 DEF Named, choices
  <2>2. PICK d : d = Connection(w)
    OBVIOUS
  <2>3. Turn(w, d, TRUE) /\ Named(d)'
    BY <1>1, <2>1, <2>2 DEF Named
  <2>4. \A e \in Entries : cache'[e].url = cache[e].url
    BY <1>1
  <2> QED BY <2>3, <2>4, TurnNamed DEF Types, Claimable, choices
<1> QED BY <1>5, <1>7, <1>9 DEF Claimable

(* What an entry is when it was claimed.                                   *)
LEMMA ClaimedFacts ==
  ASSUME NEW x \in Entry, NEW w, NEW memory, NEW url
  PROVE  /\ Claimed(x, w, memory, url).status = "DOWNLOADING"
         /\ Claimed(x, w, memory, url).writerId = w
         /\ Claimed(x, w, memory, url).url = url
         /\ Claimed(x, w, memory, url).data = x.data
         /\ Claimed(x, w, memory, url).alreadyWritten = 0
         /\ Claimed(x, w, memory, url).allSize = 0
<1>1. PICK entry : entry = Claimed(x, w, memory, url)
  OBVIOUS
<1>2. entry = [status |-> "DOWNLOADING", writerId |-> w, url |-> url, data |-> x.data,
               memory |-> memory, alreadyWritten |-> 0, allSize |-> 0]
  BY <1>1 DEF Claimed, Entry
<1> QED BY <1>1, <1>2

(* By those that write an entry that has its URL:                          *)
LEMMA WriteClaims ==
  ASSUME Types, Claimable, UNCHANGED choices, NEW w \in Workers, pc[w] \in Busy,
         Reclaims(w) \/ Cancelled(w) \/ Stored(w)
  PROVE  Claimable'
<1>1. /\ "serve" \notin Claiming /\ "top" \notin Claiming
      /\ cache \in [Entries -> Entry]
  BY DEF Claiming, Types, CacheTypes
<1>2. Named(Connection(w)) /\ Connection(w) \in Conn
  BY AtConnection DEF Types, Claimable, AllNamed
<1>3. \E d \in Conn, stays \in BOOLEAN, e \in Entries :
        /\ Served(w, d, stays) /\ \A f \in Entries \ {e} : cache'[f] = cache[f]
        /\ cache'[e].url = cache[e].url /\ UNCHANGED <<cacheSize, loaded>>
        /\ d.client = Connection(w).client \/ ~stays
        /\ d.cacheIndex = Connection(w).cacheIndex \/ ~stays
        /\ \/ /\ cache'[e].status = "INVALID"
              /\ cache'[e].alreadyWritten = cache[e].alreadyWritten
           \/ cache'[e].status # "UNUSED" /\ cache[e].url # Nil
  <2>1. CASE Reclaims(w)
    <3>1. PICK d \in Conn, stays \in BOOLEAN, e \in Entries,
               memory \in {"null", "alloc", "freed"} :
            /\ e = EntryOf(w) /\ Connected(w, d, e)
            /\ cache' = [cache EXCEPT ![e] = Claimed(@, w, memory, @.url)]
            /\ Outcome(w, d, stays, cache') /\ UNCHANGED <<cacheSize, loaded>>
      BY <2>1 DEF Reclaims
    <3>2. PICK entry : entry = Claimed(cache[e], w, memory, cache[e].url)
      OBVIOUS
    <3>3. entry.url = cache[e].url /\ entry.status = "DOWNLOADING"
      BY <1>1, <3>2, ClaimedFacts
    <3>4. cache[e].url # Nil
      BY <1>2, <3>1, ProxyAssumption DEF Named, EntryOf, Conn, Entries
    <3>5. Served(w, d, stays) /\ d.client = Connection(w).client
          /\ d.cacheIndex = Connection(w).cacheIndex
      BY <3>1 DEF Outcome, Connected, EntryOf
    <3>6. cache'[e] = entry /\ \A f \in Entries \ {e} : cache'[f] = cache[f]
      BY <1>1, <3>1, <3>2
    <3> QED BY <3>1, <3>3, <3>4, <3>5, <3>6
  <2>2. CASE Cancelled(w)
    <3>1. PICK d \in Conn, stays \in BOOLEAN, e \in Entries :
            /\ Outcome(w, d, stays, Invalid(e)) /\ cache' = Invalid(e)
            /\ stays => Received(Connection(w), d)
            /\ UNCHANGED <<cacheSize, loaded>>
      BY <2>2 DEF Cancelled
    <3>2. PICK entry : entry = [cache[e] EXCEPT !.status = "INVALID", !.writerId = Nil]
      OBVIOUS
    <3>3. /\ entry.url = cache[e].url /\ entry.status = "INVALID"
          /\ entry.alreadyWritten = cache[e].alreadyWritten
      BY <1>1, <3>2 DEF Entry
    <3>4. cache'[e] = entry /\ \A f \in Entries \ {e} : cache'[f] = cache[f]
      BY <1>1, <3>1, <3>2 DEF Invalid
    <3>5. /\ Served(w, d, stays)
          /\ d.client = Connection(w).client \/ ~stays
          /\ d.cacheIndex = Connection(w).cacheIndex \/ ~stays
      BY <3>1 DEF Outcome, Received
    <3> QED BY <3>1, <3>3, <3>4, <3>5
  <2>3. CASE Stored(w)
    <3>1. PICK d \in Conn, stays \in BOOLEAN, e \in Entries, more \in Entry :
            /\ Outcome(w, d, stays, [cache EXCEPT ![e] = more])
            /\ cache' = [cache EXCEPT ![e] = more]
            /\ Received(Connection(w), d) /\ d.cacheIndex = e
            /\ Longer(cache[e], d, more)
            /\ more.status = IF stays THEN cache[e].status ELSE "VALID"
            /\ UNCHANGED <<cacheSize, loaded>>
      BY <2>3 DEF Stored
    <3>6. more.url = cache[e].url
      BY <3>1 DEF Longer
    <3>2. Connection(w).cacheIndex = e /\ e # Nil /\ cache[e].url # Nil
      BY <1>2, <3>1, ProxyAssumption DEF Named, Received, Conn, Entries
    <3>3. more.status # "UNUSED"
      BY <3>1, <3>2 DEF Claimable, Sizes, Sized
    <3>4. cache'[e] = more /\ \A f \in Entries \ {e} : cache'[f] = cache[f]
      BY <1>1, <3>1
    <3>5. /\ Served(w, d, stays)
          /\ d.client = Connection(w).client /\ d.cacheIndex = Connection(w).cacheIndex
      BY <3>1 DEF Outcome, Received
    <3> QED BY <3>1, <3>2, <3>3, <3>4, <3>5, <3>6
  <2> QED BY <2>1, <2>2, <2>3
<1>4. PICK d \in Conn, stays \in BOOLEAN, e \in Entries :
        /\ Served(w, d, stays) /\ \A f \in Entries \ {e} : cache'[f] = cache[f]
        /\ cache'[e].url = cache[e].url /\ UNCHANGED <<cacheSize, loaded>>
        /\ d.client = Connection(w).client \/ ~stays
        /\ d.cacheIndex = Connection(w).cacheIndex \/ ~stays
        /\ \/ /\ cache'[e].status = "INVALID"
              /\ cache'[e].alreadyWritten = cache[e].alreadyWritten
           \/ cache'[e].status # "UNUSED" /\ cache[e].url # Nil
  BY <1>3
<1>5. \A f \in Entries : cache'[f].url = cache[f].url
  BY <1>4
<1>6. Sizes'
  <2>1. Sized(e)'
    BY <1>4 DEF Claimable, Sizes, Sized
  <2> QED BY <1>4, <2>1, EntrySized
<1>7. stays => Named(d)'
  BY <1>2, <1>4, <1>5 DEF Named, Conn, choices
<1>8. Turn(w, d, stays) /\ pc'[w] \notin Claiming
  BY <1>1, <1>4 DEF Served
<1> QED BY <1>4, <1>5, <1>6, <1>7, <1>8, QuietClaims

(* By the one that names an entry:                                         *)
LEMMA IndexClaims ==
  ASSUME Types, Claimable, UNCHANGED choices, NEW w \in Workers, pc[w] \in Busy, Indexes(w)
  PROVE  Claimable'
<1>1. PICK d \in Conn, stays \in BOOLEAN, e \in Entries :
        /\ pc[w] = "index" /\ e = cacheSize /\ Connected(w, d, e)
        /\ cache' = [cache EXCEPT ![e] = Claimed(@, w, @.memory, wants[d.client])]
        /\ Outcome(w, d, stays, cache') /\ UNCHANGED <<cacheSize, loaded>>
  BY DEF Indexes
<1>2. PICK entry : entry = Claimed(cache[e], w, cache[e].memory, wants[d.client])
  OBVIOUS
<1>3. cache \in [Entries -> Entry] /\ cache' = [cache EXCEPT ![e] = entry]
  BY <1>1, <1>2 DEF Types, CacheTypes
<1>4. entry.url = wants[d.client] /\ entry.status = "DOWNLOADING"
  BY <1>2, <1>3, ClaimedFacts
<1>5. pc[w] \in Claiming /\ wants[Connection(w).client] # Nil /\ cache[e].url = Nil
  BY <1>1 DEF Claimable, Claim, Claiming
<1>6. wants[d.client] # Nil /\ d.cacheIndex = e
  BY <1>1, <1>5 DEF Connected
<1>7. Turn(w, d, stays) /\ pc'[w] \notin Claiming
  BY <1>1 DEF Outcome, Served, Claiming
<1>8. \A v \in Workers \ {w} : pc[v] \notin Claiming
  BY <1>5 DEF Claimable, OneClaims
<1>9. Claim(w)'
  BY <1>7 DEF Claim, Claiming
<1>10. OneClaims' /\ \A v \in Workers : Claim(v)'
  BY <1>7, <1>8, <1>9, TurnClaims
<1>11. cache'[e] = entry /\ \A f \in Entries : cache[f].url # Nil => cache'[f].url = cache[f].url
  BY <1>3, <1>5
<1>12. Sizes'
  <2>1. ~(e > cacheSize)
    BY <1>1 DEF Types, CacheTypes
  <2>2. Sized(e)'
    BY <1>1, <1>4, <1>6, <1>11, <2>1 DEF Sized
  <2> QED BY <1>1, <1>3, <2>2, EntrySized
<1>13. AllNamed'
  <2>1. Named(d)'
    BY <1>4, <1>6, <1>11 DEF Named, choices
  <2> QED BY <1>7, <1>11, <2>1, TurnNamed DEF Types, Claimable, choices
<1> QED BY <1>10, <1>12, <1>13 DEF Claimable

(* By those that take a socket, or leave the connections alone:            *)
LEMMA AsideClaims ==
  ASSUME Types, Claimable, UNCHANGED choices,
         Aside \/ \E w \in Workers : Takes(w)
  PROVE  Claimable'
<1>1. /\ Entries' = Entries /\ UNCHANGED <<wants, MAX_CACHE_SIZE, cacheVars, loaded>>
      /\ connections \in [Workers -> Seq(Conn)] /\ pc \in [Workers -> Labels]
  BY DEF choices, Entries, Aside, Takes, Types, Places, WorkerTypes
<1>2. Sizes'
  BY <1>1 DEF Claimable, Sizes, Sized, cacheVars
<1>3. ASSUME NEW v \in Workers
      PROVE  \/ /\ pc'[v] = pc[v] /\ Connection(v)' = Connection(v)
             \/ pc'[v] \notin Claiming
  <2>1. CASE Aside
    <3>1. \/ pc'[v] = pc[v] /\ todo'[v] = todo[v]
          \/ pc'[v] \notin Claiming
      BY <2>1 DEF Aside, Busy, Claiming
    <3> QED BY <2>1, <3>1, SameServing DEF Aside
  <2>2. ASSUME NEW w \in Workers, Takes(w)
        PROVE  \/ /\ pc'[v] = pc[v] /\ Connection(v)' = Connection(v)
               \/ pc'[v] \notin Claiming
    <3>1. CASE v = w
      BY <1>1, <2>2, <3>1 DEF Takes, Claiming
    <3>2. CASE v # w
      <4>1. pc'[v] = pc[v] /\ todo'[v] = todo[v] /\ connections'[v] = connections[v]
        BY <1>1, <2>2, <3>2 DEF Takes
      <4> QED BY <4>1, SameServing
    <3> QED BY <3>1, <3>2
  <2> QED BY <2>1, <2>2
<1>4. OneClaims' /\ \A v \in Workers : Claim(v)'
  <2>1. OneClaims'
    BY <1>3 DEF Claimable, OneClaims
  <2>2. ASSUME NEW v \in Workers PROVE Claim(v)'
    <3>1. CASE pc'[v] = pc[v] /\ Connection(v)' = Connection(v)
      BY <1>1, <3>1 DEF Claimable, Claim, cacheVars
    <3>2. CASE pc'[v] \notin Claiming
      BY <3>2 DEF Claim, Claiming
    <3> QED BY <1>3, <3>1, <3>2
  <2> QED BY <2>1, <2>2
<1>5. AllNamed'
  <2> SUFFICES ASSUME NEW v \in Workers, NEW k \in 1 .. Own(v)'
               PROVE  Named(connections[v][k])'
    BY DEF AllNamed
  <2>1. CASE connections'[v] = connections[v]
    <3>1. Named(connections[v][k])
      <4>1. k \in 1 .. Own(v)
        BY <2>1 DEF Own
      <4> QED BY <4>1 DEF Claimable, AllNamed
    <3>2. PICK c : c = connections[v][k]
      OBVIOUS
    <3>3. Named(c) /\ connections'[v][k] = c
      BY <2>1, <3>1, <3>2
    <3>4. Named(c)'
      BY <1>1, <3>3 DEF Named, cacheVars
    <3> QED BY <3>3, <3>4 DEF Named
  <2>2. ASSUME NEW c \in Clients, connections' = [connections EXCEPT ![v] = Append(@, Accepted(c))]
        PROVE  Named(connections[v][k])'
    <3>1. connections[v] \in Seq(Conn) /\ Accepted(c) \in Conn /\ Own(v) \in Nat
      <4>1. Accepted(c) \in Conn
        BY DEF Accepted, Conn, Statuses, Reading
      <4> QED BY <4>1, ConnTypes DEF Types
    <3>2. connections'[v] = Append(connections[v], Accepted(c))
      BY <1>1, <2>2
    <3>3. /\ Own(v)' = Own(v) + 1
          /\ \A i \in 1 .. Own(v) : connections'[v][i] = connections[v][i]
          /\ connections'[v][Own(v) + 1] = Accepted(c)
      BY <3>1, <3>2, AppendProperties DEF Own
    <3>4. CASE k = Own(v) + 1
      BY <3>3, <3>4 DEF Named, Accepted
    <3>5. CASE k \in 1 .. Own(v)
      <4>1. Named(connections[v][k])
        BY <3>5 DEF Claimable, AllNamed
      <4> QED BY <1>1, <3>3, <3>5, <4>1 DEF Named, cacheVars
    <3> QED BY <3>1, <3>3, <3>4, <3>5
  <2>3. \/ connections'[v] = connections[v]
        \/ \E c \in Clients : connections' = [connections EXCEPT ![v] = Append(@, Accepted(c))]
    <3>1. CASE Aside
      BY <3>1 DEF Aside
    <3>2. ASSUME NEW w \in Workers, Takes(w)
          PROVE  \/ connections'[v] = connections[v]
                 \/ \E c \in Clients :
                      connections' = [connections EXCEPT ![v] = Append(@, Accepted(c))]
      <4>1. PICK c \in Clients : connections' = [connections EXCEPT ![w] = Append(@, Accepted(c))]
        BY <3>2 DEF Takes
      <4> QED BY <1>1, <4>1
    <3> QED BY <3>1, <3>2
  <2> QED BY <2>1, <2>2, <2>3
<1> QED BY <1>2, <1>4, <1>5 DEF Claimable

(* By every step, as long as no two workers are in searchCache at once.    *)
LEMMA StepClaims ==
  ASSUME Types, Claimable, [Next]_vars, ~raced'
  PROVE  Claimable'
<1>1. ASSUME NEW w \in Workers, pc[w] \in Busy, Handled(w), UNCHANGED choices
      PROVE  Claimable'
  BY <1>1, StillClaims, ClaimsClaims, CountsClaims, WriteClaims, IndexClaims DEF Handled
<1> QED BY <1>1, StepShape, AsideClaims

(* A race is never forgotten.                                              *)
LEMMA StepRaced ==
  ASSUME Types, [Next]_vars, ~raced'
  PROVE  ~raced
<1>1. raced \in BOOLEAN
  BY DEF Types, CacheTypes
<1>2. ASSUME NEW w \in Workers, Handled(w) PROVE UNCHANGED raced \/ Racing(w)
  BY <1>2 DEF Handled, Plain, Uncached, Found, Claims, Reclaims, Counts, Indexes, Cancelled,
     Stored, Relayed, Stands, Copied, Sent, Searched, Private, history
<1>3. Aside \/ (\E w \in Workers : Takes(w)) => UNCHANGED raced
  BY DEF Aside, Takes, history
<1> QED BY <1>1, <1>2, <1>3, StepShape DEF Racing

(* Nothing is claimed at the start.                                        *)
LEMMA InitClaims ==
  ASSUME Init
  PROVE  Claimable
<1>1. /\ pc = [w \in Workers |-> "none"] /\ cacheSize = 0
      /\ connections = [w \in Workers |-> <<>>]
      /\ cache = [e \in Entries |-> Fresh]
  BY DEF Init
<1>2. OneClaims /\ \A v \in Workers : Claim(v)
  BY <1>1 DEF OneClaims, Claim, Claiming
<1>3. Sizes
  BY <1>1 DEF Sizes, Sized, Fresh
<1>4. AllNamed
  <2>1. \A v \in Workers : Own(v) = 0
    BY <1>1, EmptySeq DEF Own
  <2> QED BY <2>1 DEF AllNamed
<1> QED BY <1>2, <1>3, <1>4 DEF Claimable
-----------------------------------------------------------------------------
(* What the entries hold.  The units of the response to the URL:           *)
Exact(entry) ==
  /\ Len(entry.data) = entry.alreadyWritten
  /\ \A k \in 1 .. entry.alreadyWritten : entry.data[k] = <<entry.url, k>>

Whole(entry) ==
  /\ Exact(entry)
  /\ entry.alreadyWritten <= entry.allSize
  /\ entry.alreadyWritten = 0 => entry.allSize = 0
  /\ entry.status = "VALID" => entry.alreadyWritten = entry.allSize /\ entry.allSize > 0

(* of which its writer, as long as they are stored, has received as many;  *)
WriterOf(c, entry) ==
  /\ entry.status \in {"DOWNLOADING", "INVALID"}
  /\ \/ c.units = entry.alreadyWritten
     \/ entry.alreadyWritten = 0 /\ c.units > 0 /\ c.kind \notin {"ok", "short"}

(* a reader was sent some of them, and leaves with the last.               *)
ReaderOf(c, entry) ==
  /\ c.cacheBytesWritten <= entry.alreadyWritten
  /\ entry.allSize > 0 => c.cacheBytesWritten < entry.allSize

Fits(c, e, entry) ==
  /\ Writes(c, e) => WriterOf(c, entry)
  /\ Reads(c, e) => ReaderOf(c, entry)

OneWriter(e) ==
  \A v, w \in Workers : \A i \in 1 .. Own(v), j \in 1 .. Own(w) :
    Writes(connections[v][i], e) /\ Writes(connections[w][j], e) => v = w /\ i = j

Holds(e) ==
  /\ Whole(cache[e]) /\ OneWriter(e)
  /\ \A v \in Workers : \A k \in 1 .. Own(v) : Fits(connections[v][k], e, cache[e])

(* The copy a worker sends from is of an entry's beginning.                *)
Sends(v) ==
  pc[v] = "send" /\ EntryOf(v) \notin reclaimed =>
    /\ Exact(copied[v]) /\ copied[v].url = cache[EntryOf(v)].url
    /\ copied[v].alreadyWritten <= cache[EntryOf(v)].alreadyWritten

Data ==
  /\ \A e \in Entries \ reclaimed : Holds(e)
  /\ \A v \in Workers : Sends(v)
  /\ reclaimed = {} => ~misled

(* A connection that is like another fits the entry as that one does.      *)
LEMMA AlikeFits ==
  ASSUME NEW c, NEW d, Alike(c, d), NEW e, NEW entry, Fits(c, e, entry)
  PROVE  Fits(d, e, entry)
<1>1. (Writes(d, e) => Writes(c, e)) /\ (Reads(d, e) => Reads(c, e))
  BY AlikeFacts
<1>2. /\ d.units = c.units /\ d.kind = c.kind /\ d.cacheBytesWritten = c.cacheBytesWritten
  BY DEF Alike
<1> QED BY <1>1, <1>2 DEF Fits, WriterOf, ReaderOf

(* After a turn an entry holds what it should, if the connections that     *)
(* were not served fit it, and the one that was if it stays.               *)
LEMMA TurnHolds ==
  ASSUME Places, NEW w \in Workers, pc[w] \in Busy, NEW d, NEW stays \in BOOLEAN,
         Turn(w, d, stays), NEW e, OneWriter(e), Whole(cache'[e]),
         \A v \in Workers : \A i \in 1 .. Own(v) :
           (v = w /\ i = Serving(w)) \/ Fits(connections[v][i], e, cache'[e]),
         stays => Fits(d, e, cache'[e]),
         stays /\ Writes(d, e) =>
           \/ Writes(Connection(w), e)
           \/ \A v \in Workers : \A i \in 1 .. Own(v) : ~Writes(connections[v][i], e)
  PROVE  Holds(e)'
<1>1. ASSUME NEW v \in Workers, NEW k \in 1 .. Own(v)'
      PROVE  Fits(connections'[v][k], e, cache'[e])
  <2>1. CASE stays /\ connections'[v][k] = d
    BY <2>1
  <2>2. CASE /\ Was(w, stays, v, k) \in 1 .. Own(v)
             /\ ~(v = w /\ Was(w, stays, v, k) = Serving(w))
             /\ Alike(connections[v][Was(w, stays, v, k)], connections'[v][k])
    BY <2>2, AlikeFits
  <2> QED BY <2>1, <2>2, TurnConns
<1>2. /\ Serving(w) \in 1 .. Own(w) /\ connections[w][Serving(w)] = Connection(w)
  BY AtConnection
<1>3. ASSUME NEW v \in Workers, NEW k \in 1 .. Own(v)', Writes(connections'[v][k], e)
      PROVE  \/ v = w /\ stays /\ k = Serving(w) /\ Writes(d, e)
             \/ /\ Was(w, stays, v, k) \in 1 .. Own(v)
                /\ ~(v = w /\ Was(w, stays, v, k) = Serving(w))
                /\ Writes(connections[v][Was(w, stays, v, k)], e)
  <2>1. CASE v = w /\ stays /\ k = Serving(w) /\ connections'[v][k] = d
    BY <1>3, <2>1
  <2>2. CASE /\ Was(w, stays, v, k) \in 1 .. Own(v)
             /\ ~(v = w /\ Was(w, stays, v, k) = Serving(w))
             /\ Alike(connections[v][Was(w, stays, v, k)], connections'[v][k])
    BY <1>3, <2>2, AlikeFacts
  <2> QED BY <2>1, <2>2, TurnConns
<1>4. OneWriter(e)'
  <2> SUFFICES ASSUME NEW u \in Workers, NEW v \in Workers,
                      NEW i \in 1 .. Own(u)', NEW j \in 1 .. Own(v)',
                      Writes(connections'[u][i], e), Writes(connections'[v][j], e)
               PROVE  u = v /\ i = j
    BY DEF OneWriter
  <2>1. \/ u = w /\ stays /\ i = Serving(w) /\ Writes(d, e)
        \/ /\ Was(w, stays, u, i) \in 1 .. Own(u)
           /\ ~(u = w /\ Was(w, stays, u, i) = Serving(w))
           /\ Writes(connections[u][Was(w, stays, u, i)], e)
    BY <1>3
  <2>2. \/ v = w /\ stays /\ j = Serving(w) /\ Writes(d, e)
        \/ /\ Was(w, stays, v, j) \in 1 .. Own(v)
           /\ ~(v = w /\ Was(w, stays, v, j) = Serving(w))
           /\ Writes(connections[v][Was(w, stays, v, j)], e)
    BY <1>3
  <2>3. ASSUME stays /\ Writes(d, e), NEW t \in Workers, NEW k \in 1 .. Own(t),
               ~(t = w /\ k = Serving(w)), Writes(connections[t][k], e)
        PROVE  FALSE
    <3>1. Writes(Connection(w), e)
      BY <2>3
    <3> QED BY <1>2, <2>3, <3>1 DEF OneWriter
  <2>4. CASE /\ Was(w, stays, u, i) \in 1 .. Own(u)
             /\ Writes(connections[u][Was(w, stays, u, i)], e)
             /\ Was(w, stays, v, j) \in 1 .. Own(v)
             /\ Writes(connections[v][Was(w, stays, v, j)], e)
    <3>1. u = v /\ Was(w, stays, u, i) = Was(w, stays, v, j)
      BY <2>4 DEF OneWriter
    <3>2. j \in 1 .. Own(u)' /\ Was(w, stays, u, i) = Was(w, stays, u, j)
      BY <3>1
    <3>3. i = j
      BY <3>2, TurnConns
    <3> QED BY <3>1, <3>3
  <2> QED BY <2>1, <2>2, <2>3, <2>4
<1> QED BY <1>1, <1>4 DEF Holds

(* The same, when the entry stays as it is.                                *)
LEMMA SameHolds ==
  ASSUME Places, NEW w \in Workers, pc[w] \in Busy, NEW d, NEW stays \in BOOLEAN,
         Turn(w, d, stays), NEW e, Holds(e), cache'[e] = cache[e],
         stays => Fits(d, e, cache[e]),
         stays /\ Writes(d, e) => Writes(Connection(w), e)
  PROVE  Holds(e)'
<1>1. /\ OneWriter(e) /\ Whole(cache'[e])
      /\ \A v \in Workers : \A i \in 1 .. Own(v) : Fits(connections[v][i], e, cache'[e])
      /\ stays => Fits(d, e, cache'[e])
  BY DEF Holds
<1> QED BY <1>1, TurnHolds

(* The copies of the others, when their entries only grow.                 *)
LEMMA TurnSends ==
  ASSUME Types, Data, UNCHANGED choices, NEW w \in Workers, pc[w] \in Busy, NEW d,
         NEW stays \in BOOLEAN, Turn(w, d, stays), Sends(w)', reclaimed \subseteq reclaimed',
         \A v \in Workers \ {w} : pc[v] = "send" /\ EntryOf(v) \notin reclaimed' =>
           /\ copied'[v] = copied[v] /\ cache'[EntryOf(v)].url = cache[EntryOf(v)].url
           /\ EntryOf(v) \in Entries =>
                cache[EntryOf(v)].alreadyWritten <= cache'[EntryOf(v)].alreadyWritten,
         cache' \in [Entries -> Entry]
  PROVE  \A v \in Workers : Sends(v)'
<1> SUFFICES ASSUME NEW v \in Workers \ {w}, pc'[v] = "send", EntryOf(v)' \notin reclaimed'
             PROVE  /\ Exact(copied'[v]) /\ copied'[v].url = cache'[EntryOf(v)'].url
                    /\ copied'[v].alreadyWritten <= cache'[EntryOf(v)'].alreadyWritten
  BY DEF Sends
<1>1. pc[v] = "send" /\ EntryOf(v)' = EntryOf(v) /\ EntryOf(v) \notin reclaimed
  BY SameServing DEF Turn
<1>2. EntryOf(v) \in Entries
  <2>1. Connection(v).status = "RESPONDING_FROM_CACHE" /\ pc[v] \in Busy
    BY <1>1 DEF Types, Places, Placed, Sending, Busy
  <2> QED BY <2>1, AtConnection DEF Types, Conn, EntryOf, Reading
<1>3. /\ Exact(copied[v]) /\ copied[v].url = cache[EntryOf(v)].url
      /\ copied[v].alreadyWritten <= cache[EntryOf(v)].alreadyWritten
  BY <1>1 DEF Data, Sends
<1>4. /\ copied[v].alreadyWritten \in Nat /\ cache[EntryOf(v)].alreadyWritten \in Nat
      /\ cache'[EntryOf(v)].alreadyWritten \in Nat
  BY <1>2 DEF Types, CacheTypes, Entry
<1> QED BY <1>1, <1>2, <1>3, <1>4

(* What a worker has at its connection: it fits, and it is named.          *)
LEMMA ServedFits ==
  ASSUME Types, Claimable, Data, NEW w \in Workers, pc[w] \in Busy
  PROVE  /\ Connection(w) \in Conn /\ Named(Connection(w))
         /\ \A e \in Entries \ reclaimed : Fits(Connection(w), e, cache[e])
BY AtConnection DEF Types, Claimable, AllNamed, Data, Holds

(* The steps that leave the cache and the copies as they are:              *)
LEMMA QuietData ==
  ASSUME Types, Data, UNCHANGED <<choices, cache, copied, reclaimed, misled>>,
         NEW w \in Workers, pc[w] \in Busy,
         NEW d, NEW stays \in BOOLEAN, Turn(w, d, stays), pc'[w] # "send",
         stays => \A e \in Entries \ reclaimed :
           /\ Fits(d, e, cache[e])
           /\ Writes(d, e) => Writes(Connection(w), e)
  PROVE  Data'
<1>1. Entries' = Entries /\ Places /\ cache' \in [Entries -> Entry]
  BY DEF Types, CacheTypes, choices, Entries
<1>2. ASSUME NEW e \in Entries \ reclaimed PROVE Holds(e)'
  <2>1. Holds(e) /\ cache'[e] = cache[e]
    BY DEF Data
  <2> QED BY <1>1, <2>1, SameHolds
<1>3. \A v \in Workers : Sends(v)'
  <2>1. Sends(w)'
    BY DEF Sends
  <2>2. \A v \in Workers \ {w} : EntryOf(v) \in Entries =>
          cache[EntryOf(v)].alreadyWritten <= cache'[EntryOf(v)].alreadyWritten
    BY DEF Types, CacheTypes, Entry
  <2> QED BY <1>1, <2>1, <2>2, TurnSends
<1> QED BY <1>1, <1>2, <1>3 DEF Data

(* Of these, the ones that serve a connection:                             *)
LEMMA StillData ==
  ASSUME Types, Claimable, Data, UNCHANGED choices, NEW w \in Workers, pc[w] \in Busy,
         \/ Plain(w) \/ Uncached(w) \/ Found(w) \/ Relayed(w) \/ Claims(w)
  PROVE  Data'
<1>1. /\ Connection(w) \in Conn
      /\ \A e \in Entries \ reclaimed : Fits(Connection(w), e, cache[e])
  BY ServedFits
<1>2. CASE Plain(w)
  <2>1. PICK d \in Conn, stays \in BOOLEAN :
          Outcome(w, d, stays, cache) /\ Same(Connection(w), d) /\ UNCHANGED Private
    BY <1>2 DEF Plain
  <2>2. ASSUME NEW e \in Entries \ reclaimed
        PROVE  Fits(d, e, cache[e]) /\ (Writes(d, e) => Writes(Connection(w), e))
    <3>1. (Writes(d, e) <=> Writes(Connection(w), e)) /\ (Reads(d, e) <=> Reads(Connection(w), e))
      BY <2>1 DEF Same, Writes, Reads
    <3>2. /\ d.units = Connection(w).units /\ d.kind = Connection(w).kind
          /\ d.cacheBytesWritten = Connection(w).cacheBytesWritten
      BY <2>1 DEF Same
    <3>3. Fits(Connection(w), e, cache[e])
      BY <1>1
    <3> QED BY <3>1, <3>2, <3>3 DEF Fits, WriterOf, ReaderOf
  <2>3. Turn(w, d, stays) /\ pc'[w] # "send"
    BY <2>1 DEF Outcome, Served
  <2> QED BY <2>1, <2>2, <2>3, QuietData DEF Private, cacheVars
<1>3. CASE Uncached(w)
  <2>1. PICK d \in Conn, stays \in BOOLEAN :
          Outcome(w, d, stays, cache) /\ Searched /\ d.cacheIndex = Nil
    BY <1>3 DEF Uncached
  <2>2. \A e \in Entries : ~Writes(d, e) /\ ~Reads(d, e)
    BY <2>1, ProxyAssumption DEF Writes, Reads, Entries
  <2>3. Turn(w, d, stays) /\ pc'[w] # "send"
    BY <2>1 DEF Outcome, Served
  <2>4. \A e \in Entries \ reclaimed : Fits(d, e, cache[e])
    BY <2>2 DEF Fits
  <2> QED BY <2>1, <2>2, <2>3, <2>4, QuietData DEF Searched, cacheVars
<1>4. CASE Found(w)
  <2>1. PICK d \in Conn :
          /\ Outcome(w, d, TRUE, cache) /\ Searched
          /\ d.status = "RESPONDING_FROM_CACHE" /\ d.cacheBytesWritten = 0
    BY <1>4 DEF Found
  <2>2. \A e \in Entries : ~Writes(d, e)
    BY <2>1 DEF Writes, Writing
  <2>3. Turn(w, d, TRUE) /\ pc'[w] # "send"
    BY <2>1 DEF Outcome, Served
  <2>4. ASSUME NEW e \in Entries \ reclaimed PROVE Fits(d, e, cache[e])
    <3>1. cache[e].alreadyWritten \in Nat /\ cache[e].allSize \in Nat
      BY DEF Types, CacheTypes, Entry
    <3> QED BY <2>1, <2>2, <3>1 DEF Fits, ReaderOf
  <2> QED BY <2>1, <2>2, <2>3, <2>4, QuietData DEF Searched, cacheVars
<1>5. CASE Claims(w)
  <2>1. PICK d \in Conn :
          /\ Turn(w, d, TRUE) /\ Searched /\ d.status = "GETTING_REQUEST"
          /\ pc'[w] # "send"
    BY <1>5 DEF Claims
  <2>2. \A e \in Entries : ~Writes(d, e) /\ ~Reads(d, e)
    BY <2>1 DEF Writes, Reads, Writing, Reading
  <2>3. \A e \in Entries \ reclaimed : Fits(d, e, cache[e])
    BY <2>2 DEF Fits
  <2> QED BY <2>1, <2>2, <2>3, QuietData DEF Searched, cacheVars
<1>6. CASE Relayed(w)
  <2>1. PICK d \in Conn :
          /\ Outcome(w, d, TRUE, cache) /\ Received(Connection(w), d) /\ UNCHANGED Private
          /\ d.cacheIndex # Nil =>
               cache[d.cacheIndex].alreadyWritten = 0 /\ Connection(w).units > 0
    BY <1>6 DEF Relayed
  <2>2. ASSUME NEW e \in Entries \ reclaimed
        PROVE  Fits(d, e, cache[e]) /\ (Writes(d, e) => Writes(Connection(w), e))
    <3>1. CASE d.cacheIndex # e
      BY <3>1 DEF Fits, Writes, Reads
    <3>2. CASE d.cacheIndex = e
      <4>1. /\ Writes(Connection(w), e) /\ ~Reads(d, e) /\ d.cacheIndex # Nil
            /\ d.units = Connection(w).units + 1
            /\ Connection(w).units > 0 => d.kind = Connection(w).kind
        BY <2>1, <3>2, ProxyAssumption
           DEF Received, Writes, Reads, Writing, Reading, Entries
      <4>2. WriterOf(Connection(w), cache[e])
        BY <1>1, <4>1 DEF Fits
      <4>3. Connection(w).units \in Nat
        BY <1>1 DEF Conn
      <4>4. /\ cache[e].alreadyWritten = 0 /\ Connection(w).units > 0
            /\ Connection(w).kind \notin {"ok", "short"}
        BY <2>1, <3>2, <4>1, <4>2 DEF WriterOf
      <4>5. WriterOf(d, cache[e])
        BY <4>1, <4>2, <4>3, <4>4 DEF WriterOf
      <4> QED BY <4>1, <4>5 DEF Fits
    <3> QED BY <3>1, <3>2
  <2>3. Turn(w, d, TRUE) /\ pc'[w] # "send"
    BY <2>1 DEF Outcome, Served
  <2> QED BY <2>1, <2>2, <2>3, QuietData DEF Private, cacheVars
<1> QED BY <1>2, <1>3, <1>4, <1>5, <1>6

(* those that stay at it,                                                  *)
LEMMA StandData ==
  ASSUME Types, Claimable, Data, UNCHANGED choices, NEW w \in Workers, pc[w] \in Busy,
         Stands(w) \/ Counts(w) \/ Copied(w)
  PROVE  Data'
<1>1. /\ Connection(w) \in Conn
      /\ \A e \in Entries \ reclaimed : Fits(Connection(w), e, cache[e])
  BY ServedFits
<1>2. CASE Stands(w) \/ Counts(w)
  <2>1. /\ Turn(w, Connection(w), TRUE) /\ pc'[w] # "send"
        /\ UNCHANGED <<cache, copied, reclaimed, misled>>
    BY <1>2 DEF Stands, Counts, cacheVars, history
  <2> QED BY <1>1, <2>1, QuietData
<1>3. CASE Copied(w)
  <2>1. /\ Turn(w, Connection(w), TRUE) /\ EntryOf(w)' = EntryOf(w) /\ pc[w] = "copy"
        /\ copied' = [copied EXCEPT ![w] = cache[EntryOf(w)]]
        /\ UNCHANGED <<cache, reclaimed, misled>>
    BY <1>3 DEF Copied, cacheVars, history
  <2>2. Entries' = Entries /\ Places /\ cache \in [Entries -> Entry]
        /\ copied \in [Workers -> Entry]
    BY DEF Types, CacheTypes, choices, Entries
  <2>3. EntryOf(w) \in Entries
    <3>1. Connection(w).status = "RESPONDING_FROM_CACHE"
      BY <2>1 DEF Types, Places, Placed, Sending
    <3> QED BY <1>1, <3>1 DEF Conn, EntryOf, Reading
  <2>4. ASSUME NEW e \in Entries \ reclaimed PROVE Holds(e)'
    <3>1. Holds(e) /\ cache'[e] = cache[e]
      BY <2>1 DEF Data
    <3> QED BY <1>1, <2>1, <2>2, <3>1, SameHolds
  <2>5. Sends(w)'
    <3>1. EntryOf(w) \notin reclaimed => Exact(cache[EntryOf(w)])
      BY <2>3 DEF Data, Holds, Whole
    <3>2. copied'[w] = cache[EntryOf(w)] /\ cache[EntryOf(w)].alreadyWritten \in Nat
      BY <2>1, <2>2, <2>3 DEF Entry
    <3> QED BY <2>1, <3>1, <3>2 DEF Sends
  <2>6. \A v \in Workers : Sends(v)'
    <3>1. \A v \in Workers \ {w} : copied'[v] = copied[v]
      BY <2>1, <2>2
    <3>2. \A v \in Workers \ {w} : EntryOf(v) \in Entries =>
            cache[EntryOf(v)].alreadyWritten <= cache'[EntryOf(v)].alreadyWritten
      BY <2>1, <2>2 DEF Entry
    <3> QED BY <2>1, <2>2, <2>5, <3>1, <3>2, TurnSends
  <2> QED BY <2>1, <2>2, <2>4, <2>6 DEF Data
<1> QED BY <1>2, <1>3

(* the one that sends a unit.                                              *)
LEMMA SentData ==
  ASSUME Types, Claimable, Data, UNCHANGED choices, NEW w \in Workers, pc[w] \in Busy, Sent(w)
  PROVE  Data'
<1>1. PICK d \in Conn, stays \in BOOLEAN :
        LET c == Connection(w)
            entry == copied[w]
            more == entry.alreadyWritten > c.cacheBytesWritten
        IN  /\ Outcome(w, d, stays, cache) /\ pc[w] = "send"
            /\ copied' = [copied EXCEPT ![w] = Fresh]
            /\ d.client = c.client /\ d.cacheIndex = c.cacheIndex
            /\ d.status = "RESPONDING_FROM_CACHE" /\ c.status = "RESPONDING_FROM_CACHE"
            /\ \/ ~stays /\ UNCHANGED misled
               \/ /\ entry.alreadyWritten >= c.cacheBytesWritten
                  /\ d.cacheBytesWritten = c.cacheBytesWritten + (IF more THEN 1 ELSE 0)
                  /\ misled' = \/ misled
                               \/ /\ more
                                  /\ entry.data[c.cacheBytesWritten + 1]
                                       # <<wants[c.client], c.cacheBytesWritten + 1>>
                  /\ stays <=> d.cacheBytesWritten # cache[c.cacheIndex].allSize
            /\ UNCHANGED <<blocked, loaded, cacheVars, fault, raced, reclaimed>>
  BY DEF Sent
<1>2. PICK c \in Conn, copy \in Entry :
        /\ c = Connection(w) /\ copy = copied[w] /\ Named(c)
        /\ \A e \in Entries \ reclaimed : Fits(c, e, cache[e])
  <2>1. copied[w] \in Entry
    BY DEF Types, CacheTypes
  <2> QED BY <2>1, ServedFits
<1>3. PICK e \in Entries : e = c.cacheIndex /\ e = EntryOf(w)
  BY <1>1, <1>2 DEF Conn, Reading, EntryOf
<1>5. /\ Turn(w, d, stays) /\ pc[w] = "send" /\ pc'[w] # "send"
      /\ copied' = [copied EXCEPT ![w] = Fresh]
      /\ d.cacheIndex = e /\ d.status = "RESPONDING_FROM_CACHE"
      /\ UNCHANGED <<cache, reclaimed>>
  BY <1>1, <1>2, <1>3 DEF Outcome, Served, cacheVars
<1>4. \/ ~stays /\ UNCHANGED misled
      \/ /\ copy.alreadyWritten >= c.cacheBytesWritten
         /\ d.cacheBytesWritten = c.cacheBytesWritten
              + (IF copy.alreadyWritten > c.cacheBytesWritten THEN 1 ELSE 0)
         /\ misled' = \/ misled
                      \/ /\ copy.alreadyWritten > c.cacheBytesWritten
                         /\ copy.data[c.cacheBytesWritten + 1]
                              # <<wants[c.client], c.cacheBytesWritten + 1>>
         /\ stays <=> d.cacheBytesWritten # cache[e].allSize
  BY <1>1, <1>2, <1>3
<1>6. \/ ~stays /\ UNCHANGED misled
      \/ /\ copy.alreadyWritten > c.cacheBytesWritten
         /\ d.cacheBytesWritten = c.cacheBytesWritten + 1
         /\ misled' => \/ misled
                       \/ copy.data[c.cacheBytesWritten + 1]
                            # <<wants[c.client], c.cacheBytesWritten + 1>>
         /\ stays <=> d.cacheBytesWritten # cache[e].allSize
      \/ /\ copy.alreadyWritten = c.cacheBytesWritten
         /\ d.cacheBytesWritten = c.cacheBytesWritten /\ (misled' => misled)
         /\ stays <=> d.cacheBytesWritten # cache[e].allSize
  <2>1. CASE copy.alreadyWritten > c.cacheBytesWritten
    BY <1>4, <2>1
  <2>2. CASE ~(copy.alreadyWritten > c.cacheBytesWritten)
    <3>1. copy.alreadyWritten \in Nat /\ c.cacheBytesWritten \in Nat
      BY DEF Entry, Conn
    <3>2. (IF copy.alreadyWritten > c.cacheBytesWritten THEN 1 ELSE 0) = 0
      BY <2>2
    <3>3. c.cacheBytesWritten + 0 = c.cacheBytesWritten
      BY <3>1
    <3>4. copy.alreadyWritten >= c.cacheBytesWritten
            => copy.alreadyWritten = c.cacheBytesWritten
      BY <2>2, <3>1
    <3> QED BY <1>4, <2>2, <3>2, <3>3, <3>4
  <2> QED BY <2>1, <2>2
<1>7. /\ Entries' = Entries /\ Places /\ cache \in [Entries -> Entry]
      /\ copied \in [Workers -> Entry]
      /\ copy.alreadyWritten \in Nat /\ c.cacheBytesWritten \in Nat
      /\ cache[e].alreadyWritten \in Nat /\ cache[e].allSize \in Nat
  BY DEF Types, CacheTypes, choices, Entries, Entry, Conn
<1>8. e \notin reclaimed =>
        /\ Exact(copy) /\ copy.url = cache[e].url
        /\ copy.alreadyWritten <= cache[e].alreadyWritten
        /\ Whole(cache[e]) /\ ReaderOf(c, cache[e])
  <2>1. Sends(w) /\ (e \notin reclaimed => Holds(e) /\ Fits(c, e, cache[e]))
    BY <1>2 DEF Data
  <2>2. Reads(c, e)
    BY <1>1, <1>2, <1>3 DEF Reads, Reading
  <2> QED BY <1>2, <1>3, <1>5, <2>1, <2>2 DEF Sends, Holds, Fits
<1>9. ASSUME NEW f \in Entries \ reclaimed PROVE Holds(f)'
  <2>1. ~Writes(d, f) /\ (Reads(d, f) => f = e)
    BY <1>5 DEF Writes, Writing, Reads
  <2>2. stays => Fits(d, f, cache[f])
    <3> SUFFICES ASSUME stays, f = e PROVE ReaderOf(d, cache[e])
      BY <2>1 DEF Fits
    <3>1. /\ copy.alreadyWritten <= cache[e].alreadyWritten
          /\ cache[e].alreadyWritten <= cache[e].allSize
          /\ ReaderOf(c, cache[e])
      BY <1>8 DEF Whole
    <3>2. /\ d.cacheBytesWritten <= copy.alreadyWritten /\ d.cacheBytesWritten \in Nat
          /\ d.cacheBytesWritten # cache[e].allSize
      <4>1. d.cacheBytesWritten \in Nat
        BY DEF Conn
      <4> QED BY <1>6, <1>7, <4>1
    <3> QED BY <1>7, <3>1, <3>2 DEF ReaderOf
  <2>3. Holds(f) /\ cache'[f] = cache[f]
    BY <1>5 DEF Data
  <2> QED BY <1>5, <1>7, <2>1, <2>2, <2>3, SameHolds
<1>10. \A v \in Workers : Sends(v)'
  <2>1. Sends(w)'
    BY <1>5 DEF Sends
  <2>2. \A v \in Workers \ {w} : copied'[v] = copied[v]
    BY <1>5, <1>7
  <2>3. \A v \in Workers \ {w} : EntryOf(v) \in Entries =>
          cache[EntryOf(v)].alreadyWritten <= cache'[EntryOf(v)].alreadyWritten
    BY <1>5, <1>7 DEF Entry
  <2> QED BY <1>5, <1>7, <2>1, <2>2, <2>3, TurnSends
<1>11. reclaimed' = {} => ~misled'
  <2> SUFFICES ASSUME reclaimed = {} PROVE ~misled'
    BY <1>5
  <2>1. ~misled /\ Exact(copy) /\ copy.url = cache[e].url
    BY <1>8 DEF Data
  <2>2. cache[e].url = wants[c.client]
    BY <1>2, <1>3, ProxyAssumption DEF Named, Entries
  <2>3. ASSUME copy.alreadyWritten > c.cacheBytesWritten
        PROVE  copy.data[c.cacheBytesWritten + 1] = <<wants[c.client], c.cacheBytesWritten + 1>>
    <3>1. c.cacheBytesWritten + 1 \in 1 .. copy.alreadyWritten
      BY <1>7, <2>3
    <3> QED BY <2>1, <2>2, <3>1 DEF Exact
  <2> QED BY <1>6, <2>1, <2>3
<1> QED BY <1>5, <1>7, <1>9, <1>10, <1>11 DEF Data

(* An entry that is claimed has nothing, and is nobody else's;             *)
LEMMA IndexData ==
  ASSUME Types, Types', Claimable, Data, UNCHANGED choices, NEW w \in Workers, pc[w] \in Busy,
         Indexes(w)
  PROVE  Data'
<1>1. PICK d \in Conn, stays \in BOOLEAN, e \in Entries :
        /\ pc[w] = "index" /\ e = cacheSize /\ Connected(w, d, e)
        /\ cache' = [cache EXCEPT ![e] = Claimed(@, w, @.memory, wants[d.client])]
        /\ Outcome(w, d, stays, cache') /\ UNCHANGED <<copied, misled, reclaimed>>
  BY DEF Indexes
<1>2. /\ Entries' = Entries /\ Places /\ cache \in [Entries -> Entry]
      /\ Connection(w) \in Conn
  BY ServedFits DEF Types, CacheTypes, choices, Entries
<1>3. PICK entry : /\ entry = Claimed(cache[e], w, cache[e].memory, wants[d.client])
                   /\ cache'[e] = entry
  BY <1>1, <1>2
<1>4. /\ entry.status = "DOWNLOADING" /\ entry.data = cache[e].data
      /\ entry.alreadyWritten = 0 /\ entry.allSize = 0
  BY <1>2, <1>3, ClaimedFacts
<1>5. \A f \in Entries \ {e} : cache'[f] = cache[f]
  BY <1>1, <1>2
<1>6. cache[e].url = Nil /\ cache[e].alreadyWritten = 0
  BY <1>1 DEF Claimable, Claim, Sizes, Sized
<1>7. \A v \in Workers : \A k \in 1 .. Own(v) : connections[v][k].cacheIndex # e
  BY <1>6, ProxyAssumption DEF Claimable, AllNamed, Named, Entries
<1>8. /\ Turn(w, d, stays) /\ pc'[w] # "send"
      /\ d.cacheIndex = e /\ d.status = "CONNECTING_TO_SERVER" /\ d.units = 0
  BY <1>1, <1>2 DEF Outcome, Served, Connected, Conn
<1>9. ASSUME NEW f \in Entries \ reclaimed PROVE Holds(f)'
  <2>1. CASE f = e
    <3>1. Whole(cache'[e])
      <4>1. Len(cache[e].data) = 0
        BY <1>6, <2>1 DEF Data, Holds, Whole, Exact
      <4> QED BY <1>3, <1>4, <4>1 DEF Whole, Exact
    <3>2. Fits(d, e, cache'[e])
      BY <1>3, <1>4, <1>8 DEF Fits, WriterOf, Reads, Reading
    <3>3. \A v \in Workers : \A k \in 1 .. Own(v) :
            /\ Fits(connections[v][k], e, cache'[e]) /\ ~Writes(connections[v][k], e)
      BY <1>7 DEF Fits, Writes, Reads
    <3>4. OneWriter(e)
      BY <3>3 DEF OneWriter
    <3> QED BY <1>2, <1>8, <2>1, <3>1, <3>2, <3>3, <3>4, TurnHolds
  <2>2. CASE f # e
    <3>1. Holds(f) /\ cache'[f] = cache[f]
      BY <1>5, <2>2 DEF Data
    <3>2. ~Writes(d, f) /\ Fits(d, f, cache[f])
      BY <1>8, <2>2 DEF Fits, Writes, Reads
    <3> QED BY <1>2, <1>8, <3>1, <3>2, SameHolds
  <2> QED BY <2>1, <2>2
<1>10. \A v \in Workers : Sends(v)'
  <2>1. Sends(w)'
    BY <1>8 DEF Sends
  <2>2. ASSUME NEW v \in Workers \ {w}, pc[v] = "send" PROVE EntryOf(v) # e
    <3>1. Serving(v) \in 1 .. Own(v) /\ connections[v][Serving(v)] = Connection(v)
      BY <1>2, <2>2, AtConnection DEF Busy, Sending
    <3> QED BY <1>7, <3>1 DEF EntryOf
  <2>3. \A v \in Workers \ {w} : pc[v] = "send" /\ EntryOf(v) \in Entries =>
          /\ cache'[EntryOf(v)] = cache[EntryOf(v)]
          /\ cache[EntryOf(v)].alreadyWritten \in Nat
    BY <1>2, <1>5, <2>2 DEF Entry
  <2>4. cache' \in [Entries -> Entry]
    BY <1>2 DEF Types, CacheTypes, Entry
  <2> QED BY <1>1, <1>2, <1>8, <2>1, <2>3, <2>4, TurnSends
<1> QED BY <1>1, <1>2, <1>9, <1>10 DEF Data

(* nothing is said of one that is claimed again;                           *)
LEMMA ReclaimData ==
  ASSUME Types, Types', Claimable, Data, UNCHANGED choices, NEW w \in Workers,
         pc[w] \in Busy, Reclaims(w)
  PROVE  Data'
<1>1. PICK d \in Conn, stays \in BOOLEAN, e \in Entries, memory \in {"null", "alloc", "freed"} :
        /\ Connected(w, d, e)
        /\ cache' = [cache EXCEPT ![e] = Claimed(@, w, memory, @.url)]
        /\ Outcome(w, d, stays, cache')
        /\ copied' = [v \in Workers |-> IF pc[v] = "send" /\ EntryOf(v) = e
                                        THEN [copied[v] EXCEPT !.memory = "freed"]
                                        ELSE copied[v]]
        /\ reclaimed' = reclaimed \cup {e} /\ UNCHANGED misled
  BY DEF Reclaims
<1>2. Entries' = Entries /\ Places /\ cache \in [Entries -> Entry]
      /\ cache' \in [Entries -> Entry]
  BY DEF Types, CacheTypes, choices, Entries, Entry
<1>3. \A f \in Entries \ {e} : cache'[f] = cache[f]
  BY <1>1, <1>2
<1>4. Turn(w, d, stays) /\ pc'[w] # "send" /\ d.cacheIndex = e
  BY <1>1 DEF Outcome, Served, Connected
<1>5. ASSUME NEW f \in Entries \ reclaimed' PROVE Holds(f)'
  <2>1. Holds(f) /\ cache'[f] = cache[f] /\ f # e
    BY <1>1, <1>3 DEF Data
  <2>2. ~Writes(d, f) /\ Fits(d, f, cache[f])
    BY <1>4, <2>1 DEF Fits, Writes, Reads
  <2> QED BY <1>2, <1>4, <2>1, <2>2, SameHolds
<1>6. \A v \in Workers : Sends(v)'
  <2>1. Sends(w)'
    BY <1>4 DEF Sends
  <2>2. ASSUME NEW v \in Workers \ {w}, pc[v] = "send", EntryOf(v) \notin reclaimed'
        PROVE  /\ copied'[v] = copied[v] /\ EntryOf(v) # e
    BY <1>1, <2>2
  <2>3. ASSUME NEW v \in Workers \ {w}, pc[v] = "send", EntryOf(v) \notin reclaimed'
        PROVE  /\ copied'[v] = copied[v] /\ cache'[EntryOf(v)].url = cache[EntryOf(v)].url
               /\ EntryOf(v) \in Entries =>
                    cache[EntryOf(v)].alreadyWritten <= cache'[EntryOf(v)].alreadyWritten
    <3>1. Connection(v).status = "RESPONDING_FROM_CACHE" /\ Connection(v) \in Conn
      BY <1>2, <2>3, AtConnection DEF Places, Placed, Busy, Sending
    <3>2. EntryOf(v) \in Entries
      BY <3>1 DEF Conn, EntryOf, Reading
    <3>3. cache'[EntryOf(v)] = cache[EntryOf(v)] /\ cache[EntryOf(v)].alreadyWritten \in Nat
      BY <1>2, <1>3, <2>2, <2>3, <3>2 DEF Entry
    <3> QED BY <2>2, <2>3, <3>3
  <2>4. reclaimed \subseteq reclaimed'
    BY <1>1
  <2> QED BY <1>2, <1>4, <2>1, <2>3, <2>4, TurnSends
<1>7. reclaimed' # {}
  BY <1>1
<1> QED BY <1>2, <1>5, <1>6, <1>7 DEF Data

(* one that becomes invalid keeps what it has, and its writer has received *)
(* more.                                                                   *)
LEMMA CancelData ==
  ASSUME Types, Types', Claimable, Data, UNCHANGED choices, NEW w \in Workers,
         pc[w] \in Busy, Cancelled(w)
  PROVE  Data'
<1>1. PICK d \in Conn, stays \in BOOLEAN, e \in Entries :
        /\ Outcome(w, d, stays, Invalid(e)) /\ cache' = Invalid(e)
        /\ stays => /\ Received(Connection(w), d) /\ d.cacheIndex = e
                    /\ cache[e].alreadyWritten = 0 /\ d.kind \notin {"ok", "short"}
        /\ UNCHANGED <<copied, misled, reclaimed>>
  BY DEF Cancelled
<1>2. Entries' = Entries /\ Places /\ cache \in [Entries -> Entry]
      /\ cache' \in [Entries -> Entry]
  BY DEF Types, CacheTypes, choices, Entries, Entry
<1>3. /\ cache'[e].status = "INVALID" /\ cache'[e].data = cache[e].data
      /\ cache'[e].url = cache[e].url
      /\ cache'[e].alreadyWritten = cache[e].alreadyWritten
      /\ cache'[e].allSize = cache[e].allSize
  BY <1>1, <1>2 DEF Invalid, Entry
<1>4. \A f \in Entries \ {e} : cache'[f] = cache[f]
  BY <1>1, <1>2 DEF Invalid
<1>5. Turn(w, d, stays) /\ pc'[w] # "send"
  BY <1>1 DEF Outcome, Served
<1>6. stays => /\ Writes(d, e) /\ Writes(Connection(w), e)
               /\ \A f \in Entries : ~Reads(d, f) /\ (Writes(d, f) => f = e)
  BY <1>1 DEF Received, Writes, Reads, Writing, Reading
<1>7. ASSUME NEW f \in Entries \ reclaimed PROVE Holds(f)'
  <2>1. Holds(f)
    BY DEF Data
  <2>2. CASE f = e
    <3>1. Whole(cache'[e]) /\ OneWriter(e)
      BY <1>3, <2>1, <2>2 DEF Holds, Whole, Exact
    <3>2. ASSUME NEW v \in Workers, NEW i \in 1 .. Own(v)
          PROVE  Fits(connections[v][i], e, cache'[e])
      <4>1. Fits(connections[v][i], e, cache[e])
        BY <2>1, <2>2 DEF Holds
      <4> QED BY <1>3, <4>1 DEF Fits, WriterOf, ReaderOf
    <3>3. stays => Fits(d, e, cache'[e])
      <4>1. stays => d.units > 0
        BY <1>1, ServedFits DEF Received, Conn
      <4> QED BY <1>1, <1>3, <1>6, <4>1 DEF Fits, WriterOf
    <3> QED BY <1>2, <1>5, <1>6, <2>2, <3>1, <3>2, <3>3, TurnHolds
  <2>3. CASE f # e
    <3>1. stays => ~Writes(d, f) /\ Fits(d, f, cache[f])
      BY <1>6, <2>3 DEF Fits
    <3> QED BY <1>2, <1>4, <1>5, <2>1, <2>3, <3>1, SameHolds
  <2> QED BY <2>2, <2>3
<1>8. \A v \in Workers : Sends(v)'
  <2>1. Sends(w)'
    BY <1>5 DEF Sends
  <2>2. ASSUME NEW f \in Entries
        PROVE  /\ cache'[f].url = cache[f].url
               /\ cache[f].alreadyWritten <= cache'[f].alreadyWritten
    <3>1. cache[f].alreadyWritten \in Nat
      BY <1>2 DEF Entry
    <3>2. CASE f = e
      BY <1>3, <3>1, <3>2
    <3>3. CASE f # e
      BY <1>2, <1>3, <1>4, <3>1, <3>3
    <3> QED BY <3>2, <3>3
  <2>3. ASSUME NEW v \in Workers \ {w}, pc[v] = "send"
        PROVE  EntryOf(v) \in Entries
    <3>1. Connection(v).status = "RESPONDING_FROM_CACHE" /\ Connection(v) \in Conn
      BY <1>2, <2>3, AtConnection DEF Places, Placed, Busy, Sending
    <3> QED BY <3>1 DEF Conn, EntryOf, Reading
  <2> QED BY <1>1, <1>2, <1>5, <2>1, <2>2, <2>3, TurnSends
<1> QED BY <1>1, <1>2, <1>7, <1>8 DEF Data

(* and one that is written grows by the next unit of the response.         *)
LEMMA LongerWhole ==
  ASSUME NEW x \in Entry, NEW more \in Entry, NEW c \in Conn, NEW d \in Conn,
         Whole(x), WriterOf(c, x), Received(c, d), Longer(x, d, more),
         x.url = wants[d.client], NEW stays \in BOOLEAN,
         more.status = IF stays THEN x.status ELSE "VALID",
         stays <=> more.alreadyWritten # more.allSize
  PROVE  /\ Whole(more) /\ (stays => WriterOf(d, more))
         /\ x.alreadyWritten <= more.alreadyWritten
         /\ x.allSize = 0 => x.alreadyWritten = 0
         /\ x.allSize # 0 => more.allSize = x.allSize
         /\ more.allSize > 0
<1>1. /\ x.alreadyWritten \in Nat /\ x.allSize \in Nat /\ c.units \in Nat
      /\ more.alreadyWritten \in Nat /\ more.allSize \in Nat
      /\ x.data \in Seq((Urls \cup {Nil}) \X Nat)
  BY DEF Entry, Conn
<1>2. /\ d.units = c.units + 1 /\ (c.units > 0 => d.kind = c.kind)
      /\ more.url = wants[d.client] /\ more.alreadyWritten = x.alreadyWritten + 1
  BY DEF Received, Longer
<1>3. x.status # "VALID" /\ Len(x.data) = x.alreadyWritten /\ Exact(x)
  BY DEF WriterOf, Whole, Exact
<1>4. d.units = more.alreadyWritten
  <2>1. CASE x.alreadyWritten = 0 /\ d.kind \in {"ok", "short"}
    BY <1>1, <1>2, <2>1 DEF WriterOf
  <2>2. CASE x.alreadyWritten # 0
    BY <1>1, <1>2, <2>2 DEF WriterOf
  <2> QED BY <1>1, <2>1, <2>2 DEF Longer
<1>5. PICK unit : unit = <<wants[d.client], d.units>>
  OBVIOUS
<1>6. /\ Len(more.data) = more.alreadyWritten
      /\ \A k \in 1 .. more.alreadyWritten : more.data[k] = <<more.url, k>>
      /\ more.alreadyWritten <= more.allSize /\ more.allSize > 0
      /\ x.allSize = 0 => x.alreadyWritten = 0
      /\ x.allSize # 0 => more.allSize = x.allSize
  <2>1. CASE /\ x.alreadyWritten = 0 /\ more.data = << unit >>
             /\ more.allSize \in Nat \ {0}
    <3>1. more.alreadyWritten = 1 /\ Len(more.data) = 1 /\ more.data[1] = unit
      BY <1>2, <2>1
    <3>2. x.allSize = 0
      BY <2>1 DEF Whole
    <3> QED BY <1>1, <1>2, <1>4, <1>5, <2>1, <3>1, <3>2
  <2>2. CASE /\ x.alreadyWritten \in 1 .. x.allSize - 1
             /\ more.data = Append(x.data, unit) /\ more.allSize = x.allSize
    <3>1. unit \in (Urls \cup {Nil}) \X Nat
      <4>1. x.url \in Urls \cup {Nil} /\ d.units \in Nat
        BY DEF Entry, Conn
      <4> QED BY <1>5, <4>1
    <3>2. /\ Len(more.data) = x.alreadyWritten + 1
          /\ \A k \in 1 .. x.alreadyWritten : more.data[k] = x.data[k]
          /\ more.data[x.alreadyWritten + 1] = unit
      BY <1>1, <1>3, <2>2, <3>1, AppendProperties
    <3>3. ASSUME NEW k \in 1 .. more.alreadyWritten PROVE more.data[k] = <<more.url, k>>
      <4>1. CASE k \in 1 .. x.alreadyWritten
        BY <1>2, <1>3, <3>2, <4>1 DEF Exact
      <4>2. CASE k = x.alreadyWritten + 1
        BY <1>2, <1>4, <1>5, <3>2, <4>2
      <4> QED BY <1>1, <1>2, <4>1, <4>2
    <3> QED BY <1>1, <1>2, <2>2, <3>2, <3>3
  <2> QED BY <1>5, <2>1, <2>2 DEF Longer
<1>7. Whole(more)
  BY <1>1, <1>2, <1>3, <1>6 DEF Whole, Exact
<1>8. stays => WriterOf(d, more)
  BY <1>4 DEF WriterOf
<1> QED BY <1>1, <1>2, <1>6, <1>7, <1>8

(* What a writer appends to its entry is the next unit of the response.    *)
LEMMA StoreData ==
  ASSUME Types, Types', Claimable, Data, UNCHANGED choices, NEW w \in Workers,
         pc[w] \in Busy, Stored(w)
  PROVE  Data'
<1>1. PICK d \in Conn, stays \in BOOLEAN, e \in Entries, more \in Entry :
        /\ Outcome(w, d, stays, [cache EXCEPT ![e] = more])
        /\ cache' = [cache EXCEPT ![e] = more]
        /\ Received(Connection(w), d) /\ d.cacheIndex = e
        /\ Longer(cache[e], d, more)
        /\ more.status = IF stays THEN cache[e].status ELSE "VALID"
        /\ stays <=> more.alreadyWritten # more.allSize
        /\ UNCHANGED <<copied, misled, reclaimed>>
  BY DEF Stored
<1>2. Entries' = Entries /\ Places /\ cache \in [Entries -> Entry]
      /\ cache' \in [Entries -> Entry]
  BY DEF Types, CacheTypes, choices, Entries, Entry
<1>3. /\ cache'[e] = more /\ more.url = cache[e].url
      /\ more.alreadyWritten = cache[e].alreadyWritten + 1
      /\ \A f \in Entries \ {e} : cache'[f] = cache[f]
  BY <1>1, <1>2 DEF Longer
<1>4. Turn(w, d, stays) /\ pc'[w] # "send"
  BY <1>1 DEF Outcome, Served
<1>5. /\ Writes(d, e) /\ Writes(Connection(w), e) /\ Connection(w) \in Conn
      /\ \A f \in Entries : ~Reads(d, f) /\ (Writes(d, f) => f = e)
  BY <1>1, ServedFits DEF Received, Writes, Reads, Writing, Reading
<1>6. cache[e].url = wants[d.client]
  <2>1. Named(Connection(w))
    BY ServedFits
  <2>2. Connection(w).cacheIndex = e /\ Connection(w).client = d.client /\ e # Nil
    BY <1>1, ProxyAssumption DEF Received, Entries
  <2> QED BY <2>1, <2>2 DEF Named
<1>7. ASSUME NEW f \in Entries \ reclaimed PROVE Holds(f)'
  <2>1. Holds(f)
    BY DEF Data
  <2>2. CASE f = e
    <3>1. Whole(cache[e]) /\ OneWriter(e) /\ WriterOf(Connection(w), cache[e])
      BY <1>5, <2>1, <2>2, ServedFits DEF Holds, Fits
    <3>2. PICK x \in Entry, c \in Conn : x = cache[e] /\ c = Connection(w)
      BY <1>2, <1>5
    <3>3. /\ Whole(more) /\ (stays => WriterOf(d, more))
          /\ x.alreadyWritten <= more.alreadyWritten
          /\ x.allSize = 0 => x.alreadyWritten = 0
          /\ x.allSize # 0 => more.allSize = x.allSize
          /\ more.allSize > 0
      BY <1>1, <1>6, <3>1, <3>2, LongerWhole
    <3>4. ASSUME NEW v \in Workers, NEW i \in 1 .. Own(v), ~(v = w /\ i = Serving(w))
          PROVE  Fits(connections[v][i], e, more)
      <4>1. Fits(connections[v][i], e, x) /\ connections[v][i] \in Conn
        BY <1>2, <2>1, <2>2, <3>2, ConnTypes DEF Holds
      <4>2. ~Writes(connections[v][i], e)
        <5>1. Serving(w) \in 1 .. Own(w) /\ connections[w][Serving(w)] = Connection(w)
          BY <1>2, AtConnection
        <5> QED BY <1>5, <3>1, <3>4, <5>1 DEF OneWriter
      <4>3. PICK c2 \in Conn : c2 = connections[v][i]
        BY <4>1
      <4>4. ReaderOf(c2, x) => ReaderOf(c2, more)
        <5>1. /\ c2.cacheBytesWritten \in Nat /\ x.alreadyWritten \in Nat /\ x.allSize \in Nat
              /\ more.alreadyWritten \in Nat /\ more.allSize \in Nat
          BY DEF Conn, Entry
        <5> QED BY <3>3, <5>1 DEF ReaderOf
      <4> QED BY <4>1, <4>2, <4>3, <4>4 DEF Fits
    <3>5. stays => Fits(d, e, more)
      BY <1>5, <3>3 DEF Fits
    <3> QED BY <1>2, <1>3, <1>4, <1>5, <2>2, <3>1, <3>3, <3>4, <3>5, TurnHolds
  <2>3. CASE f # e
    <3>1. ~Writes(d, f) /\ Fits(d, f, cache[f])
      BY <1>5, <2>3 DEF Fits
    <3> QED BY <1>2, <1>3, <1>4, <2>1, <2>3, <3>1, SameHolds
  <2> QED BY <2>2, <2>3
<1>8. \A v \in Workers : Sends(v)'
  <2>1. Sends(w)'
    BY <1>4 DEF Sends
  <2>2. ASSUME NEW f \in Entries
        PROVE  /\ cache'[f].url = cache[f].url
               /\ cache[f].alreadyWritten <= cache'[f].alreadyWritten
    <3>1. cache[f].alreadyWritten \in Nat
      BY <1>2 DEF Entry
    <3>2. CASE f = e
      BY <1>3, <3>1, <3>2
    <3>3. CASE f # e
      BY <1>2, <1>3, <3>1, <3>3
    <3> QED BY <3>2, <3>3
  <2>3. ASSUME NEW v \in Workers \ {w}, pc[v] = "send"
        PROVE  EntryOf(v) \in Entries
    <3>1. Connection(v).status = "RESPONDING_FROM_CACHE" /\ Connection(v) \in Conn
      BY <1>2, <2>3, AtConnection DEF Places, Placed, Busy, Sending
    <3> QED BY <3>1 DEF Conn, EntryOf, Reading
  <2> QED BY <1>1, <1>2, <1>4, <2>1, <2>2, <2>3, TurnSends
<1> QED BY <1>1, <1>2, <1>7, <1>8 DEF Data

(* By those that take a socket, or leave the connections alone:            *)
LEMMA TakesConns ==
  ASSUME Types, UNCHANGED choices, Aside \/ (\E w \in Workers : Takes(w)), NEW v \in Workers
  PROVE  /\ Own(v) \in Nat
         /\ \/ Own(v)' = Own(v) /\ connections'[v] = connections[v]
            \/ /\ Own(v)' = Own(v) + 1
               /\ \A k \in 1 .. Own(v) : connections'[v][k] = connections[v][k]
               /\ connections'[v][Own(v) + 1].status = "GETTING_REQUEST"
         /\ \/ pc'[v] = pc[v] /\ Connection(v)' = Connection(v) /\ EntryOf(v)' = EntryOf(v)
            \/ pc'[v] \notin Sending /\ pc[v] \notin Busy
<1>1. /\ connections[v] \in Seq(Conn) /\ Own(v) \in Nat
      /\ connections \in [Workers -> Seq(Conn)] /\ pc \in [Workers -> Labels]
  BY ConnTypes DEF Types, Places, WorkerTypes
<1>2. CASE Aside
  <2>1. /\ connections' = connections
        /\ \/ pc'[v] = pc[v] /\ todo'[v] = todo[v]
           \/ pc'[v] \notin Sending /\ pc[v] \notin Busy
    BY <1>2 DEF Aside, Busy, Sending
  <2> QED BY <1>1, <2>1, SameServing DEF Own
<1>3. ASSUME NEW w \in Workers, NEW c \in Clients,
             connections' = [connections EXCEPT ![w] = Append(@, Accepted(c))],
             pc[w] \notin Busy, pc' = [pc EXCEPT ![w] = "poll"], UNCHANGED todo
      PROVE  /\ \/ Own(v)' = Own(v) /\ connections'[v] = connections[v]
                \/ /\ Own(v)' = Own(v) + 1
                   /\ \A k \in 1 .. Own(v) : connections'[v][k] = connections[v][k]
                   /\ connections'[v][Own(v) + 1].status = "GETTING_REQUEST"
             /\ \/ pc'[v] = pc[v] /\ Connection(v)' = Connection(v) /\ EntryOf(v)' = EntryOf(v)
                \/ pc'[v] \notin Sending /\ pc[v] \notin Busy
  <2>1. CASE v # w
    <3>1. connections'[v] = connections[v] /\ pc'[v] = pc[v] /\ todo'[v] = todo[v]
      BY <1>1, <1>3, <2>1
    <3> QED BY <3>1, SameServing
  <2>2. CASE v = w
    <3>1. connections'[v] = Append(connections[v], Accepted(c))
      BY <1>1, <1>3, <2>2
    <3>2. Accepted(c) \in Conn
      BY DEF Accepted, Conn, Statuses, Reading
    <3>3. /\ Own(v)' = Own(v) + 1
          /\ \A k \in 1 .. Own(v) : connections'[v][k] = connections[v][k]
          /\ connections'[v][Own(v) + 1] = Accepted(c)
      BY <1>1, <3>1, <3>2, AppendProperties DEF Own
    <3>4. Accepted(c).status = "GETTING_REQUEST"
      BY DEF Accepted
    <3>5. pc'[v] \notin Sending /\ pc[v] \notin Busy
      BY <1>1, <1>3, <2>2 DEF Sending
    <3> QED BY <3>3, <3>4, <3>5
  <2> QED BY <2>1, <2>2
<1>4. CASE \E w \in Workers : Takes(w)
  <2>1. PICK w \in Workers, c \in Clients :
          /\ connections' = [connections EXCEPT ![w] = Append(@, Accepted(c))]
          /\ pc[w] \notin Busy /\ pc' = [pc EXCEPT ![w] = "poll"] /\ UNCHANGED todo
    BY <1>4 DEF Takes
  <2> QED BY <1>1, <1>3, <2>1
<1> QED BY <1>2, <1>4

(* Steps beside the handlers leave the data alone.                         *)
LEMMA AsideData ==
  ASSUME Types, Data, UNCHANGED choices, Aside \/ (\E w \in Workers : Takes(w))
  PROVE  Data'
<1>1. Entries' = Entries /\ UNCHANGED <<cache, copied, reclaimed, misled>>
  BY DEF choices, Entries, Aside, Takes, cacheVars, history
<1>2. ASSUME NEW v \in Workers, NEW k \in 1 .. Own(v)'
      PROVE  \/ k \in 1 .. Own(v) /\ connections'[v][k] = connections[v][k]
             \/ connections'[v][k].status = "GETTING_REQUEST"
  BY TakesConns
<1>3. ASSUME NEW e \in Entries \ reclaimed PROVE Holds(e)'
  <2>1. Holds(e) /\ cache'[e] = cache[e]
    BY <1>1 DEF Data
  <2>2. ASSUME NEW v \in Workers, NEW k \in 1 .. Own(v)'
        PROVE  /\ Fits(connections'[v][k], e, cache'[e])
               /\ Writes(connections'[v][k], e) =>
                    k \in 1 .. Own(v) /\ connections'[v][k] = connections[v][k]
    <3>1. CASE k \in 1 .. Own(v) /\ connections'[v][k] = connections[v][k]
      BY <2>1, <3>1 DEF Holds
    <3>2. CASE connections'[v][k].status = "GETTING_REQUEST"
      BY <3>2 DEF Fits, Writes, Reads, Writing, Reading
    <3> QED BY <1>2, <3>1, <3>2
  <2>3. OneWriter(e)'
    BY <2>1, <2>2 DEF Holds, OneWriter
  <2> QED BY <2>1, <2>2, <2>3 DEF Holds
<1>4. ASSUME NEW v \in Workers PROVE Sends(v)'
  <2>1. CASE pc'[v] = pc[v] /\ EntryOf(v)' = EntryOf(v)
    BY <1>1, <2>1 DEF Data, Sends
  <2>2. CASE pc'[v] \notin Sending
    BY <2>2 DEF Sends, Sending
  <2> QED BY <2>1, <2>2, TakesConns
<1> QED BY <1>1, <1>3, <1>4 DEF Data

(* By every step, as long as no two workers are in searchCache at once.    *)
LEMMA StepData ==
  ASSUME Types, Types', Claimable, Data, [Next]_vars
  PROVE  Data'
<1>1. ASSUME NEW w \in Workers, pc[w] \in Busy, Handled(w), UNCHANGED choices
      PROVE  Data'
  BY <1>1, StillData, StandData, SentData, ReclaimData, IndexData, CancelData, StoreData
     DEF Handled
<1> QED BY <1>1, StepShape, AsideData

(* At the start there are none.                                            *)
LEMMA InitData ==
  ASSUME Init
  PROVE  Data
<1>1. /\ pc = [w \in Workers |-> "none"] /\ reclaimed = {} /\ misled = FALSE
      /\ connections = [w \in Workers |-> <<>>]
      /\ cache = [e \in Entries |-> Fresh]
  BY DEF Init
<1>2. \A v \in Workers : Own(v) = 0
  BY <1>1, EmptySeq DEF Own
<1>3. ASSUME NEW e \in Entries PROVE Holds(e)
  <2>1. Whole(cache[e])
    BY <1>1, EmptySeq DEF Fresh, Whole, Exact
  <2> QED BY <1>2, <2>1 DEF Holds, OneWriter
<1> QED BY <1>1, <1>3 DEF Data, Sends

(* All that is claimed while no two workers have been in searchCache at    *)
(* once.                                                                   *)
Sound == ~raced => Claimable /\ Data

(* So the claims and the data are sound unless two workers raced.          *)
LEMMA SoundCorrect == Spec => [](Types /\ Sound)
<1>1. Init => Types /\ Sound
  BY InitTypes, InitClaims, InitData DEF Sound
<1>2. Types /\ Sound /\ [Next]_vars => Types' /\ Sound'
  BY StepTypes, StepRaced, StepClaims, StepData DEF Sound
<1> QED BY <1>1, <1>2, PTL DEF Spec

(* A valid entry holds the whole response to its URL.                      *)
THEOREM CacheCorrect == Spec => []CacheExact
<1>1. Types /\ Sound => CacheExact
  <2> SUFFICES ASSUME Types, Sound, ~raced, NEW e \in Entries \ reclaimed,
                      cache[e].status = "VALID"
               PROVE  /\ cache[e].alreadyWritten = cache[e].allSize
                      /\ Len(cache[e].data) = cache[e].allSize
                      /\ \A k \in DOMAIN cache[e].data : cache[e].data[k] = <<cache[e].url, k>>
    BY DEF CacheExact
  <2>1. Whole(cache[e])
    BY DEF Sound, Data, Holds
  <2>2. DOMAIN cache[e].data = 1 .. Len(cache[e].data)
    <3>1. cache[e].data \in Seq((Urls \cup {Nil}) \X Nat)
      BY DEF Types, CacheTypes, Entry
    <3> QED BY <3>1, LenProperties
  <2> QED BY <2>1, <2>2 DEF Whole, Exact
<1> QED BY <1>1, SoundCorrect, PTL

(* What a client is sent from the cache is the response to its URL, from   *)
(* its beginning on.                                                       *)
THEOREM ReaderCorrect == Spec => []ReaderPrefix
<1>1. Sound => ReaderPrefix
  BY DEF Sound, Data, ReaderPrefix
<1> QED BY <1>1, SoundCorrect, PTL
-----------------------------------------------------------------------------
(* Who waits, for whom.  The entries that were claimed again, or abandoned *)
(* by their writer:                                                        *)
Forgiven == reclaimed \cup abandoned

(* An entry that is being downloaded is written by the worker it names,    *)
HasWriter(e) ==
  cache[e].status = "DOWNLOADING" =>
    cache[e].writerId \in Workers /\ cache[e].writerId \in Writers(e)

(* which also writes the entries its own connections wait for,             *)
WaitsWell(v) ==
  \A k \in 1 .. Own(v) :
    LET c == connections[v][k]
    IN  c.status = "WAITING_DATA_ON_CACHE" =>
          c.cacheIndex \in Forgiven \/ v \in Writers(c.cacheIndex)

(* and somebody writes the entry a worker sleeps on.                       *)
SleepsWell(v) ==
  v \in blocked =>
    /\ NothingToSend(v)
    /\ EntryOf(v) \in Forgiven \/ \E u \in Workers : u \in Writers(EntryOf(v))

Care ==
  /\ \A e \in Entries \ Forgiven : HasWriter(e)
  /\ \A v \in Workers : WaitsWell(v) /\ SleepsWell(v)

(* The writers of an entry are the workers with a connection that writes   *)
(* it.                                                                     *)
LEMMA WritersAre ==
  ASSUME Places, Places', NEW v \in Workers, NEW e
  PROVE  /\ v \in Writers(e) <=> \E k \in 1 .. Own(v) : Writes(connections[v][k], e)
         /\ v \in Writers(e)' <=> \E k \in 1 .. Own(v)' : Writes(connections'[v][k], e)
<1>1. DOMAIN connections[v] = 1 .. Own(v) /\ DOMAIN connections'[v] = 1 .. Own(v)'
  <2>1. connections[v] \in Seq(Conn) /\ connections'[v] \in Seq(Conn')
    BY DEF Places, WorkerTypes
  <2> QED BY <2>1, LenProperties DEF Own
<1> QED BY <1>1 DEF Writers, Writes

(* What a turn of w has to see to: the entries it no longer writes, those  *)
(* that are being downloaded, its connection if that waits now, and those  *)
(* that sleep.                                                             *)
LEMMA TurnCare ==
  ASSUME Types, Types', Care, UNCHANGED choices, NEW w \in Workers, pc[w] \in Busy,
         NEW d, NEW stays \in BOOLEAN, Turn(w, d, stays), Forgiven \subseteq Forgiven',
         \A e \in Entries \ Forgiven' :
           Writes(Connection(w), e) /\ ~(stays /\ Writes(d, e)) =>
             /\ cache'[e].status # "DOWNLOADING" /\ NoneWaits(w)'
             /\ \A v \in Workers : v \in blocked' => EntryOf(v)' # e,
         \A e \in Entries \ Forgiven' : cache'[e].status = "DOWNLOADING" =>
           \/ cache[e].status = "DOWNLOADING" /\ cache'[e].writerId = cache[e].writerId
           \/ cache'[e].writerId = w /\ w \in Writers(e)',
         stays /\ d.status = "WAITING_DATA_ON_CACHE" =>
           d.cacheIndex \in Forgiven' \/ w \in Writers(d.cacheIndex)',
         \A v \in Workers : v \in blocked' => NothingToSend(v)' /\ (v # w => v \in blocked),
         w \in blocked' => \/ EntryOf(w)' \in Forgiven'
                           \/ \E u \in Workers : u \in Writers(EntryOf(w))'
  PROVE  Care'
<1>1. Entries' = Entries /\ Places /\ Places'
  BY DEF Types, choices, Entries
<1>2. ASSUME NEW e \in Entries \ Forgiven', NEW u \in Workers, u \in Writers(e)
      PROVE  \/ u \in Writers(e)'
             \/ /\ u = w /\ cache'[e].status # "DOWNLOADING" /\ NoneWaits(w)'
                /\ \A v \in Workers : v \in blocked' => EntryOf(v)' # e
  BY <1>1, <1>2, TurnWriters
<1>3. ASSUME NEW e \in Entries \ Forgiven' PROVE HasWriter(e)'
  <2> SUFFICES ASSUME cache'[e].status = "DOWNLOADING"
               PROVE  cache'[e].writerId \in Workers /\ cache'[e].writerId \in Writers(e)'
    BY DEF HasWriter
  <2>1. CASE cache'[e].writerId = w /\ w \in Writers(e)'
    BY <2>1
  <2>2. CASE cache[e].status = "DOWNLOADING" /\ cache'[e].writerId = cache[e].writerId
    <3>1. cache[e].writerId \in Workers /\ cache[e].writerId \in Writers(e)
      BY <2>2 DEF Care, HasWriter
    <3> QED BY <1>2, <2>2, <3>1
  <2> QED BY <2>1, <2>2
<1>4. ASSUME NEW v \in Workers PROVE WaitsWell(v)'
  <2> SUFFICES ASSUME NEW k \in 1 .. Own(v)', NEW x, x = connections'[v][k],
                      x.status = "WAITING_DATA_ON_CACHE"
               PROVE  x.cacheIndex \in Forgiven' \/ v \in Writers(x.cacheIndex)'
    BY DEF WaitsWell
  <2>1. CASE v = w /\ stays /\ x = d
    BY <2>1
  <2>2. ASSUME NEW i \in 1 .. Own(v), Alike(connections[v][i], x)
        PROVE  x.cacheIndex \in Forgiven' \/ v \in Writers(x.cacheIndex)'
    <3>1. PICK c \in Conn : c = connections[v][i]
      BY <1>1, ConnTypes
    <3>2. c.status = "WAITING_DATA_ON_CACHE" /\ x.cacheIndex = c.cacheIndex
      BY <2>2, <3>1, AlikeFacts
    <3>3. PICK e \in Entries : e = c.cacheIndex
      BY <3>2 DEF Conn, Reading
    <3>4. e \in Forgiven \/ v \in Writers(e)
      BY <3>1, <3>2, <3>3 DEF Care, WaitsWell
    <3>5. ~(v = w /\ NoneWaits(w)')
      BY DEF NoneWaits
    <3>6. e \in Forgiven' \/ v \in Writers(e)'
      BY <1>2, <3>4, <3>5
    <3> QED BY <3>2, <3>3, <3>6
  <2> QED BY <1>1, <2>1, <2>2, TurnConns
<1>5. ASSUME NEW v \in Workers PROVE SleepsWell(v)'
  <2> SUFFICES ASSUME v \in blocked', v # w
               PROVE  \/ EntryOf(v)' \in Forgiven'
                      \/ \E u \in Workers : u \in Writers(EntryOf(v))'
    BY DEF SleepsWell
  <2>1. v \in blocked /\ EntryOf(v)' = EntryOf(v) /\ pc[v] = "blocked"
    BY <1>1, SameServing DEF Turn, Places, Placed
  <2>2. PICK e \in Entries : e = EntryOf(v)
    <3>1. Connection(v).status = "RESPONDING_FROM_CACHE" /\ Connection(v) \in Conn
      BY <1>1, <2>1, AtConnection DEF Places, Placed, Busy, Sending
    <3> QED BY <3>1 DEF Conn, EntryOf, Reading
  <2>3. e \in Forgiven \/ \E u \in Workers : u \in Writers(e)
    BY <2>1, <2>2 DEF Care, SleepsWell
  <2>4. e \in Forgiven' \/ \E u \in Workers : u \in Writers(e)'
    BY <1>2, <2>1, <2>2, <2>3
  <2>5. Writers(EntryOf(v))' = Writers(e)'
    BY <2>1, <2>2 DEF Writers
  <2> QED BY <2>1, <2>2, <2>4, <2>5
<1> QED BY <1>1, <1>3, <1>4, <1>5 DEF Care

(* A worker sleeps no less when its entry and its connection stay.         *)
LEMMA StillNothing ==
  ASSUME Types, NEW w \in Workers, NEW d, NEW stays, Turn(w, d, stays),
         NEW v \in Workers \ {w}, v \in blocked, NothingToSend(v),
         \/ cache'[EntryOf(v)] = cache[EntryOf(v)]
         \/ cache'[EntryOf(v)].allSize = 0
  PROVE  NothingToSend(v)' /\ EntryOf(v)' = EntryOf(v)
<1>1. EntryOf(v)' = EntryOf(v) /\ Connection(v)' = Connection(v)
  BY SameServing DEF Turn
<1> QED BY <1>1 DEF NothingToSend

(* A turn that leaves the cache and the sleepers alone, of a connection    *)
(* that writes on, or wrote nothing, or abandons what it wrote.            *)
LEMMA QuietCare ==
  ASSUME Types, Types', Care, UNCHANGED <<choices, cache, blocked>>,
         NEW w \in Workers, pc[w] \in Busy, w \notin blocked,
         NEW d, NEW stays \in BOOLEAN, Turn(w, d, stays), Forgiven \subseteq Forgiven',
         \A e \in Entries \ Forgiven' : Writes(Connection(w), e) => stays /\ Writes(d, e),
         stays /\ d.status = "WAITING_DATA_ON_CACHE" =>
           d.cacheIndex \in Forgiven' \/ w \in Writers(d.cacheIndex)'
  PROVE  Care'
<1>1. ASSUME NEW v \in Workers, v \in blocked'
      PROVE  NothingToSend(v)' /\ v \in blocked /\ v # w
  <2>1. v \in blocked /\ v # w /\ NothingToSend(v)
    BY <1>1 DEF Care, SleepsWell
  <2> QED BY <2>1, StillNothing
<1>2. w \notin blocked'
  OBVIOUS
<1> QED BY <1>1, <1>2, TurnCare

(* What has nothing to send and is not invalid is being downloaded.        *)
LEMMA NothingYet ==
  ASSUME Types, Claimable, Data, NEW w \in Workers, pc[w] \in Busy,
         Connection(w).status = "RESPONDING_FROM_CACHE", NothingToSend(w),
         cache[EntryOf(w)].status # "INVALID"
  PROVE  /\ EntryOf(w) \in Entries
         /\ EntryOf(w) \in reclaimed \/ cache[EntryOf(w)].status = "DOWNLOADING"
<1>1. PICK c \in Conn : /\ c = Connection(w) /\ Named(c)
                        /\ \A e \in Entries \ reclaimed : Fits(c, e, cache[e])
  BY ServedFits
<1>2. PICK e \in Entries : e = c.cacheIndex /\ e = EntryOf(w)
  BY <1>1 DEF Conn, EntryOf, Reading
<1>3. PICK entry \in Entry : entry = cache[e]
  BY DEF Types, CacheTypes
<1>4. cache[e].url # Nil
  BY <1>1, <1>2, ProxyAssumption DEF Named, Entries
<1>5. entry.status # "UNUSED"
  BY <1>3, <1>4 DEF Claimable, Sizes, Sized
<1>6. ASSUME e \notin reclaimed, entry.status = "VALID" PROVE FALSE
  <2>1. entry.alreadyWritten = entry.allSize /\ entry.allSize > 0
    BY <1>3, <1>6 DEF Data, Holds, Whole
  <2>2. Reads(c, e)
    BY <1>1, <1>2 DEF Reads, Reading
  <2>3. c.cacheBytesWritten < entry.allSize
    BY <1>1, <1>3, <1>6, <2>1, <2>2 DEF Fits, ReaderOf
  <2>4. entry.alreadyWritten = c.cacheBytesWritten \/ entry.allSize = 0
    BY <1>1, <1>2, <1>3 DEF NothingToSend
  <2> QED BY <2>1, <2>3, <2>4 DEF Conn, Entry
<1> QED BY <1>2, <1>3, <1>5, <1>6 DEF Entry

(* What the writer that leaves with an entry abandons.                     *)
LEMMA LeavesAbandon ==
  ASSUME Types, Claimable, Data, NEW w \in Workers, pc[w] \in Busy, NEW d, NEW entries,
         NEW e \in Entries \ reclaimed, Ended(d, FALSE, entries),
         d.status \in Writing, d.cacheIndex = e, Writes(Connection(w), e),
         entries[e].status = cache[e].status
  PROVE  e \in abandoned'
<1>1. WriterOf(Connection(w), cache[e])
  BY ServedFits DEF Fits
<1>2. cache[e].status \in {"DOWNLOADING", "INVALID"} /\ e # Nil
  BY <1>1, ProxyAssumption DEF WriterOf, Entries
<1> QED BY <1>2 DEF Ended

(* A handler that leaves the cache alone keeps the care,                   *)
LEMMA PlainCare ==
  ASSUME Types, Types', Claimable, Data, Care, UNCHANGED choices,
         NEW w \in Workers, pc[w] \in Busy, w \notin blocked, Plain(w)
  PROVE  Care'
<1>1. PICK d \in Conn, stays \in BOOLEAN :
        /\ Outcome(w, d, stays, cache) /\ Same(Connection(w), d)
        /\ d.status = "WAITING_DATA_ON_CACHE" /\ stays =>
             /\ Connection(w).status = "RESPONDING_FROM_CACHE"
             /\ NothingToSend(w) /\ cache[EntryOf(w)].writerId = w
             /\ cache[EntryOf(w)].status # "INVALID"
        /\ UNCHANGED Private
  BY DEF Plain
<1>2. /\ Turn(w, d, stays) /\ Ended(d, stays, cache) /\ UNCHANGED <<cache, blocked, reclaimed>>
      /\ \A e : Writes(d, e) <=> Writes(Connection(w), e)
      /\ d.cacheIndex = EntryOf(w)
  BY <1>1 DEF Outcome, Served, Private, cacheVars, Same, Writes, EntryOf
<1>3. Forgiven \subseteq Forgiven'
  BY <1>2 DEF Forgiven, Ended
<1>4. ASSUME NEW e \in Entries \ Forgiven', Writes(Connection(w), e)
      PROVE  stays /\ Writes(d, e)
  <2>1. ASSUME ~stays PROVE FALSE
    <3>1. Ended(d, FALSE, cache)
      BY <1>2, <2>1 DEF Ended
    <3>2. e \in Entries \ reclaimed /\ d.status \in Writing /\ d.cacheIndex = e
      BY <1>2, <1>4 DEF Forgiven, Writes
    <3>3. PICK entries : entries = cache
      OBVIOUS
    <3>4. e \in abandoned'
      BY <1>4, <3>1, <3>2, <3>3, LeavesAbandon
    <3> QED BY <1>4, <3>4 DEF Forgiven
  <2> QED BY <1>2, <1>4, <2>1
<1>5. ASSUME stays, d.status = "WAITING_DATA_ON_CACHE"
      PROVE  d.cacheIndex \in Forgiven' \/ w \in Writers(d.cacheIndex)'
  <2>1. PICK e \in Entries : /\ e = EntryOf(w) /\ cache[e].writerId = w
                             /\ e \in reclaimed \/ cache[e].status = "DOWNLOADING"
    BY <1>1, <1>5, NothingYet
  <2>2. e \in Forgiven \/ w \in Writers(e)
    BY <2>1 DEF Care, HasWriter, Forgiven
  <2>3. ~Writes(Connection(w), e)
    BY <1>1, <1>5 DEF Writes, Writing
  <2>4. e \in Forgiven' \/ w \in Writers(e)'
    BY <1>2, <1>3, <2>2, <2>3, TurnWriters DEF Types
  <2> QED BY <1>2, <2>1, <2>4
<1> QED BY <1>2, <1>3, <1>4, <1>5, QuietCare

(* A connection that writes nothing, or writes on.                         *)
LEMMA StillCare ==
  ASSUME Types, Types', Claimable, Data, Care, UNCHANGED choices,
         NEW w \in Workers, pc[w] \in Busy, w \notin blocked,
         \/ Uncached(w) \/ Found(w) \/ Claims(w) \/ Counts(w) \/ Relayed(w)
         \/ Copied(w) \/ Sent(w)
  PROVE  Care'
<1>1. pc[w] \in Claiming => Connection(w).status = "GETTING_REQUEST"
  BY DEF Types, Places, Placed
<1>2. /\ pc[w] \in Sending => Connection(w).status = "RESPONDING_FROM_CACHE"
      /\ Connection(w) \in Conn
  BY ServedFits DEF Types, Places, Placed
<1>3. \E d \in Conn, stays \in BOOLEAN :
        /\ Turn(w, d, stays) /\ UNCHANGED <<cache, blocked, reclaimed>>
        /\ abandoned \subseteq abandoned' /\ d.status # "WAITING_DATA_ON_CACHE"
        /\ \/ Connection(w).status \notin Writing
           \/ stays /\ d.status \in Writing /\ d.cacheIndex = Connection(w).cacheIndex
  <2>1. CASE Uncached(w) \/ Found(w)
    BY <2>1 DEF Uncached, Found, Outcome, Served, Ended, Searched, cacheVars, Writing
  <2>2. CASE Claims(w)
    BY <2>2 DEF Claims, Searched, cacheVars, Writing
  <2>3. CASE Counts(w)
    <3>1. Connection(w).status = "GETTING_REQUEST"
      BY <1>1, <2>3 DEF Counts, Claiming
    <3> QED BY <1>2, <2>3, <3>1 DEF Counts, history, Writing
  <2>4. CASE Relayed(w)
    BY <2>4 DEF Relayed, Received, Outcome, Served, Ended, Private, cacheVars, Writing
  <2>5. CASE Copied(w)
    <3>1. Connection(w).status = "RESPONDING_FROM_CACHE"
      BY <1>2, <2>5 DEF Copied, Sending
    <3> QED BY <1>2, <2>5, <3>1 DEF Copied, history, Writing, cacheVars
  <2>6. CASE Sent(w)
    BY <2>6 DEF Sent, Outcome, Served, Ended, cacheVars, Writing
  <2> QED BY <2>1, <2>2, <2>3, <2>4, <2>5, <2>6
<1>4. PICK d \in Conn, stays \in BOOLEAN :
        /\ Turn(w, d, stays) /\ UNCHANGED <<cache, blocked, reclaimed>>
        /\ abandoned \subseteq abandoned' /\ d.status # "WAITING_DATA_ON_CACHE"
        /\ \/ Connection(w).status \notin Writing
           \/ stays /\ d.status \in Writing /\ d.cacheIndex = Connection(w).cacheIndex
  BY <1>3
<1>5. Forgiven \subseteq Forgiven'
  BY <1>4 DEF Forgiven
<1>6. \A e \in Entries \ Forgiven' : Writes(Connection(w), e) => stays /\ Writes(d, e)
  BY <1>4 DEF Writes
<1> QED BY <1>4, <1>5, <1>6, QuietCare

(* A worker that goes to sleep sleeps on an entry that is being written.   *)
LEMMA StandsCare ==
  ASSUME Types, Types', Claimable, Data, Care, UNCHANGED choices,
         NEW w \in Workers, pc[w] \in Busy, w \notin blocked, Stands(w)
  PROVE  Care'
<1>1. /\ Turn(w, Connection(w), TRUE) /\ EntryOf(w)' = EntryOf(w)
      /\ Connection(w)' = Connection(w)
      /\ Connection(w).status = "RESPONDING_FROM_CACHE"
      /\ UNCHANGED <<cache, reclaimed, abandoned>>
  BY DEF Stands, cacheVars, history
<1>2. Forgiven' = Forgiven /\ \A e : ~Writes(Connection(w), e)
  BY <1>1 DEF Forgiven, Writes, Writing
<1>3. CASE UNCHANGED blocked
  BY <1>1, <1>2, <1>3, QuietCare
<1>4. CASE /\ blocked' = blocked \cup {w} /\ NothingToSend(w)
           /\ cache[EntryOf(w)].status # "INVALID"
  <2>1. PICK e \in Entries : /\ e = EntryOf(w)
                             /\ e \in reclaimed \/ cache[e].status = "DOWNLOADING"
    BY <1>1, <1>4, NothingYet
  <2>2. e \in Forgiven \/ \E u \in Workers : u \in Writers(e)
    BY <2>1 DEF Care, HasWriter, Forgiven
  <2>3. e \in Forgiven' \/ \E u \in Workers : u \in Writers(e)'
    BY <1>1, <1>2, <2>2, TurnWriters DEF Types
  <2>4. Writers(EntryOf(w))' = Writers(e)'
    BY <1>1, <2>1 DEF Writers
  <2>5. EntryOf(w)' \in Forgiven' \/ \E u \in Workers : u \in Writers(EntryOf(w))'
    BY <1>1, <2>1, <2>3, <2>4
  <2>6. NothingToSend(w)'
    BY <1>1, <1>4 DEF NothingToSend
  <2>7. ASSUME NEW v \in Workers, v \in blocked'
        PROVE  NothingToSend(v)' /\ (v # w => v \in blocked)
    <3>1. CASE v = w
      BY <2>6, <3>1
    <3>2. CASE v # w
      <4>1. v \in blocked /\ NothingToSend(v)
        BY <1>4, <2>7, <3>2 DEF Care, SleepsWell
      <4> QED BY <1>1, <3>2, <4>1, StillNothing
    <3> QED BY <3>1, <3>2
  <2>8. PICK d : d = Connection(w)
    OBVIOUS
  <2>9. Turn(w, d, TRUE) /\ d.status # "WAITING_DATA_ON_CACHE"
    BY <1>1, <2>8
  <2> QED BY <1>1, <1>2, <2>5, <2>7, <2>9, TurnCare
<1> QED BY <1>3, <1>4 DEF Stands

(* An entry that is claimed is written by the one that claimed it, or was  *)
(* abandoned at once.                                                      *)
LEMMA ClaimCare ==
  ASSUME Types, Types', Claimable, Data, Care, UNCHANGED choices,
         NEW w \in Workers, pc[w] \in Busy, w \notin blocked, Reclaims(w) \/ Indexes(w)
  PROVE  Care'
<1>1. cache \in [Entries -> Entry] /\ Places
  BY DEF Types, CacheTypes
<1>2. \E d \in Conn, stays \in BOOLEAN, e \in Entries :
        /\ Connected(w, d, e) /\ \A f \in Entries \ {e} : cache'[f] = cache[f]
        /\ cache'[e].status = "DOWNLOADING" /\ cache'[e].writerId = w
        /\ cache'[e].allSize = 0
        /\ Served(w, d, stays) /\ Ended(d, stays, cache')
        /\ UNCHANGED blocked /\ reclaimed \subseteq reclaimed'
  <2>1. CASE Reclaims(w)
    <3>1. PICK d \in Conn, stays \in BOOLEAN, e \in Entries,
               memory \in {"null", "alloc", "freed"} :
            /\ Connected(w, d, e)
            /\ cache' = [cache EXCEPT ![e] = Claimed(@, w, memory, @.url)]
            /\ Outcome(w, d, stays, cache')
            /\ reclaimed' = reclaimed \cup {e} /\ UNCHANGED blocked
      BY <2>1 DEF Reclaims
    <3>2. PICK entry : entry = Claimed(cache[e], w, memory, cache[e].url)
      OBVIOUS
    <3>3. entry.status = "DOWNLOADING" /\ entry.writerId = w /\ entry.allSize = 0
      BY <1>1, <3>2, ClaimedFacts
    <3>4. cache'[e] = entry /\ \A f \in Entries \ {e} : cache'[f] = cache[f]
      BY <1>1, <3>1, <3>2
    <3>5. Served(w, d, stays) /\ Ended(d, stays, cache') /\ reclaimed \subseteq reclaimed'
      BY <3>1 DEF Outcome
    <3> QED BY <3>1, <3>3, <3>4, <3>5
  <2>2. CASE Indexes(w)
    <3>1. PICK d \in Conn, stays \in BOOLEAN, e \in Entries :
            /\ Connected(w, d, e)
            /\ cache' = [cache EXCEPT ![e] = Claimed(@, w, @.memory, wants[d.client])]
            /\ Outcome(w, d, stays, cache') /\ UNCHANGED <<blocked, reclaimed>>
      BY <2>2 DEF Indexes
    <3>2. PICK entry : entry = Claimed(cache[e], w, cache[e].memory, wants[d.client])
      OBVIOUS
    <3>3. entry.status = "DOWNLOADING" /\ entry.writerId = w /\ entry.allSize = 0
      BY <1>1, <3>2, ClaimedFacts
    <3>4. cache'[e] = entry /\ \A f \in Entries \ {e} : cache'[f] = cache[f]
      BY <1>1, <3>1, <3>2
    <3>5. Served(w, d, stays) /\ Ended(d, stays, cache')
      BY <3>1 DEF Outcome
    <3> QED BY <3>1, <3>3, <3>4, <3>5
  <2> QED BY <2>1, <2>2
<1>3. PICK d \in Conn, stays \in BOOLEAN, e \in Entries :
        /\ Connected(w, d, e) /\ \A f \in Entries \ {e} : cache'[f] = cache[f]
        /\ cache'[e].status = "DOWNLOADING" /\ cache'[e].writerId = w
        /\ cache'[e].allSize = 0
        /\ Served(w, d, stays) /\ Ended(d, stays, cache')
        /\ UNCHANGED blocked /\ reclaimed \subseteq reclaimed'
  BY <1>2
<1>4. /\ Turn(w, d, stays) /\ Writes(d, e) /\ d.status \in Writing /\ d.cacheIndex = e
      /\ d.status # "WAITING_DATA_ON_CACHE" /\ e # Nil
      /\ \A f : ~Writes(Connection(w), f)
  BY <1>3, ProxyAssumption DEF Served, Connected, Writes, Writing, Entries
<1>5. Forgiven \subseteq Forgiven'
  BY <1>3 DEF Forgiven, Ended
<1>6. e \in Forgiven' \/ w \in Writers(e)'
  <2>1. CASE ~stays
    BY <1>3, <1>4, <2>1 DEF Ended, Forgiven
  <2>2. CASE stays
    <3>1. Serving(w) \in 1 .. Own(w)' /\ connections'[w][Serving(w)] = d
      BY <1>1, <1>4, <2>2, TurnConns
    <3> QED BY <1>1, <1>4, <3>1, WritersAre DEF Types
  <2> QED BY <2>1, <2>2
<1>7. ASSUME NEW f \in Entries \ Forgiven', cache'[f].status = "DOWNLOADING"
      PROVE  \/ cache[f].status = "DOWNLOADING" /\ cache'[f].writerId = cache[f].writerId
             \/ cache'[f].writerId = w /\ w \in Writers(f)'
  <2>1. CASE f = e
    BY <1>3, <1>6, <1>7, <2>1
  <2>2. CASE f # e
    BY <1>3, <1>7, <2>2
  <2> QED BY <2>1, <2>2
<1>8. ASSUME NEW v \in Workers, v \in blocked'
      PROVE  NothingToSend(v)' /\ v \in blocked /\ v # w
  <2>1. v \in blocked /\ v # w /\ NothingToSend(v)
    BY <1>3, <1>8 DEF Care, SleepsWell
  <2>2. EntryOf(v) \in Entries
    <3>1. Connection(v).status = "RESPONDING_FROM_CACHE" /\ Connection(v) \in Conn
      BY <1>1, <2>1, AtConnection DEF Places, Placed, Busy, Sending
    <3> QED BY <3>1 DEF Conn, EntryOf, Reading
  <2>3. \/ cache'[EntryOf(v)] = cache[EntryOf(v)]
        \/ cache'[EntryOf(v)].allSize = 0
    BY <1>3, <2>2
  <2> QED BY <1>4, <2>1, <2>3, StillNothing
<1>9. w \notin blocked'
  BY <1>3
<1> QED BY <1>4, <1>5, <1>7, <1>8, <1>9, TurnCare

(* Those that sleep on an entry that becomes invalid, or grows, are woken; *)
(* those that sleep on another still have nothing to send.                 *)
LEMMA BroadcastSleep ==
  ASSUME Types, Care, NEW w \in Workers, w \notin blocked, NEW d, NEW stays,
         Turn(w, d, stays), NEW e \in Entries, Broadcast(e),
         \A f \in Entries \ {e} : cache'[f] = cache[f], NEW v \in Workers, v \in blocked'
  PROVE  NothingToSend(v)' /\ v \in blocked /\ v # w /\ EntryOf(v)' # e
<1>1. v \in blocked /\ v # w /\ EntryOf(v) # e /\ NothingToSend(v)
  BY DEF Broadcast, Care, SleepsWell
<1>2. EntryOf(v) \in Entries
  <2>1. Connection(v).status = "RESPONDING_FROM_CACHE" /\ Connection(v) \in Conn
    BY <1>1, AtConnection DEF Types, Places, Placed, Busy, Sending
  <2> QED BY <2>1 DEF Conn, EntryOf, Reading
<1>3. cache'[EntryOf(v)] = cache[EntryOf(v)]
  BY <1>1, <1>2
<1> QED BY <1>1, <1>3, StillNothing

(* one that makes an entry invalid and wakes who waits for it,             *)
LEMMA CancelCare ==
  ASSUME Types, Types', Claimable, Data, Care, UNCHANGED choices,
         NEW w \in Workers, pc[w] \in Busy, w \notin blocked, Cancelled(w)
  PROVE  Care'
<1>1. PICK d \in Conn, stays \in BOOLEAN, e \in Entries :
        /\ Outcome(w, d, stays, Invalid(e)) /\ NoneWaits(w)'
        /\ cache' = Invalid(e) /\ Broadcast(e)
        /\ IF stays THEN Received(Connection(w), d)
                    ELSE d.status \in Writing /\ d.cacheIndex = EntryOf(w)
        /\ UNCHANGED reclaimed
  BY DEF Cancelled
<1>2. /\ cache \in [Entries -> Entry] /\ Places
      /\ Turn(w, d, stays) /\ Ended(d, stays, Invalid(e))
  BY <1>1 DEF Types, CacheTypes, Outcome, Served
<1>3. cache'[e].status = "INVALID" /\ \A f \in Entries \ {e} : cache'[f] = cache[f]
  BY <1>1, <1>2 DEF Invalid
<1>4. Forgiven \subseteq Forgiven'
  BY <1>1, <1>2 DEF Forgiven, Ended
<1>5. ASSUME NEW v \in Workers, v \in blocked'
      PROVE  NothingToSend(v)' /\ v \in blocked /\ v # w /\ EntryOf(v)' # e
  BY <1>1, <1>2, <1>3, <1>5, BroadcastSleep
<1>6. ASSUME NEW f \in Entries \ Forgiven', Writes(Connection(w), f),
             ~(stays /\ Writes(d, f))
      PROVE  f = e
  <2>1. ~stays
    BY <1>1, <1>6 DEF Received, Writes, Writing
  <2>2. d.status \in Writing /\ d.cacheIndex = f
    BY <1>1, <1>6, <2>1 DEF EntryOf, Writes
  <2>3. ASSUME f # e PROVE FALSE
    <3>1. PICK entries : entries = Invalid(e)
      OBVIOUS
    <3>2. entries[f].status = cache[f].status
      BY <1>1, <1>3, <2>3, <3>1
    <3>3. Ended(d, FALSE, entries)
      BY <1>2, <2>1, <3>1 DEF Ended
    <3>4. f \in Entries \ reclaimed
      BY <1>1 DEF Forgiven
    <3>5. f \in abandoned'
      BY <1>6, <2>2, <3>2, <3>3, <3>4, LeavesAbandon
    <3> QED BY <3>5 DEF Forgiven
  <2> QED BY <2>3
<1>7. ASSUME NEW f \in Entries \ Forgiven', cache'[f].status = "DOWNLOADING"
      PROVE  cache[f].status = "DOWNLOADING" /\ cache'[f].writerId = cache[f].writerId
  <2>1. f # e
    BY <1>3, <1>7
  <2> QED BY <1>3, <1>7, <2>1
<1>8. ~(stays /\ d.status = "WAITING_DATA_ON_CACHE")
  BY <1>1 DEF Received
<1>9. w \notin blocked'
  BY <1>5
<1>10. ASSUME NEW f \in Entries \ Forgiven', Writes(Connection(w), f),
              ~(stays /\ Writes(d, f))
       PROVE  /\ cache'[f].status # "DOWNLOADING" /\ NoneWaits(w)'
              /\ \A v \in Workers : v \in blocked' => EntryOf(v)' # f
  BY <1>1, <1>3, <1>5, <1>6, <1>10
<1> QED BY <1>2, <1>4, <1>5, <1>7, <1>8, <1>9, <1>10, TurnCare

(* and one that stores a part of a response and wakes who waits for it.    *)
LEMMA StoreCare ==
  ASSUME Types, Types', Claimable, Data, Care, UNCHANGED choices,
         NEW w \in Workers, pc[w] \in Busy, w \notin blocked, Stored(w)
  PROVE  Care'
<1>1. PICK d \in Conn, stays \in BOOLEAN, e \in Entries, more \in Entry :
        /\ Outcome(w, d, stays, [cache EXCEPT ![e] = more]) /\ NoneWaits(w)'
        /\ cache' = [cache EXCEPT ![e] = more] /\ Broadcast(e)
        /\ Received(Connection(w), d) /\ d.cacheIndex = e
        /\ Longer(cache[e], d, more)
        /\ more.status = IF stays THEN cache[e].status ELSE "VALID"
        /\ UNCHANGED reclaimed
  BY DEF Stored
<1>2. /\ cache \in [Entries -> Entry] /\ Places
      /\ Turn(w, d, stays) /\ abandoned \subseteq abandoned'
  BY <1>1 DEF Types, CacheTypes, Outcome, Served, Ended
<1>3. /\ cache'[e] = more /\ more.writerId = cache[e].writerId
      /\ \A f \in Entries \ {e} : cache'[f] = cache[f]
  BY <1>1, <1>2 DEF Longer
<1>4. Forgiven \subseteq Forgiven'
  BY <1>1, <1>2 DEF Forgiven
<1>5. ASSUME NEW v \in Workers, v \in blocked'
      PROVE  NothingToSend(v)' /\ v \in blocked /\ v # w /\ EntryOf(v)' # e
  BY <1>1, <1>2, <1>3, <1>5, BroadcastSleep
<1>6. /\ Writes(d, e) /\ \A f : Writes(Connection(w), f) => f = e
      /\ d.status # "WAITING_DATA_ON_CACHE"
  BY <1>1 DEF Received, Writes, Writing
<1>7. ASSUME NEW f \in Entries \ Forgiven', cache'[f].status = "DOWNLOADING"
      PROVE  cache[f].status = "DOWNLOADING" /\ cache'[f].writerId = cache[f].writerId
  <2>1. CASE f = e
    BY <1>1, <1>3, <1>7, <2>1
  <2>2. CASE f # e
    BY <1>3, <1>7, <2>2
  <2> QED BY <2>1, <2>2
<1>8. w \notin blocked'
  BY <1>5
<1>9. ASSUME NEW f \in Entries \ Forgiven', Writes(Connection(w), f),
             ~(stays /\ Writes(d, f))
      PROVE  /\ cache'[f].status # "DOWNLOADING" /\ NoneWaits(w)'
             /\ \A v \in Workers : v \in blocked' => EntryOf(v)' # f
  <2>1. f = e /\ ~stays
    BY <1>6, <1>9
  <2> QED BY <1>1, <1>3, <1>5, <2>1
<1> QED BY <1>2, <1>4, <1>5, <1>6, <1>7, <1>8, <1>9, TurnCare

(* By those that take a socket, or leave the connections alone:            *)
LEMMA AsideCare ==
  ASSUME Types, Types', Care, UNCHANGED choices, Aside \/ (\E w \in Workers : Takes(w))
  PROVE  Care'
<1>1. /\ Entries' = Entries /\ UNCHANGED <<cache, reclaimed, abandoned>>
      /\ blocked' \subseteq blocked /\ Places /\ Places'
  BY DEF choices, Entries, Aside, Takes, cacheVars, history, Types
<1>2. Forgiven' = Forgiven
  BY <1>1 DEF Forgiven
<1>3. ASSUME NEW v \in Workers, NEW k \in 1 .. Own(v)'
      PROVE  \/ k \in 1 .. Own(v) /\ connections'[v][k] = connections[v][k]
             \/ connections'[v][k].status = "GETTING_REQUEST"
  BY TakesConns
<1>4. ASSUME NEW v \in Workers, NEW e, v \in Writers(e) PROVE v \in Writers(e)'
  <2>1. PICK k \in 1 .. Own(v) : Writes(connections[v][k], e)
    BY <1>1, <1>4, WritersAre
  <2>2. k \in 1 .. Own(v)' /\ connections'[v][k] = connections[v][k]
    BY TakesConns
  <2> QED BY <1>1, <2>1, <2>2, WritersAre
<1>5. ASSUME NEW e \in Entries \ Forgiven PROVE HasWriter(e)'
  <2>1. HasWriter(e)
    BY DEF Care
  <2> QED BY <1>1, <1>4, <2>1 DEF HasWriter
<1>6. ASSUME NEW v \in Workers PROVE WaitsWell(v)'
  <2> SUFFICES ASSUME NEW k \in 1 .. Own(v)', NEW x, x = connections'[v][k],
                      x.status = "WAITING_DATA_ON_CACHE"
               PROVE  x.cacheIndex \in Forgiven' \/ v \in Writers(x.cacheIndex)'
    BY DEF WaitsWell
  <2>1. k \in 1 .. Own(v) /\ x = connections[v][k]
    BY <1>3
  <2>2. x.cacheIndex \in Forgiven \/ v \in Writers(x.cacheIndex)
    BY <2>1 DEF Care, WaitsWell
  <2> QED BY <1>2, <1>4, <2>2
<1>7. ASSUME NEW v \in Workers PROVE SleepsWell(v)'
  <2> SUFFICES ASSUME v \in blocked'
               PROVE  /\ NothingToSend(v)'
                      /\ \/ EntryOf(v)' \in Forgiven'
                         \/ \E u \in Workers : u \in Writers(EntryOf(v))'
    BY DEF SleepsWell
  <2>1. /\ v \in blocked /\ pc[v] \in Busy
        /\ Connection(v)' = Connection(v) /\ EntryOf(v)' = EntryOf(v)
    BY <1>1, TakesConns DEF Places, Placed, Busy, Sending
  <2>2. NothingToSend(v)'
    BY <1>1, <2>1 DEF NothingToSend, Care, SleepsWell
  <2>3. PICK e : e = EntryOf(v)
    OBVIOUS
  <2>4. e \in Forgiven \/ \E u \in Workers : u \in Writers(e)
    BY <2>1, <2>3 DEF Care, SleepsWell
  <2>5. e \in Forgiven' \/ \E u \in Workers : u \in Writers(e)'
    BY <1>2, <1>4, <2>4
  <2>6. Writers(EntryOf(v))' = Writers(e)'
    BY <2>1, <2>3 DEF Writers
  <2> QED BY <2>1, <2>2, <2>3, <2>5, <2>6
<1> QED BY <1>1, <1>2, <1>5, <1>6, <1>7 DEF Care

(* By every step.                                                          *)
LEMMA StepCare ==
  ASSUME Types, Types', Claimable, Data, Care, [Next]_vars
  PROVE  Care'
<1>1. ASSUME NEW w \in Workers, pc[w] \in Busy, w \notin blocked, Handled(w),
             UNCHANGED choices
      PROVE  Care'
  BY <1>1, PlainCare, StillCare, StandsCare, ClaimCare, CancelCare, StoreCare DEF Handled
<1> QED BY <1>1, StepShape, AsideCare

(* At the start nobody waits.                                              *)
LEMMA InitCare ==
  ASSUME Init
  PROVE  Care
<1>1. /\ blocked = {} /\ connections = [w \in Workers |-> <<>>]
      /\ cache = [e \in Entries |-> Fresh]
  BY DEF Init
<1>2. \A v \in Workers : Own(v) = 0
  BY <1>1, EmptySeq DEF Own
<1> QED BY <1>1, <1>2 DEF Care, HasWriter, WaitsWell, SleepsWell, Fresh

(* Who waits for data of an entry waits for a connection that writes it.   *)
THEOREM WaitersCorrect == Spec => []WaitersCared
<1> DEFINE Cares == ~raced => Care
<1>1. Init => Types /\ Sound /\ Cares
  BY InitTypes, InitClaims, InitData, InitCare DEF Sound
<1>2. Types /\ Sound /\ Cares /\ [Next]_vars => Types' /\ Sound' /\ Cares'
  BY StepTypes, StepRaced, StepClaims, StepData, StepCare DEF Sound
<1>3. Types /\ Sound /\ Cares => WaitersCared
  <2> SUFFICES ASSUME Types, Care, NEW w \in Workers
               PROVE  /\ \A i \in DOMAIN connections[w] :
                           connections[w][i].status = "WAITING_DATA_ON_CACHE" =>
                             Cared(connections[w][i].cacheIndex, {w})
                      /\ w \in blocked => NothingToSend(w) /\ Cared(EntryOf(w), Workers)
    BY DEF WaitersCared
  <2>1. DOMAIN connections[w] = 1 .. Own(w)
    BY ConnTypes DEF Types
  <2>2. ASSUME NEW i \in 1 .. Own(w), connections[w][i].status = "WAITING_DATA_ON_CACHE"
        PROVE  Cared(connections[w][i].cacheIndex, {w})
    BY <2>2 DEF Care, WaitsWell, Cared, Forgiven
  <2>3. w \in blocked => NothingToSend(w) /\ Cared(EntryOf(w), Workers)
    BY DEF Care, SleepsWell, Cared, Forgiven
  <2> QED BY <2>1, <2>2, <2>3
<1> QED BY <1>1, <1>2, <1>3, PTL DEF Spec
=============================================================================
