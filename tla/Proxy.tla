-------------------------------- MODULE Proxy --------------------------------
(***************************************************************************)
(* Lab31: a caching HTTP proxy.  main accepts clients and puts them in a   *)
(* queue; each worker takes some, polls its own connections and serves the *)
(* ready ones in turn.  The workers share the cache: the first connection  *)
(* that asks for a URL claims an entry and writes to it what it forwards,  *)
(* the others are sent what the entry holds, and wait for more.            *)
(*                                                                         *)
(* checkSizeMutex has the default kind and is locked again by its holder   *)
(* on every path of the queue.  POSIX leaves that undefined: the holder    *)
(* blocks (macOS, glibc), or the lock fails and is ignored; relock is the  *)
(* choice.  Other critical sections do not block and are parts of actions; *)
(* accesses to the cache outside its mutexes are split where another       *)
(* worker can come between.  fault names what the language leaves          *)
(* undefined, and nothing is claimed of the process from there on.         *)
(*                                                                         *)
(* A response is Size units, the first of them its header (a short one is  *)
(* its header only); one unit comes with a recv and one goes with a send   *)
(* from the cache.  malloc succeeds.  buffer is how much of its request a  *)
(* connection holds: 1 without the URL, 2 with it, 3 with the end of the   *)
(* header, -1 when the beginning was freed; of a response, 1 is a header   *)
(* that was kept.                                                          *)
(***************************************************************************)
EXTENDS Integers, Sequences, FiniteSets

CONSTANTS
  Workers, Main,
  Clients,
  Urls,             (* what the clients ask for                                *)
  Post,             (* what is not a GET                                       *)
  Nil,              (* no thread, no entry (-1), a null pointer              *)
  Relocks,          (* the outcomes of a second lock: blocks, fails          *)
  Kinds,            (* the answers of the servers                            *)
  Size,
  Limits            (* what MAX_CACHE_SIZE may be                            *)

ASSUME ProxyAssumption ==
  /\ IsFiniteSet(Workers) /\ Workers # {} /\ Nil \notin Workers \cup Urls \cup {Main}
  /\ Nil \notin Nat
  /\ Relocks \subseteq {"blocks", "fails"}
  /\ Kinds \subseteq {"ok", "short", "error", "nolength", "nobody"}
  /\ Size \in Nat \ {0} /\ Limits \subseteq Nat \ {0}

VARIABLES
  relock, wants,        (* choices made at the start: what a second lock     *)
  leavers,              (* does, what each client asks for (Nil: it does not *)
  MAX_CACHE_SIZE,       (* come), which may close their socket, the limit    *)
  main,                 (* "create", "listen", "accept", or "count" after a  *)
                        (* put                                               *)
  stuck,                (* who blocked on its own lock of checkSizeMutex     *)
  queue, allConnectionsCount,
  came, gone,           (* the clients accepted, those that closed           *)
  pc, todo,             (* a worker's place, and what poll reported          *)
  asleep,               (* workers in cond_wait of the queue                 *)
  blocked,              (* workers in cond_wait of a cache entry             *)
  connections,          (* the array of each worker, as long as in use       *)
  loaded, copied,       (* cacheSize and the entry as a worker read them     *)
  cacheSize, cache,
  fault,
  misled,               (* history: a client was sent another unit from the  *)
                        (* cache than its next                               *)
  raced, reclaimed,     (* history: two workers in searchCache; the entries  *)
                        (* claimed again                                     *)
  abandoned             (* history: the entries whose writer was dropped and *)
                        (* left them DOWNLOADING, or INVALID from before     *)

queueVars == <<main, stuck, queue, came>>
threadVars == <<asleep, blocked, loaded, copied>>
cacheVars == <<cacheSize, cache>>
history == <<misled, raced, reclaimed, abandoned>>
choices == <<relock, wants, leavers, MAX_CACHE_SIZE>>
vars == <<choices, queueVars, allConnectionsCount, gone, pc, todo, threadVars,
          connections, cacheVars, fault, history>>

Entries == 1 .. MAX_CACHE_SIZE
Fresh == [status |-> "UNUSED", writerId |-> Nil, url |-> Nil, data |-> <<>>,
          memory |-> "null", alreadyWritten |-> 0, allSize |-> 0]
Accepted(c) == [client |-> c, status |-> "GETTING_REQUEST", buffer |-> 0,
                cacheIndex |-> Nil, cacheBytesWritten |-> 0, units |-> 0, kind |-> Nil]

isEmpty == queue = <<>>
createQueue == isEmpty /\ stuck = Nil /\ asleep = {}

initNewConnection(s, c) == Append(s, Accepted(c))

Init ==
  /\ relock \in Relocks
  /\ wants \in [Clients -> Urls \cup {Nil}] /\ leavers \in SUBSET Clients
  /\ MAX_CACHE_SIZE \in Limits
  /\ createQueue
  /\ main = "create" /\ allConnectionsCount = 0
  /\ pc = [w \in Workers |-> "none"] /\ todo = [w \in Workers |-> {}]
  /\ connections = [w \in Workers |-> <<>>]
  /\ came = {} /\ gone = {} /\ blocked = {}
  /\ loaded = [w \in Workers |-> 0]
  /\ copied = [w \in Workers |-> Fresh]
  /\ cacheSize = 0
  /\ cache = [e \in Entries |-> Fresh]
  /\ fault = Nil
  /\ misled = FALSE /\ raced = FALSE /\ reclaimed = {} /\ abandoned = {}

(* Nothing is said of the process after a fault.                           *)
Running == fault = Nil /\ UNCHANGED choices

Own(w) == Len(connections[w])
Goto(w, label) == pc' = [pc EXCEPT ![w] = label]
-----------------------------------------------------------------------------
(* The queue of sockets: main's loop, putSocketInQueue, getSocketFromQueue. *)
Blocks(t) ==
  /\ relock = "blocks"
  /\ stuck' = t
  /\ UNCHANGED <<main, queue, allConnectionsCount, pc, asleep, connections>>

(* The put, with its signal to one sleeper.                                *)
putSocketInQueue(c) ==
  \/ Blocks(Main)
  \/ /\ relock = "fails"
     /\ queue' = Append(queue, c)
     /\ IF asleep = {} THEN UNCHANGED asleep
                       ELSE \E w \in asleep : asleep' = asleep \ {w}
     /\ main' = "count"
     /\ UNCHANGED <<stuck, allConnectionsCount, pc, connections>>

Accept(c) ==
  /\ main = "accept" /\ stuck = Nil
  /\ c \notin came /\ wants[c] # Nil
  /\ came' = came \cup {c}
  /\ putSocketInQueue(c)

Count ==
  /\ main = "count"
  /\ allConnectionsCount' = allConnectionsCount + 1
  /\ main' = "accept"
  /\ UNCHANGED <<stuck, queue, came, pc, asleep, connections>>

(* C's division, which rounds towards 0.                                   *)
PerThread ==
  LET n == Cardinality(Workers)
  IN  IF allConnectionsCount < 0 THEN -((-allConnectionsCount) \div n)
                                 ELSE allConnectionsCount \div n

getSocketFromQueue(w) ==
  \/ Blocks(w) /\ UNCHANGED came
  \/ /\ relock = "fails"
     /\ connections' = [connections EXCEPT ![w] = initNewConnection(@, Head(queue))]
     /\ queue' = Tail(queue)
     /\ Goto(w, "poll")
     /\ UNCHANGED <<main, stuck, came, allConnectionsCount, asleep>>

(* The top of a worker's loop, with checkSizeMutex held to the wait or to  *)
(* the poll.                                                               *)
Top(w) ==
  /\ pc[w] = "top" /\ stuck = Nil
  /\ \/ PerThread >= Own(w) /\ ~isEmpty /\ getSocketFromQueue(w)
     \/ /\ PerThread < Own(w) \/ isEmpty
        /\ IF Own(w) = 0 /\ isEmpty
           THEN Goto(w, "asleep") /\ asleep' = asleep \cup {w}
           ELSE Goto(w, "poll") /\ UNCHANGED asleep
        /\ UNCHANGED <<queueVars, allConnectionsCount, connections>>

(* cond_wait has returned; with an empty queue getSocketFromQueue returns  *)
(* -1 (after its lock) and the worker waits again.                         *)
Awake(w) ==
  /\ pc[w] = "asleep" /\ w \notin asleep /\ stuck = Nil
  /\ \/ ~isEmpty /\ getSocketFromQueue(w)
     \/ isEmpty /\ Blocks(w) /\ UNCHANGED came
     \/ /\ isEmpty /\ relock = "fails"
        /\ asleep' = asleep \cup {w}
        /\ UNCHANGED <<queueVars, allConnectionsCount, pc, connections>>

SpuriousWakeup(w) ==
  /\ w \in asleep \cup blocked
  /\ asleep' = asleep \ {w} /\ blocked' = blocked \ {w}
  /\ UNCHANGED <<queueVars, allConnectionsCount, pc, connections>>

Queueing(w) ==
  /\ Running
  /\ \/ (Top(w) \/ Awake(w)) /\ UNCHANGED blocked
     \/ SpuriousWakeup(w)
  /\ UNCHANGED <<todo, gone, loaded, copied, cacheVars, fault, history>>

(* atexit: clearQueue destroys the mutex and the condition variable of the *)
(* queue, with workers that use them, if any was created.                  *)
clearQueue == \E w \in Workers : pc[w] # "none"
exitHandler == fault' = IF clearQueue THEN "queue destroyed in use" ELSE "exit"

initThread(w) == Goto(w, "top")

(* The threads are made, each at the top of its loop at once; one that is  *)
(* not made ends the process.                                              *)
createThreadPool ==
  /\ main = "create"
  /\ \/ /\ \E w \in Workers :
             /\ pc[w] = "none" /\ initThread(w)
             /\ main' = IF \E v \in Workers \ {w} : pc[v] = "none" THEN main ELSE "listen"
        /\ UNCHANGED fault
     \/ exitHandler /\ UNCHANGED <<main, pc>>

(* socket, bind and listen, one of which may fail.                         *)
getProxySocket ==
  /\ main = "listen"
  /\ \/ main' = "accept" /\ UNCHANGED fault
     \/ exitHandler /\ UNCHANGED main
  /\ UNCHANGED pc

Start ==
  /\ createThreadPool \/ getProxySocket
  /\ UNCHANGED <<stuck, queue, came, allConnectionsCount, asleep, connections>>

MainThread ==
  /\ Running
  /\ \/ Start
     \/ Count /\ UNCHANGED fault
     \/ (\E c \in Clients : Accept(c)) /\ UNCHANGED fault
  /\ UNCHANGED <<todo, gone, blocked, loaded, copied, cacheVars, history>>

(* poll reports some of the connections with events; one that waits for    *)
(* data of its own thread has none.                                        *)
Poll(w) ==
  /\ Running
  /\ pc[w] = "poll"
  /\ \E ready \in SUBSET {i \in 1 .. Own(w) :
                            connections[w][i].status # "WAITING_DATA_ON_CACHE"} :
       /\ ready # {}
       /\ todo' = [todo EXCEPT ![w] = ready]
  /\ Goto(w, "serve")
  /\ UNCHANGED <<queueVars, allConnectionsCount, gone, threadVars, connections,
                 cacheVars, fault, history>>
-----------------------------------------------------------------------------
(* What the handlers of one connection are made of.  Its number is the     *)
(* least of those that are left.                                           *)
Serving(w) == CHOOSE i \in todo[w] : \A j \in todo[w] : i <= j
Connection(w) == connections[w][Serving(w)]
EntryOf(w) == Connection(w).cacheIndex

Go(w, left) ==
  /\ todo' = [todo EXCEPT ![w] = left]
  /\ Goto(w, IF left = {} THEN "top" ELSE "serve")

(* The connection stays, as s[i]; s is the array.                          *)
Keep(w, s) ==
  /\ connections' = [connections EXCEPT ![w] = s]
  /\ Go(w, todo[w] \ {Serving(w)})
  /\ UNCHANGED <<allConnectionsCount, abandoned>>

Become(w, c) == Keep(w, [connections[w] EXCEPT ![Serving(w)] = c])

(* Mutant of Moved: the array is shifted and the next one not looked at.   *)
MovedNot(s, i) == SubSeq(s, 1, Len(s) - 1)

(* moveConnection: the last one takes the place of the one that is dropped. *)
Moved(s, i) == SubSeq([s EXCEPT ![i] = s[Len(s)]], 1, Len(s) - 1)

Writing == {"CONNECTING_TO_SERVER", "WRITING_REQUEST", "FORWARDING_REQUEST",
            "FORWARDING_RESPONSE"}

(* Mutant of Leave: the count is not lowered.                              *)
LeaveUncounted(w, s, entries) ==
  /\ connections' = [connections EXCEPT ![w] = Moved(s, Serving(w))]
  /\ Go(w, todo[w] \ {Serving(w), Len(s)})
  /\ UNCHANGED allConnectionsCount
  /\ abandoned' = abandoned

(* dropConnection from the array s, when the cache becomes entries.  The   *)
(* one that is moved has had its turn: the loop goes on behind it.         *)
Leave(w, s, entries) ==
  /\ connections' = [connections EXCEPT ![w] = Moved(s, Serving(w))]
  /\ Go(w, todo[w] \ {Serving(w), Len(s)})
  /\ allConnectionsCount' = allConnectionsCount - 1
  /\ LET c == s[Serving(w)]
     IN  abandoned' = IF /\ c.status \in Writing /\ c.cacheIndex # Nil
                         /\ \/ entries[c.cacheIndex].status = "DOWNLOADING"
                            \/ cache[c.cacheIndex].status = "INVALID"
                      THEN abandoned \cup {c.cacheIndex} ELSE abandoned

Drop(w) == Leave(w, connections[w], cache)

(* wakeUp, on the connections of the thread that wrote.                    *)
Woken(s) ==
  [i \in DOMAIN s |-> IF s[i].status = "WAITING_DATA_ON_CACHE"
                      THEN [s[i] EXCEPT !.status = "RESPONDING_FROM_CACHE"] ELSE s[i]]

(* The broadcast on the condition variable of entry e.                     *)
Broadcast(e) == blocked' = {v \in blocked : EntryOf(v) # e}

Invalid(e) == [cache EXCEPT ![e].status = "INVALID", ![e].writerId = Nil]

Fault(what) ==
  /\ fault' = what
  /\ UNCHANGED <<allConnectionsCount, pc, todo, threadVars, connections, cacheVars,
                 history>>

(* makeCacheInvalid(e), wakeUp, dropConnection.                            *)
FailEntry(w, e) ==
  IF e \in Entries
  THEN /\ cache' = Invalid(e) /\ Broadcast(e)
       /\ Leave(w, Woken(connections[w]), Invalid(e))
       /\ UNCHANGED <<cacheSize, loaded, copied, fault, misled, raced, reclaimed>>
  ELSE Fault("cache[-1]")

(* What a handler leaves alone, and one that only deals with its           *)
(* connection.                                                             *)
Handling == Running /\ UNCHANGED <<queueVars, gone, asleep>>
Private == <<blocked, loaded, copied, cacheVars, fault, misled, raced, reclaimed>>
-----------------------------------------------------------------------------
(* The request.                                                            *)
Claiming == {"reclaim", "load", "store", "index"}
Racing(w) == raced' = (raced \/ \E v \in Workers \ {w} : pc[v] \in Claiming)

(* After searchCache without a hit, with the connection in s and the cache *)
(* entries: the server is found and connected, or the client is answered   *)
(* 523 and dropped.                                                        *)
Connect(w, s, entries) ==
  LET t == [s EXCEPT ![Serving(w)].status = "CONNECTING_TO_SERVER"]
  IN  Keep(w, t) \/ Leave(w, t, entries)

(* searchCache up to its first write, with the connection in s.            *)
SearchCache(w, s, url) ==
  LET hits == {e \in 1 .. cacheSize : e \notin Entries \/ cache[e].url \in {url, Nil}}
      hit == CHOOSE e \in hits : \A f \in hits : e <= f
      At(e) == [s EXCEPT ![Serving(w)].cacheIndex = e]
  IN  \/ /\ hits = {} /\ cacheSize >= MAX_CACHE_SIZE
         /\ Connect(w, At(Nil), cache)
         /\ Racing(w)
         /\ UNCHANGED <<blocked, loaded, copied, cacheVars, fault, misled, reclaimed>>
      \/ /\ hits = {} /\ cacheSize < MAX_CACHE_SIZE
         /\ connections' = [connections EXCEPT ![w] = At(Nil)]
         /\ Goto(w, "load")
         /\ Racing(w)
         /\ UNCHANGED <<allConnectionsCount, todo, blocked, loaded, copied, cacheVars,
                        fault, misled, reclaimed, abandoned>>
      \/ /\ hits # {}
         /\ hit \in Entries => cache[hit].url = Nil
         /\ Fault("no url")
      \/ /\ hits # {}
         /\ hit \in Entries /\ cache[hit].url = url /\ cache[hit].status # "INVALID"
         /\ Keep(w, [At(hit) EXCEPT ![Serving(w)].status = "RESPONDING_FROM_CACHE",
                                    ![Serving(w)].buffer = 0,
                                    ![Serving(w)].cacheBytesWritten = 0])
         /\ Racing(w)
         /\ UNCHANGED <<blocked, loaded, copied, cacheVars, fault, misled, reclaimed>>
      \/ /\ hits # {}
         /\ hit \in Entries /\ cache[hit].url = url /\ cache[hit].status = "INVALID"
         /\ connections' = [connections EXCEPT ![w] = At(hit)]
         /\ Goto(w, "reclaim")
         /\ Racing(w)
         /\ UNCHANGED <<allConnectionsCount, todo, blocked, loaded, copied, cacheVars,
                        fault, misled, reclaimed, abandoned>>

isMethodGet(c) == wants[c.client] # Post

(* How much a connection may hold once what recv brings is appended.       *)
allocateMemory(c) == IF c.buffer < 0 THEN {c.buffer} ELSE {1, 2, 3}

(* The text between two spaces, when that much is there.                   *)
getUrlFromData(c, level) == IF level \in {2, 3} THEN wants[c.client] ELSE Nil

(* The host is what stands before the slash behind http://; in a URL       *)
(* without that slash a null pointer is taken for its place.  It is looked *)
(* for when the URL is not in the cache.                                   *)
NoHost(url) == (\A e \in Entries : cache[e].url # url) /\ Fault("no host")

GettingRequest(w) ==
  LET c == Connection(w)
      Holding(level) == [connections[w] EXCEPT ![Serving(w)].buffer = level]
  IN  /\ c.status = "GETTING_REQUEST"
      /\ \/ /\ c.client \in gone \/ c.buffer < 0 \* closed, or what is left is no GET
            /\ Drop(w) /\ UNCHANGED Private
         \/ \E level \in allocateMemory(c) :
              LET url == getUrlFromData(c, level)
              IN  \/ url = Nil /\ Keep(w, Holding(level)) /\ UNCHANGED Private
                  \/ /\ url # Nil /\ ~isMethodGet(c)
                     /\ Leave(w, Holding(level), cache) /\ UNCHANGED Private
                  \/ url # Nil /\ isMethodGet(c) /\ NoHost(url)
                  \/ url # Nil /\ isMethodGet(c) /\ SearchCache(w, Holding(level), url)

(* An entry that w is to write.                                            *)
Downloading(entry, w) ==
  [entry EXCEPT !.status = "DOWNLOADING", !.writerId = w, !.alreadyWritten = 0, !.allSize = 0]

(* The entry that was invalid is claimed again: its data are freed, under  *)
(* those who are about to send them too, and the pointer stays.            *)
Reclaim(w) ==
  LET e == EntryOf(w)
      memory == IF cache[e].memory = "null" THEN "null" ELSE "freed"
      claimed == [cache EXCEPT ![e] = [Downloading(@, w) EXCEPT !.memory = memory]]
  IN  /\ Handling
      /\ pc[w] = "reclaim"
      /\ \/ cache[e].memory = "freed" /\ Fault("double free")
         \/ /\ cache[e].memory # "freed"
            /\ cache' = claimed
            /\ copied' = [v \in Workers |-> IF pc[v] = "send" /\ EntryOf(v) = e
                                            THEN [copied[v] EXCEPT !.memory = "freed"]
                                            ELSE copied[v]]
            /\ reclaimed' = reclaimed \cup {e}
            /\ Racing(w)
            /\ Connect(w, connections[w], claimed)
            /\ UNCHANGED <<blocked, loaded, cacheSize, fault, misled>>

(* A new entry: cacheSize++, a load and a store, then its last entry is    *)
(* read from cacheSize and filled in.                                      *)
Load(w) ==
  /\ Handling
  /\ pc[w] = "load"
  /\ loaded' = [loaded EXCEPT ![w] = cacheSize]
  /\ Goto(w, "store")
  /\ UNCHANGED <<allConnectionsCount, todo, blocked, copied, connections, cacheVars,
                 fault, history>>

Store(w) ==
  /\ Handling
  /\ pc[w] = "store"
  /\ cacheSize' = loaded[w] + 1
  /\ loaded' = [loaded EXCEPT ![w] = 0]
  /\ Goto(w, "index")
  /\ UNCHANGED <<allConnectionsCount, todo, blocked, copied, connections, cache, fault,
                 history>>

Index(w) ==
  LET e == cacheSize
      url == wants[Connection(w).client]
      claimed == [cache EXCEPT ![e] = [Downloading(@, w) EXCEPT !.url = url]]
      s == [connections[w] EXCEPT ![Serving(w)].cacheIndex = e]
  IN  /\ Handling
      /\ pc[w] = "index"
      /\ \/ e \notin Entries /\ Fault("beyond the cache")
         \/ /\ e \in Entries
            /\ cache' = claimed
            /\ Racing(w)
            /\ Connect(w, s, claimed)
            /\ UNCHANGED <<blocked, loaded, copied, cacheSize, fault, misled, reclaimed>>

ConnectingToServer(w) ==
  /\ Connection(w).status = "CONNECTING_TO_SERVER"
  /\ Become(w, [Connection(w) EXCEPT !.status = "WRITING_REQUEST"])
  /\ UNCHANGED Private

(* cutBody does not give back what realloc returns: a block may have       *)
(* moved; the array on the stack is none.  The faults it may end in.       *)
cutBody(buff) == IF buff = "block" THEN {Nil, "moved"} ELSE {"realloc of an array"}

(* A send that fails invalidates the entry with the number of the          *)
(* connection; where the cache has fewer entries than a worker can have    *)
(* connections that may be beyond it, or an entry nobody uses.  A buffer   *)
(* that was freed is scanned without end.                                  *)
WritingRequest(w) ==
  LET c == Connection(w)
  IN  /\ c.status = "WRITING_REQUEST"
      /\ \/ c.buffer = 0 /\ Fault("no request")
         \/ c.buffer = 3 /\ \E what \in cutBody("block") \ {Nil} : Fault(what)
         \/ c.buffer # 0 /\ FailEntry(w, Serving(w))
         \/ /\ c.buffer # 0 /\ Serving(w) \notin Entries
            /\ Leave(w, Woken(connections[w]), cache)
            /\ UNCHANGED Private
         \/ /\ c.buffer = 3
            /\ Become(w, [c EXCEPT !.status = "FORWARDING_RESPONSE", !.buffer = 0])
            /\ UNCHANGED Private
         \/ /\ c.buffer = 2
            /\ Become(w, [c EXCEPT !.status = "FORWARDING_REQUEST"])
            /\ UNCHANGED Private

(* The rest of a request, received to an array.                            *)
ForwardingRequest(w) ==
  /\ Connection(w).status = "FORWARDING_REQUEST"
  /\ \/ \E what \in cutBody("array") \ {Nil} : Fault(what)
     \/ Drop(w) /\ UNCHANGED Private              \* recv or send fails
     \/ Become(w, Connection(w)) /\ UNCHANGED Private
-----------------------------------------------------------------------------
(* The response.                                                           *)
Length(kind) == IF kind = "short" THEN 1 ELSE Size
HeaderEnds(c) == c.units = 1 \/ c.buffer = 1
getResponseCodeFromData(kind) ==
  IF kind = "error" THEN 404 ELSE IF kind = "nobody" THEN 204 ELSE 200
isResponseHasPayload(statusCode) == statusCode \notin {204, 304} \cup 100 .. 199

(* With the header that goes before the content, which is never empty.     *)
getContentLengthFromData(kind) == IF kind \in {"nolength", "nobody"} THEN -1 ELSE Length(kind)

(* What an entry is given a block of memory for.                           *)
Cacheable(kind) == getContentLengthFromData(kind) # -1 /\ getResponseCodeFromData(kind) = 200

(* freeBuffer on the place of a connection that was just dropped: it is    *)
(* the one that was moved there.                                           *)
FreedLast(s) ==
  LET c == s[Len(s)]
  IN  [s EXCEPT ![Len(s)].buffer =
         IF c.status = "GETTING_REQUEST" /\ c.buffer # 0 THEN -1 ELSE 0]

(* Mutant of Complete: the entry is valid with its first unit.             *)
CompleteEarly(entry) == entry.alreadyWritten >= 1

Complete(entry) == entry.alreadyWritten = entry.allSize

(* The entry becomes `entry'; complete, it is valid and the writer, in s,  *)
(* is dropped.                                                             *)
Written(w, s, e, entry) ==
  /\ Broadcast(e)
  /\ IF Complete(entry)
     THEN LET entries == [cache EXCEPT ![e] = [entry EXCEPT !.status = "VALID"]]
          IN  cache' = entries /\ Leave(w, Woken(s), entries)
     ELSE cache' = [cache EXCEPT ![e] = entry] /\ Keep(w, Woken(s))

(* The first units, until the header is there.                             *)
WriteHeader(w, s, e, unit) ==
  LET c == s[Serving(w)]
      statusCode == getResponseCodeFromData(c.kind)
      contentLength == getContentLengthFromData(c.kind)
      With(buffer) == [Woken(s) EXCEPT ![Serving(w)].buffer = buffer]
  IN  \/ ~HeaderEnds(c) /\ Keep(w, s) /\ UNCHANGED <<blocked, cache>>
      \/ /\ HeaderEnds(c) /\ Cacheable(c.kind)
         /\ LET entry == [cache[e] EXCEPT !.allSize = contentLength, !.data = <<unit>>,
                                          !.memory = "alloc", !.alreadyWritten = 1]
            IN  Written(w, IF Complete(entry) THEN FreedLast(s) ELSE s, e, entry)
      \/ /\ HeaderEnds(c) /\ contentLength # -1 /\ statusCode # 200
         /\ cache' = Invalid(e) /\ Broadcast(e)
         /\ Keep(w, With(0))
      \/ /\ HeaderEnds(c) /\ contentLength = -1 /\ isResponseHasPayload(statusCode)
         /\ cache' = Invalid(e) /\ Broadcast(e)
         /\ Keep(w, With(1))
      \/ /\ HeaderEnds(c) /\ contentLength = -1 /\ ~isResponseHasPayload(statusCode)
         /\ cache' = Invalid(e) /\ Broadcast(e)
         /\ Leave(w, Woken(s), Invalid(e))

(* A unit has been received and sent on.                                   *)
Forward(w, s, e, unit) ==
  \/ e = Nil /\ Keep(w, s) /\ UNCHANGED <<blocked, cache>>
  \/ e # Nil /\ cache[e].alreadyWritten = 0 /\ WriteHeader(w, s, e, unit)
  \/ /\ e # Nil /\ cache[e].alreadyWritten \in 1 .. cache[e].allSize - 1
     /\ Written(w, s, e, [cache[e] EXCEPT !.alreadyWritten = @ + 1,
                                          !.data = Append(@, unit)])

(* With what was just received, a server may have sent more than it said,  *)
(* or another one written to the same entry: the copy passes the block.    *)
Overruns(c, e) ==
  e # Nil /\ (cache[e].alreadyWritten # 0 \/ (HeaderEnds(c) /\ Cacheable(c.kind)))

ForwardingResponse(w) ==
  LET c == Connection(w)
      e == c.cacheIndex
  IN  /\ c.status = "FORWARDING_RESPONSE"
      /\ \/ Drop(w) /\ UNCHANGED Private                          \* recv fails
         \/ e = Nil /\ Drop(w) /\ UNCHANGED Private               \* end of file
         \/ e # Nil /\ FailEntry(w, e)
         \/ c.client \in gone /\ FailEntry(w, e)                  \* send fails
         \/ \E kind \in IF c.units = 0 THEN Kinds ELSE {c.kind} :
              LET d == [c EXCEPT !.units = @ + 1, !.kind = kind]
                  unit == <<wants[c.client], d.units>>
              IN  \/ Overruns(d, e) /\ Fault("beyond the data")
                  \/ /\ d.units <= Length(kind)
                     /\ Forward(w, [connections[w] EXCEPT ![Serving(w)] = d], e, unit)
                     /\ UNCHANGED <<loaded, copied, cacheSize, fault, misled, raced, reclaimed>>
-----------------------------------------------------------------------------
(* From the cache.                                                         *)
NothingToSend(w) == LET e == EntryOf(w)
                    IN  \/ cache[e].alreadyWritten = Connection(w).cacheBytesWritten
                        \/ cache[e].allSize = 0

(* A connection to an invalid entry is dropped, and the mutex of entry e   *)
(* unlocked by this worker, which does not hold it: it may be another's.   *)
GiveUp(w, e) ==
  \/ e = Nil /\ Fault("cache[-1]")
  \/ e # Nil /\ Fault("mutex not held")
  \/ e # Nil /\ Drop(w) /\ UNCHANGED Private

RespondingFromCache(w) ==
  LET entry == cache[EntryOf(w)]
      own == NothingToSend(w) /\ entry.writerId = w
  IN  /\ Connection(w).status = "RESPONDING_FROM_CACHE"
      /\ \/ entry.status = "INVALID" /\ GiveUp(w, EntryOf(w))
         \/ /\ entry.status # "INVALID" /\ own
            /\ Become(w, [Connection(w) EXCEPT !.status = "WAITING_DATA_ON_CACHE"])
            /\ UNCHANGED Private
         \/ /\ entry.status # "INVALID" /\ ~own
            /\ IF entry.status = "DOWNLOADING" /\ NothingToSend(w)
               THEN Goto(w, "blocked") /\ blocked' = blocked \cup {w}
               ELSE Goto(w, "copy") /\ UNCHANGED blocked
            /\ UNCHANGED <<allConnectionsCount, todo, loaded, copied, connections, cacheVars,
                           fault, history>>

(* The entry of what stands in the place of a connection that was dropped: *)
(* of the one that was moved there, or none if it was the last.            *)
EntryBehind(w) ==
  LET s == Moved(connections[w], Serving(w))
  IN  IF Serving(w) \in DOMAIN s THEN s[Serving(w)].cacheIndex ELSE Nil

(* The loop about cond_wait: the worker and all its connections wait.  It  *)
(* is left with an unlock of the entry of connections[i], even behind the  *)
(* drop of connection i.                                                   *)
Blocked(w) ==
  /\ Handling
  /\ pc[w] = "blocked" /\ w \notin blocked
  /\ \/ /\ NothingToSend(w) /\ cache[EntryOf(w)].status = "INVALID"
        /\ GiveUp(w, EntryBehind(w))
     \/ /\ NothingToSend(w) /\ cache[EntryOf(w)].status # "INVALID"
        /\ blocked' = blocked \cup {w}
        /\ UNCHANGED <<allConnectionsCount, pc, todo, loaded, copied, connections, cacheVars,
                       fault, history>>
     \/ /\ ~NothingToSend(w)
        /\ Goto(w, "copy")
        /\ UNCHANGED <<allConnectionsCount, todo, blocked, loaded, copied, connections,
                       cacheVars, fault, history>>

(* The entry is copied and its data are sent from, without its mutex.      *)
Copy(w) ==
  /\ Handling
  /\ pc[w] = "copy"
  /\ copied' = [copied EXCEPT ![w] = cache[EntryOf(w)]]
  /\ Goto(w, "send")
  /\ UNCHANGED <<allConnectionsCount, todo, blocked, loaded, connections, cacheVars,
                 fault, history>>

(* Mutant of Offset: the part that was sent last is sent once more.        *)
OffsetBefore(c) == IF c.cacheBytesWritten = 0 THEN 1 ELSE c.cacheBytesWritten

Offset(c) == c.cacheBytesWritten + 1

SendCached(w) ==
  LET c == Connection(w)
      entry == copied[w]
      more == entry.alreadyWritten > c.cacheBytesWritten
      d == IF more THEN [c EXCEPT !.cacheBytesWritten = @ + 1] ELSE c
      s == [connections[w] EXCEPT ![Serving(w)] = d]
  IN  /\ Handling
      /\ pc[w] = "send"
      /\ \/ /\ c.client \in gone
            /\ Drop(w)
            /\ copied' = [copied EXCEPT ![w] = Fresh]
            /\ UNCHANGED <<blocked, loaded, cacheVars, fault, misled, raced, reclaimed>>
         \/ /\ entry.memory # "alloc" \/ entry.alreadyWritten < c.cacheBytesWritten
            /\ Fault("freed data")
         \/ /\ entry.memory = "alloc" /\ entry.alreadyWritten >= c.cacheBytesWritten
            /\ misled' = \/ misled
                         \/ /\ more
                            /\ entry.data[Offset(c)] # <<wants[c.client], c.cacheBytesWritten + 1>>
            /\ IF d.cacheBytesWritten = cache[c.cacheIndex].allSize
               THEN Leave(w, s, cache) ELSE Keep(w, s)
            /\ copied' = [copied EXCEPT ![w] = Fresh]
            /\ UNCHANGED <<blocked, loaded, cacheVars, fault, raced, reclaimed>>
-----------------------------------------------------------------------------
Serve(w) ==
  /\ Handling
  /\ pc[w] = "serve"
  /\ \/ GettingRequest(w) \/ ConnectingToServer(w) \/ WritingRequest(w)
     \/ ForwardingRequest(w) \/ ForwardingResponse(w) \/ RespondingFromCache(w)

work(w) ==
  \/ Queueing(w) \/ Poll(w) \/ Serve(w)
  \/ Reclaim(w) \/ Load(w) \/ Store(w) \/ Index(w)
  \/ Blocked(w) \/ Copy(w) \/ SendCached(w)

ClientLeaves(c) ==
  /\ Running
  /\ c \in (leavers \cap came) \ gone
  /\ gone' = gone \cup {c}
  /\ UNCHANGED <<queueVars, allConnectionsCount, pc, todo, threadVars, connections,
                 cacheVars, fault, history>>

Next ==
  \/ MainThread
  \/ \E w \in Workers : work(w)
  \/ \E c \in Clients : ClientLeaves(c)

Spec == Init /\ [][Next]_vars

(* main and the workers run.                                               *)
FairSpec == Spec /\ WF_vars(MainThread) /\ \A w \in Workers : WF_vars(work(w))
-----------------------------------------------------------------------------
Held == UNION {{w} \X (1 .. Own(w)) : w \in Workers}

(* allConnectionsCount, from which a worker's share is computed, counts    *)
(* the sockets in the queue and the connections of all the workers, but    *)
(* for one that main has put and not counted yet: dropConnection is called *)
(* once for each, by every path.                                           *)
CountExact ==
  allConnectionsCount + (IF main = "count" THEN 1 ELSE 0) = Cardinality(Held) + Len(queue)

(* What a client is sent from the cache is the response to its URL from    *)
(* its beginning on, no unit lost, repeated or another's, unless two       *)
(* workers were in searchCache at once or an entry was claimed again.      *)
ReaderPrefix == ~raced /\ reclaimed = {} => ~misled

(* A valid entry holds the whole response to its URL, under the same       *)
(* conditions.                                                             *)
CacheExact ==
  ~raced => \A e \in Entries \ reclaimed :
    cache[e].status = "VALID" =>
      /\ cache[e].alreadyWritten = cache[e].allSize /\ Len(cache[e].data) = cache[e].allSize
      /\ \A k \in DOMAIN cache[e].data : cache[e].data[k] = <<cache[e].url, k>>

Writers(e) == {w \in Workers : \E i \in DOMAIN connections[w] :
                 connections[w][i].status \in Writing /\ connections[w][i].cacheIndex = e}

Cared(e, S) == e \in abandoned \cup reclaimed \/ Writers(e) \cap S # {}

(* A connection that waits for data of its own thread, and a worker that   *)
(* sleeps on an entry, wait for a connection that still writes that entry, *)
(* and there is nothing to send meanwhile, unless the entry was abandoned  *)
(* by its writer, claimed again, or claimed by two.                        *)
WaitersCared ==
  ~raced =>
    \A w \in Workers :
      /\ \A i \in DOMAIN connections[w] :
           LET c == connections[w][i]
           IN  c.status = "WAITING_DATA_ON_CACHE" => Cared(c.cacheIndex, {w})
      /\ w \in blocked => NothingToSend(w) /\ Cared(EntryOf(w), Workers)

(* A client that main accepted becomes a connection of a worker.           *)
AcceptedServed ==
  \A c \in Clients :
    c \in came ~> \E w \in Workers : \E i \in DOMAIN connections[w] : connections[w][i].client = c
=============================================================================
