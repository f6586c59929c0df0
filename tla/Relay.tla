------------------------------- MODULE Relay -------------------------------
(***************************************************************************)
(* Lab25: one thread relays bytes between clients and a backend, with a    *)
(* select() loop over a doubly linked list of connections.  A round of the *)
(* loop walks the list to build the fd sets ("mask"), sleeps in select(),  *)
(* walks the list again to serve what is ready ("serve"), and accepts at   *)
(* most one client ("accept").                                             *)
(*                                                                         *)
(* A buffer holds at most one chunk: 0 stands for a count of 0, k for the  *)
(* k-th chunk of the direction, and Garbage for a recv of -1, which the    *)
(* code stores into a size_t count.  connection_drop frees the node whose  *)
(* next the loop reads afterwards: it finds the old pointer, or the null   *)
(* that free() writes there.  The sockets block, so a send that begins is  *)
(* complete or fails.  What a descriptor of the kernel does is external.   *)
(***************************************************************************)
EXTENDS Integers, Sequences, FiniteSets

CONSTANTS
  Cells,                (* the memory cells a Connection may get           *)
  Nil,                  (* the null pointer                                *)
  NO_UPDATE_LIMIT_SEC,  (* seconds without traffic before a drop           *)
  FD_SETSIZE,           (* descriptors from here on do not fit an fd_set   *)
  Limits,               (* how many descriptors the process may have       *)
  Chunks,               (* bound: chunks a peer sends on a cell, each way  *)
  Ends                  (* bound: the peers that may close or reset        *)

ASSUME RelayAssumption ==
  /\ Nil \notin Cells
  /\ NO_UPDATE_LIMIT_SEC \in Nat
  /\ FD_SETSIZE \in Nat /\ Limits \subseteq Nat \ {0}
  /\ Chunks \in [Cells -> [{"up", "down"} -> Nat]]
  /\ Ends \subseteq Cells \X {"up", "down"}

VARIABLES
  pc, iter,             (* where the loop is, and its connection variable  *)
  connections,          (* the head of the list                            *)
  live, next, prev,     (* the allocated cells and their links             *)
  fd,                   (* client_fd and backend_fd of a cell              *)
  open, limit,          (* the process's open descriptors, and how many it *)
                        (* may have                                        *)
  count,                (* the buffer of each direction of a cell          *)
  is_broken, age,       (* age: seconds since last_update                  *)
  readfds, writefds,
  disposed,             (* SIGINT or SIGTERM closed the listening socket   *)
  peer, sent,           (* the other end of a descriptor, chunks it sent   *)
  got, delivered,       (* history: chunks received, and what was sent on  *)
  waiting               (* clients in the backlog                          *)

Connection == <<next, prev, fd, count, is_broken, age>>
list == <<connections, live, next, prev, fd, open, limit>>
peers == <<peer, sent, waiting>>
history == <<got, delivered>>
vars == <<pc, iter, list, count, is_broken, age, readfds, writefds, disposed,
          peers, history>>

Directions == {"up", "down"}    (* client to backend, and back             *)
Frontend == 0                   (* the number of frontend_fd               *)
Garbage == -1
Old == NO_UPDATE_LIMIT_SEC + 1  (* an age that is over the limit           *)

Source(c, d) == fd[c][d]
Other(d) == IF d = "up" THEN "down" ELSE "up"
Target(c, d) == fd[c][Other(d)]
Lowest(used) == CHOOSE n \in 1 .. Cardinality(used) + 1 :
                  n \notin used /\ \A m \in 1 .. n - 1 : m \in used

Init ==
  /\ pc = "mask" /\ iter = Nil
  /\ connections = Nil /\ live = {}
  /\ next = [c \in Cells |-> Nil] /\ prev = [c \in Cells |-> Nil]
  /\ fd = [c \in Cells |-> [d \in Directions |-> Frontend]]
  /\ open = {Frontend} /\ limit \in Limits
  /\ count = [c \in Cells |-> [d \in Directions |-> 0]]
  /\ is_broken = [c \in Cells |-> FALSE] /\ age = [c \in Cells |-> 0]
  /\ readfds = {Frontend} /\ writefds = {}
  /\ disposed = FALSE
  /\ peer = [c \in Cells |-> [d \in Directions |-> "open"]]
  /\ sent = [c \in Cells |-> [d \in Directions |-> 0]]
  /\ got = [c \in Cells |-> [d \in Directions |-> 0]]
  /\ delivered = [c \in Cells |-> [d \in Directions |-> <<>>]]
  /\ waiting = 0
-----------------------------------------------------------------------------
(* Mutant of Unlink: the neighbour keeps its old prev.                     *)
UnlinkForward(c) ==
  /\ connections' = IF c = connections THEN next[c] ELSE connections
  /\ next' = [x \in Cells |-> IF c # connections /\ x = prev[c]
                              THEN next[c] ELSE IF x = c THEN Nil ELSE next[x]]
  /\ prev' = [prev EXCEPT ![c] = Nil]

Unlink(c) ==
  /\ connections' = IF c = connections THEN next[c] ELSE connections
  /\ next' = [x \in Cells |-> IF c # connections /\ x = prev[c]
                              THEN next[c] ELSE IF x = c THEN Nil ELSE next[x]]
  /\ prev' = [x \in Cells |-> IF next[c] # Nil /\ x = next[c]
                              THEN prev[c] ELSE IF x = c THEN Nil ELSE prev[x]]

(* Mutant of Closed: the backend's descriptor is forgotten.                *)
ClosedClient(c) == {Source(c, "up")}
Closed(c) == {Source(c, "up"), Source(c, "down")}

(* connection_drop, and the loop's read of the freed node's next.  What    *)
(* the freed cell held is forgotten: no one reads it.                      *)
MaskDrop ==
  /\ pc = "mask" /\ iter # Nil
  /\ is_broken[iter] \/ age[iter] = Old
  /\ Unlink(iter)
  /\ live' = live \ {iter}
  /\ open' = open \ Closed(iter)
  /\ iter' \in {next[iter], Nil}
  /\ fd' = [fd EXCEPT ![iter] = [d \in Directions |-> Frontend]]
  /\ count' = [count EXCEPT ![iter] = [d \in Directions |-> 0]]
  /\ is_broken' = [is_broken EXCEPT ![iter] = FALSE]
  /\ age' = [age EXCEPT ![iter] = 0]
  /\ peer' = [peer EXCEPT ![iter] = [d \in Directions |-> "open"]]
  /\ sent' = [sent EXCEPT ![iter] = [d \in Directions |-> 0]]
  /\ got' = [got EXCEPT ![iter] = [d \in Directions |-> 0]]
  /\ delivered' = [delivered EXCEPT ![iter] = [d \in Directions |-> <<>>]]
  /\ UNCHANGED <<pc, limit, readfds, writefds, disposed, waiting>>

(* Mutant of ToRead: a direction is read whether or not its buffer was     *)
(* sent on.                                                                *)
ToReadAlways(c) == {Source(c, d) : d \in Directions}

(* A direction is read when its buffer is empty and written when it is not. *)
ToRead(c) == {Source(c, d) : d \in {e \in Directions : count[c][e] = 0}}
ToWrite(c) == {Target(c, d) : d \in {e \in Directions : count[c][e] # 0}}

(* update_max_fd_or_except: a descriptor that does not fit an fd_set.      *)
Unfit(n) == n + 1 > FD_SETSIZE

(* A descriptor that does not fit ends the process.                        *)
MaskWatch ==
  /\ pc = "mask" /\ iter # Nil
  /\ ~is_broken[iter] /\ age[iter] # Old
  /\ IF \E d \in Directions : Unfit(fd[iter][d])
     THEN pc' = "exit" /\ UNCHANGED <<iter, readfds, writefds>>
     ELSE /\ readfds' = readfds \cup ToRead(iter)
          /\ writefds' = writefds \cup ToWrite(iter)
          /\ iter' = next[iter]
          /\ UNCHANGED pc
  /\ UNCHANGED <<list, count, is_broken, age, disposed, peers, history>>

MaskEnd ==
  /\ pc = "mask" /\ iter = Nil
  /\ pc' = "select"
  /\ UNCHANGED <<iter, list, count, is_broken, age, readfds, writefds, disposed,
                 peers, history>>

(* What recv or accept would not block on.                                 *)
Readable ==
  LET pending == {x \in live \X Directions :
                    peer[x[1]][x[2]] # "open" \/ got[x[1]][x[2]] < sent[x[1]][x[2]]}
  IN  {Source(x[1], x[2]) : x \in pending}
        \cup (IF waiting > 0 THEN {Frontend} ELSE {})

(* Mutant of NextRound: the fd sets keep what the last round put in them.  *)
NextRoundStale ==
  /\ pc' = "mask" /\ iter' = connections'
  /\ readfds' = readfds \cup {Frontend} /\ writefds' = writefds

(* The loop starts over: both sets are cleared, the listener is watched.   *)
NextRound ==
  /\ pc' = "mask" /\ iter' = connections'
  /\ readfds' = {Frontend} /\ writefds' = {}

(* select: what is readable is reported, and any of the writable ones.     *)
(* When nothing is, the timeout passes; a closed listener is an error, as  *)
(* is the signal itself.                                                   *)
Select ==
  /\ pc = "select"
  /\ UNCHANGED <<list, count, is_broken, age, disposed, peers, history>>
  /\ \/ /\ disposed
        /\ pc' = "exit"
        /\ UNCHANGED <<iter, readfds, writefds>>
     \/ /\ ~disposed
        /\ \E ready \in SUBSET writefds :
             IF ready \cup (readfds \cap Readable) = {}
             THEN NextRound
             ELSE /\ pc' = "serve" /\ iter' = connections
                  /\ readfds' = readfds \cap Readable
                  /\ writefds' = ready
-----------------------------------------------------------------------------
(* The result of recv: the next chunk, the end of the stream, or an error. *)
Received(c, d) ==
  IF peer[c][d] = "reset" THEN Garbage
  ELSE IF got[c][d] < sent[c][d] THEN got[c][d] + 1 ELSE 0

Reads(c, d) == Source(c, d) \in readfds
Writes(c, d) == Target(c, d) \in writefds

(* Mutant of Updated: any served descriptor counts as traffic.             *)
UpdatedAtEof(c, ok) ==
  \E d \in Directions : Reads(c, d) \/ (Writes(c, d) /\ ok[d])

(* connection_is_updated at the end of the body: a recv that is not the    *)
(* end of the stream, or a send.                                           *)
Updated(c, ok) ==
  \E d \in Directions : \/ Reads(c, d) /\ Received(c, d) # 0
                        \/ Writes(c, d) /\ ok[d]

(* The body of the second walk for one connection: the way up, then the    *)
(* way down.  A failed send breaks the connection and leaves the body, so  *)
(* nothing after it is done.  ok[d]: the send of direction d succeeds.     *)
Serve ==
  /\ pc = "serve" /\ iter # Nil
  /\ \E ok \in [Directions -> BOOLEAN] :
       LET upFails == Writes(iter, "up") /\ ~ok["up"]
           fails == upFails \/ (Writes(iter, "down") /\ ~ok["down"])
           done == IF upFails THEN {"up"} ELSE Directions
           reads == {d \in done : Reads(iter, d)}
           sends == {d \in done : Writes(iter, d) /\ ok[d]}
       IN  /\ count' = [count EXCEPT ![iter] = [d \in Directions |->
                          IF d \in sends THEN 0
                          ELSE IF d \in reads THEN Received(iter, d) ELSE @[d]]]
           /\ got' = [got EXCEPT ![iter] = [d \in Directions |->
                        IF d \in reads /\ Received(iter, d) > 0
                        THEN Received(iter, d) ELSE @[d]]]
           /\ peer' = [peer EXCEPT ![iter] = [d \in Directions |->
                         IF d \in reads /\ @[d] = "reset" THEN "closed" ELSE @[d]]]
           /\ delivered' = [delivered EXCEPT ![iter] = [d \in Directions |->
                              IF d \in sends THEN Append(@[d], count[iter][d])
                              ELSE @[d]]]
           /\ is_broken' = [is_broken EXCEPT ![iter] = @ \/ fails]
           /\ age' = [age EXCEPT ![iter] =
                        IF ~fails /\ Updated(iter, ok) THEN 0 ELSE @]
  /\ iter' = next[iter]
  /\ UNCHANGED <<pc, list, readfds, writefds, disposed, sent, waiting>>

ServeEnd ==
  /\ pc = "serve" /\ iter = Nil
  /\ pc' = "accept"
  /\ UNCHANGED <<iter, list, count, is_broken, age, readfds, writefds, disposed,
                 peers, history>>

(* connection_create: the new node becomes the head.                       *)
Create(c, client, backend) ==
  /\ live' = live \cup {c}
  /\ connections' = c
  /\ next' = [next EXCEPT ![c] = connections]
  /\ prev' = [x \in Cells |-> IF x = c THEN Nil
                              ELSE IF x = connections THEN c ELSE prev[x]]
  /\ fd' = [fd EXCEPT ![c] = [up |-> client, down |-> backend]]
  /\ open' = open \cup {client, backend}
  /\ UNCHANGED limit

(* get_socket_fd_or_except, with the descriptors in use: a socket whose    *)
(* connect fails is closed and the next address is tried, with the same    *)
(* descriptor; after the last one the process ends; and where socket()     *)
(* fails for want of a descriptor it is called again, for ever.  With a    *)
(* descriptor the connection is created and the round is over.             *)
get_socket_fd_or_except(used, c, client) ==
  IF Cardinality(used) >= limit
  THEN pc' = "spin" /\ UNCHANGED <<iter, readfds, writefds, list>>
  ELSE \/ pc' = "exit" /\ UNCHANGED <<iter, readfds, writefds, list>>
       \/ Create(c, client, Lowest(used)) /\ NextRound

(* on_client_connect: a failed accept, or a backend that cannot be         *)
(* connected to, ends the process and every connection with it.            *)
Accept ==
  /\ pc = "accept"
  /\ UNCHANGED <<count, is_broken, age, disposed, peer, sent, history>>
  /\ \/ /\ Frontend \notin readfds
        /\ UNCHANGED <<list, waiting>>
        /\ NextRound
     \/ /\ Frontend \in readfds
        /\ pc' = "exit"
        /\ UNCHANGED <<iter, readfds, writefds, list, waiting>>
     \/ /\ Frontend \in readfds /\ ~disposed /\ Cardinality(open) < limit
        /\ waiting' = waiting - 1
        /\ \E c \in Cells \ live :
             get_socket_fd_or_except(open \cup {Lowest(open)}, c, Lowest(open))

Loop == MaskDrop \/ MaskWatch \/ MaskEnd \/ Select \/ Serve \/ ServeEnd \/ Accept
-----------------------------------------------------------------------------
(* A second passes.  Ages above the limit are not told apart.              *)
Tick ==
  /\ pc \notin {"exit", "spin"}
  /\ age' = [c \in Cells |-> IF c \in live /\ age[c] < Old THEN age[c] + 1
                             ELSE age[c]]
  /\ UNCHANGED <<pc, iter, list, count, is_broken, readfds, writefds, disposed,
                 peers, history>>

(* The backlog is bounded by the cells that are left.                      *)
Arrive ==
  /\ pc = "select" /\ waiting + Cardinality(live) < Cardinality(Cells)
  /\ waiting' = waiting + 1
  /\ UNCHANGED <<pc, iter, list, count, is_broken, age, readfds, writefds, disposed,
                 peer, sent, history>>

PeerSends(c, d) ==
  /\ peer[c][d] = "open" /\ sent[c][d] < Chunks[c][d]
  /\ sent' = [sent EXCEPT ![c][d] = @ + 1]
  /\ UNCHANGED peer

PeerCloses(c, d) ==
  /\ <<c, d>> \in Ends /\ peer[c][d] = "open"
  /\ peer' = [peer EXCEPT ![c][d] = "closed"]
  /\ UNCHANGED sent

(* A reset discards what the relay has not received yet.                   *)
PeerResets(c, d) ==
  /\ <<c, d>> \in Ends /\ peer[c][d] = "open"
  /\ peer' = [peer EXCEPT ![c][d] = "reset"]
  /\ sent' = [sent EXCEPT ![c][d] = got[c][d]]

(* The other ends act while the loop sleeps in select or serves: what they *)
(* do while it is elsewhere, select and recv find as if it came there.     *)
Peer ==
  /\ pc \in {"select", "serve"}
  /\ \E c \in live, d \in Directions :
       PeerSends(c, d) \/ PeerCloses(c, d) \/ PeerResets(c, d)
  /\ UNCHANGED <<pc, iter, list, count, is_broken, age, readfds, writefds, disposed,
                 history, waiting>>

(* at_exit, the handler of SIGINT and SIGTERM; select and accept see it.   *)
Dispose ==
  /\ pc \in {"select", "accept"} /\ ~disposed
  /\ disposed' = TRUE
  /\ open' = open \ {Frontend}
  /\ UNCHANGED <<pc, iter, connections, live, Connection, limit, readfds, writefds, peers,
                 history>>

Exited == pc \in {"exit", "spin"} /\ UNCHANGED vars

Next == Loop \/ Tick \/ Arrive \/ Peer \/ Dispose \/ Exited

Spec == Init /\ [][Next]_vars

(* The thread and the clock go on; clients do not come in for ever.        *)
FairSpec ==
  /\ Spec
  /\ WF_vars(Loop)
  /\ WF_vars(Tick)
  /\ <>[][~Arrive]_vars
-----------------------------------------------------------------------------
(* The list holds every connection once, and both chains agree: a drop     *)
(* from any place, followed by a create, never loses or doubles one.       *)
ListSound ==
  \E s \in [1 .. Cardinality(live) -> live] :
    /\ \A i, j \in DOMAIN s : s[i] = s[j] => i = j
    /\ connections = IF live = {} THEN Nil ELSE s[1]
    /\ \A i \in DOMAIN s :
         /\ next[s[i]] = IF i = Cardinality(live) THEN Nil ELSE s[i + 1]
         /\ prev[s[i]] = IF i = 1 THEN Nil ELSE s[i - 1]

(* A descriptor is open exactly while its connection is in the list: a     *)
(* drop closes both, and no two connections share one.                     *)
DescriptorsOwned ==
  /\ open \ {Frontend} = {fd[c][d] : c \in live, d \in Directions}
  /\ \A c, b \in live : \A d, e \in Directions :
       fd[c][d] = fd[b][e] => c = b /\ d = e

(* Each direction is a FIFO of one place: what was sent on is what was     *)
(* received, in order and once, up to the chunk in the buffer.  Only after *)
(* a recv failed may one more send, of bytes nobody sent, end the stream.  *)
InOrder ==
  \A c \in live, d \in Directions :
    LET held == IF count[c][d] > 0 THEN 1 ELSE 0
        passed == [k \in 1 .. got[c][d] - held |-> k]
    IN  /\ count[c][d] > 0 => count[c][d] = got[c][d]
        /\ \/ delivered[c][d] = passed
           \/ delivered[c][d] = Append(passed, Garbage) /\ peer[c][d] = "closed"

(* Once a send failed, nothing more is received from or sent to either end *)
(* of the connection, although it stays in the list for a round or more.   *)
BrokenIsSilent ==
  [][\A c \in live : is_broken[c] /\ c \in live' =>
       got'[c] = got[c] /\ delivered'[c] = delivered[c]]_vars

(* A connection without traffic does not stay: when nothing is on its way  *)
(* and its ends send nothing more, closed or not, it is dropped or the     *)
(* process ends, although a walk may stop at the first drop and a closed   *)
(* end makes select() return at once in every round.  Only a client that   *)
(* came with the last descriptor stops all this.                           *)
Quiet(c) ==
  \A d \in Directions :
    count[c][d] = 0 /\ got[c][d] = sent[c][d] /\ peer[c][d] # "reset"

IdleDropped ==
  \A c \in Cells :
    (c \in live /\ Quiet(c)) ~> (c \notin live \/ ~Quiet(c) \/ pc \in {"exit", "spin"})
=============================================================================
