# OS-POSIX: a verification development

The repository is a set of exercises in POSIX threads, in C: first threads and
cancellation, series for pi, alternating threads, dining philosophers, lists,
a tree copy, a production line, message queues, a relay on `select()`, a caching
HTTP proxy. It has no documentation and no tests; what a program is meant to do
is read from its code, its comments and the messages it prints. This directory
models all of its programs in TLA+, checks them with TLC on small instances, and
proves with TLAPS, for all sizes, the safety of the message queues, the dinners,
the relay, the proxy and all but one of the small programs.

## 1. Inventory

Every program is a process of its own. Inside a process the components meet in
shared variables under mutexes, semaphores and condition variables; the outside
comes in through SIGINT, the alarm, the file system and sockets.

| Component (code) | State | Operations | What is hard | What makes it correct | Status |
|---|---|---|---|---|---|
| Message queue on one condition variable (`Lab24/main.c`) | `head`, `tail`, `mesCount`, `isDroped`, one mutex, one condition variable, `pleaseQuit` | `mymsgput`, `mymsgget`, `mymsqdrop`, `mymsgdestroy`; producers, consumers, `main`, SIGINT | two kinds of sleepers on one variable; broadcasts only at the edges 0 and 10; drop with threads inside | bounded FIFO; no lost wakeup; destroy frees what is left once and alone; drop ends all | modelled, proved |
| Message queue on semaphores (`Lab23/main.c`) | the list, `isEmpty`, `isFull`, `global`, `isDroped`, `pleaseQuit` | as above, one `sem_wait`/`sem_post` at a time | room is claimed before the list is locked; one token per semaphore wakes any number at the drop; flag tested before `pause()` | tokens add up; bounded FIFO; drop ends all | modelled, proved |
| Message queue, condition-variable build (`Lab23-24/cond_implementation`) | `in`, `out`, `messages_count`, `is_destroyed`, mutex, condition variable | `message_queue_put/get/drop`, the joins of `Lab23-24/main.c` | `is_destroyed` is written without the mutex; the list is freed while threads run, and its ends stay | every node has one owner; FIFO; drop ends all | modelled, proved |
| Message queue, semaphore build (`Lab23-24/sem_implementation`) | as above with `sem_put`, `sem_get` | the same | the flag is tested before the mutex; the drop walks the list without it; a message is measured after it was posted | as above, but for threads the drop caught | modelled, proved |
| Philosophers (`Lab9/main.c`, `din_phil.c`, `smartPhilo.c`, `Lab21/main.c`) | forks (mutexes), `lForks`, `phils_states` and their conditions, `pthreadCond`, the static `food` | `main`, `food_on_table`, `get_fork(s)`, `down_forks`, `test` | circular waits; a wait without a loop; a broadcast without a mutex | neighbours do not eat together; portions counted; all finish | modelled, proved |
| Relay on `select()` (`Lab25`) | list of connections, two one-place buffers each, `fd_set`s, descriptors | mask walk, `select`, serve walk, `on_client_connect`, `connection_drop`, `at_exit` | `next` of a freed node; `recv` of -1 in a `size_t`; end of stream readable for ever; descriptors near `FD_SETSIZE` | list and descriptors sound; each direction in order and once; broken is silent; idle is dropped | modelled, proved |
| Caching proxy, socket queue (`Lab31/services/queue`, `services/threadpool`, `main.c`) | linked queue of sockets, `checkSizeMutex`, a condition, `allConnectionsCount` | `putSocketInQueue`, `getSocketFromQueue`, `initQueue`/`clearQueue`, the accepts of `main` | a mutex locked twice by one thread; a socket counted after it was put | every accepted socket is counted once and reaches one worker | modelled, proved |
| Caching proxy, cache and connections (`Lab31/main.c`) | entries with one writer and many readers; poll set and connections of each worker | `work` with its handlers, `searchCache`, `makeCacheInvalid`, `dropConnection` | search and claim without a lock; a copied entry that is freed; arrays that shift; a place that is used after the connection in it was dropped; a writer that fails while readers wait | one writer per entry; readers get a prefix; who waits is cared for | modelled, proved |
| Concurrent copy of a tree (`Lab6`) | descriptors, one detached thread per entry | `copyDirectory`, `copyFile`, `cpFunction` | retries on EMFILE while holding a descriptor; errors in threads nobody joins | ends; every file copied or told of; nothing left open | modelled, proved |
| Sorted list (`Lab16`; `Lab17` with a mutex in each node) | list, mutexes, alarm | push, print, sort, free | a node left locked between two passes; a list freed under the sorter | strings are kept; a finished pass is sorted | modelled, proved |
| Production line (`Lab22`) | four semaphores | makers of A, B, C, modules, widgets | parts in hand and parts counted | every part ends in a widget | modelled |
| Alternating threads (`Lab10`, `Lab12`, `Lab13`) | three mutexes; mutex and condition; two semaphores | the prints of parent and child, the create | the order of hand-overs; wait without a loop | lines alternate; both finish | modelled, proved |
| Series for pi with a barrier (`Lab8`) | `flag`, `max_iter`, a barrier, per-thread counters | `calculate`, SIGINT, creates, joins | how far each must catch up; index at the `break` | shares are equal; all pass the barrier | modelled, proved |
| Series for pi with a partition (`Lab7`) | per-thread sums | one loop per thread, creates, joins | shares that are not whole; a create that fails | every term once | modelled, proved |
| First threads (`Lab1`, `Lab2`, `Lab3`), cancellation (`Lab4`, `Lab5`) | lines printed; cancellation state, alarm, flag | create, print, join, cancel, test | a request that acts in the middle of an output | whole outputs; all end | modelled, proved |
| Argument check (`Lab31/services/argschecker`), console helpers, `Lab11` | - | exit with a message; colours; an empty file | - | - | not modelled |

Generated files (`cmake-build-debug`, `.idea`, `a.out`) are left aside; the
`CMakeCCompilerId.c` files there are CMake's, not the project's.

## 2. Modules

| Module | Models | State and actions |
|---|---|---|
| `MessageList` | the doubly linked list of the four queues | pointers as functions on cells; `PushHead`, `PopTail`, `Walked`; the predicate `Linked(l, s)`: the pointers stand for the sequence `s` |
| `BoundedFifo` | what a queue promises | `Put`, `Get`, `Close` on a sequence; written from the promise the four queues share, not from any of them |
| `CondQueue` | `Lab24/main.c` | `pc` is the place in the code; a critical section from a test to its unlock or wait is one action (all shared data is under the mutex), lock, block and relock are actions of their own |
| `SemQueue` | `Lab23/main.c` | every `sem_wait` and `sem_post` is an action, in source order |
| `MessageQueueCond` | `Lab23-24/cond_implementation/message_queue.c` and the harness | as `CondQueue`, with the tests of `is_destroyed` split from the waits, because the flag can rise between them; memory cells are allocated, freed and used again |
| `MessageQueueSem` | `Lab23-24/sem_implementation/message_queue.c` and the harness | as `SemQueue`, and the `strlen` behind the post of a put is an action; work on a list with freed nodes raises `corrupt`, and a `strlen` of a freed node may raise `overread`, after which the modelled process takes no more steps of interest (the language leaves them undefined) |
| `MCMessageQueue` | the harness with the build it is linked with | extends the condition-variable build and has the semaphore build as an instance; a choice of build in the initial state |
| `Dinner`, `ForkDinner` | what the dinners share: `main`'s creates, joins and destroys, the portions; fork mutexes | `Create`, `Join`, `FoodOnTable`, `GetFork`, `DownLeft`, `DownRight` |
| `WaiterDinner`, `SmartDinner`, `NaiveDinner`, `TrylockDinner` | `Lab9/main.c`, `Lab9/smartPhilo.c`, `Lab9/din_phil.c`, `Lab21/main.c` | one action per lock, trylock, unlock, wait, broadcast; for `smartPhilo` one per critical section |
| `Relay` | `Lab25` | one action per iteration of each walk, one per `select`, one per accept; the kernel and the peers are environment actions |
| `Proxy` | `Lab31` | one action per handler of a ready connection; where a handler touches the cache outside a mutex it is split, so that another worker can come between (`Reclaim`, `Load`, `Store`, `Index`; `Blocked`, `Copy`, `SendCached`); `fault` names what the language leaves undefined |
| `Turns`, `MutexTurns`, `CondTurns`, `SemTurns` | `Lab10`, `Lab12`, `Lab13` | one action per lock, unlock, wait, post and print, and the create |
| `PiBarrier` | `Lab8` | a block of terms, the agreement on `max_iter`, the barrier, the catching up, creates, joins and cancels; a term is counted, not added |
| `PiShares` | `Lab7` | one action per term, create, join and cancel; a sum is the terms in it |
| `FirstThreads`, `Cancel` | `Lab1`-`3`; `Lab4`, `Lab5` | one action per line or word, create, cancel, test, handler, join |
| `CopyTree` | `Lab6` | one action per system call of each thread, with its failures; the tree is a constant, its kinds of entries are chosen in the initial state |
| `SortedList`, `LockedNodes` | `Lab16`; `Lab17` | one action per critical section in Lab16; per lock, comparison and half of an exchange in Lab17 |
| `ProductionLine` | `Lab22` | one action per part, wait and post |
| `MC*` | instances for TLC | constants; `MCDinner`, `MCLabs` and `MCMessageQueue` hold a choice of program made in the initial state, and each step leaves the variables of the others alone; `MCProxy` chooses scenes of clients |
| `*Proofs` | proofs | see section 5 |

How they compose: the four queues extend `MessageList` and each is shown to
implement `BoundedFifo` (`ImplementsFifo`, by `INSTANCE ... WITH stored <-
buffer, open <- ~isDroped` or its like). `buffer` is a history variable: the
messages in the order of the puts. In `CondQueue`, `ListFaithful` ties it to
the pointers; in the others a `Get` takes the message the pointers lead to, and
the refinement fails unless it is the oldest. `Proxy` composes the socket
queue, the workers and their cache in one module, since each handler touches
all three.

Signals are actions that are enabled at any place where the code can see their
effect. SIGINT takes a thread out of `pause()` only if it is already there.

A `pthread_create` may fail in the models of all programs that look at its result
(section 6 names the exceptions), and what `main` does then is modelled
up to the point where it uses an identifier that was never written.

## 3. Runs

| Run | Instance | What it shows |
|---|---|---|
| `condqueue` | 2 producers of 2 messages, 2 consumers, limit 2 | `TypeOK`, `ListFaithful`, `WaitersJustified` (no lost wakeup), `DestroyExact`, `ImplementsFifo`, `DropTerminates`, `Delivered` |
| `semqueue` | the same | `TypeOK`, `TokensConserved`, `ImplementsFifo`, `DropTerminates`, `Delivered` |
| `semqueue_pause` | 1 producer, 1 consumer | violated: `QuitHeeded`, see Findings |
| `msgqueue` | condition variable: 2 producers, 2 consumers, limit 1, 3 cells; semaphores: 1 producer, 2 consumers, limit 2 | `EitherTypeOK`, `OneOwnerOnCond`, `IntactUnlessCaught`, `ImplementsFifo`, `EitherDropTerminates` |
| `msgqueue_cond_drop` | 1 and 1, limit 1 | violated: `DropTerminates` |
| `dinner` | 4 philosophers, 5 portions, three programs | `DishesExact`, `Exclusion`, `SleepersJustified`, `NoForkKept`, `AllLeave` |
| `dinner_naive` | 5 philosophers, 6 portions | violated: `NoCircle` |
| `dinner_trylock` | 3 philosophers, 4 portions | violated: `TrylockLeave` |
| `relay` | 2 connections, idle limit 1 s, 4 or 5 descriptors | `ListSound`, `DescriptorsOwned`, `InOrder`, `BrokenIsSilent`, `IdleDropped` |
| `labs` | the small programs, one at a time; sizes below | `InTurn`, `SharesEqual`, `OutputWhole`, `ListIntact`, `NothingLost`, `BothFinish`, `SumPrinted`, `CopyEnds`, `WidgetsMade` |
| `proxy` | 2 workers, 2 or 3 clients, cache of 1 or 2 entries, responses of 2 units | `CountExact`, `ReaderPrefix`, `CacheExact`, `WaitersCared` |
| `proxy_relock` | 1 worker, 1 client | violated: `AcceptedServed` |

The largest are `proxy` (1,948,444 distinct states), `msgqueue` (307,898), `relay`
(122,833), `dinner` (87,018) and `labs` (75,388); each ends within three minutes.

`labs`, `proxy` and `proxy_relock` do not check for deadlock: programs end there,
and some really stop for ever (Lab12 after a spurious wakeup, Lab17's sorter and
Lab31's threads on a mutex of their own, Lab31's workers on abandoned entries);
that is what their properties are about. The other runs check it, with an
explicit stutter once the process has ended.

### Bounds, and why they are enough

* Queues. The mistakes possible are about the edges (empty, full), about who is
  woken, and about the drop meeting a thread at each place in the code. Limit 2
  has a state that is neither empty nor full and so separates the edge tests
  from tests of every value; two threads of each kind let a wakeup go to the
  wrong one. `Rounds` (1000 in the code) only repeats what 2 shows; 2 is needed
  so that one producer meets its own earlier message. In the `Lab23-24` builds
  producers go on for ever and cells are used again; for the condition-variable
  build limit 1 makes both edges the same state, the hardest case for the single
  signal, and three cells are the stored one and one in the hands of each of two
  others. On semaphores two nodes are the least for a walk that frees, and of
  two consumers one can be past its test and the other before it. For the safety
  properties the theorems lift every bound.
* Dinners. Four seats are the smallest circle with philosophers who are no
  neighbours; one more portion than seats lets one eat twice while others wait.
  The theorems lift both.
* Relay. Two nodes make every node a head, an end, and a neighbour of a dropped
  one, and with the reuse of a cell a drop is followed by a create. `Chunks` and
  `Ends` bound the traffic (two chunks up and one down on one connection, whose
  client may close or reset); ages beyond the limit are not told apart. With 4
  descriptors `socket()` fails for want of one at the second client, with 5 both
  have theirs. Two connections never reach `FD_SETSIZE` (5): the branch is there,
  but no run takes it.
* `labs`. The 10 lines of Lab10, 12 and 13 are the source's. Lab8: 3 threads and
  blocks of 2 terms, `MaxBlocks` = 3 lets two threads be two blocks apart. Lab7:
  5 terms for 3 threads, so that not all get as many. Lab22: 2 parts of a kind,
  the least with an A too many for a module. Lab6: a directory in the root and
  three more entries at two depths, of every kind the shape allows, with 2 or 4
  descriptors, where 2 are too few for a copy and the directory it is in. Lab16
  and Lab17: up to 3 strings (two equal), so that there is a node between two.
* Proxy. The scenes of `MCProxy` are those in which clients meet: two clients of
  which one may leave, with room for both; two different URLs in a cache of one,
  which is then full; three clients of the same URL, where one writes, one reads
  and one finds what they left; and two of one URL with a third of another, whose
  failure can invalidate the entry of the first two. In that last scene the
  constraint `Bounded` follows the third only until it has a response. `Size` = 2
  separates the header from the rest, and an entry that is partly written from a
  whole one.

### Fairness

Each liveness property assumes weak fairness of each thread's next step, and
nothing stronger: a runnable thread is scheduled in the end, but a mutex or
semaphore that several want may always go to another (glibc promises no order).
Spurious wakeups are allowed any number of times, not for ever. No SIGINT need
ever come, except where the property starts from it; an alarm that is set goes
off. Sleeps and naps of the programs end (they are steps of the thread). In
`Relay` the clock goes on and clients do not connect for ever; peers need never
send, read or close. `labs` assumes fairness for the programs that are to end;
Lab16 and Lab17 run for ever and have safety properties only. The fairness of
`Proxy` is used by `proxy_relock` alone: a worker polls without a timeout, so the
rest of the proxy promises nothing in time.

## 4. Findings

* `semqueue_pause`: `while (!pleaseQuit) pause();//pause() is THREAD-SAFE!!!`
  (`Lab23/main.c:215`). A SIGINT between the test and `pause()` is recorded and
  not acted on until another signal comes. Lab24 has the same loop; its model
  has the same step (`MainCheck`, `MainPause`), and its properties speak of what
  follows the drop.
* `msgqueue_cond_drop`: the drop of the condition-variable build raises
  `is_destroyed` and broadcasts without the mutex, so a thread between its test
  and its wait sleeps for ever, and `main` in its join. The passing run shows
  this is the only way: unless a thread was caught there, the drop ends all.
* `dinner_naive`: the nap of philosopher 1 that a comment relies on (`din_phil.c:54-58`)
  does not keep the five from holding a fork each.
* `dinner_trylock`: in Lab21 a philosopher whose `trylock` failed can miss the
  last broadcast, and sleep with every fork free.
* `proxy_relock`: `main` locks `checkSizeMutex` (`Lab31/main.c:861`) and calls
  `putSocketInQueue`, which locks it again (`queueService.c:56`). Where a default
  mutex blocks its holder, no accepted client is ever served. The `proxy` run
  takes both outcomes of such a lock, and shows what the rest does where it fails.

Lesser things that the passing runs state as they are: the last portion of
`food_on_table` is served to nobody (`DishesExact`); neighbours in `smartPhilo.c`
can eat together after a spurious wakeup (`Exclusion`); a spurious wakeup spoils
Lab12's turns (`InTurn`, `BothFinish`); Lab8 adds one term twice and leaves one
out (`SharesEqual`), and after a failed create waits for threads that stand at
the barrier; Lab7 then cancels and joins threads that were never created; Lab22
does not look whether a maker was created, and without one makes no widget
(`WidgetsMade`); Lab6's threads can each hold a descriptor and retry for a second
for ever (`CopyEnds`), and a `readdir_r` that fails is taken for the end of the
directory (`NothingLost`); Lab17's sorter blocks on a node it holds, or goes on
without (`ListIntact`); a failed `recv` in Lab25 may be followed by one send of
bytes nobody sent (`InOrder`); a thread past its test of `is_destroyed` in the
semaphore build can work on freed nodes (`IntactUnlessCaught`), and any put there
reads its message's text after it has posted it (`sem_implementation/message_queue.c:45`),
when a consumer may have freed it, drop or no drop (`PutLength`, `overread`); in Lab31 two
workers can claim one URL or one entry at once (`raced`), and a writer that is
dropped without a word leaves its readers waiting (`abandoned`). A send of a request
that fails invalidates the entry that has the number of the *connection*
(`main.c:580`, `592`), not the one it writes; who waits there is not always woken,
and the writer of that entry, dropped later, leaves it as it found it. An entry
that was invalid when its writer left is therefore in `abandoned` too. A worker that
gives up an invalid entry unlocks a mutex it does not hold: that of the entry
(`main.c:763`), or, when it was woken from it, that of `connections[i]` after
connection `i` was dropped (`main.c:794`), which is `cache[-1]` unless a connection
with an entry was moved there (`GiveUp`, `EntryBehind`). A server that sends more
than its Content-Length makes the copy pass the entry's block (`main.c:742`, `Overruns`).

## 5. Proofs

TLAPS proves the following for every set of threads, every limit, every number of
messages, philosophers, portions, connections, clients, files and lines. The theorems rest
on the named assumptions of the modules (the sets are finite and disjoint, the null
pointer is no thread and no message, the sizes are positive, the entries of Lab6
form a tree, an entry's -1 is no natural number, the strings of Lab16 and Lab17 are
their ranks, naturals) and on nothing else. They cover every invariant of every
passing run, every refinement, and the action property of `relay`.

| Module | Theorem | States |
|---|---|---|
| `CondQueueProofs` | `TypeCorrect` | `Spec => []TypeOK`; `mesCount` stays in `0 .. Limit` |
| | `ListCorrect` | the pointers are the FIFO, `mesCount` its length |
| | `NoLostWakeup` | `WaitersJustified`: who sleeps has a reason that still holds |
| | `NeverBothAsleep` | a producer and a consumer never sleep at the same time |
| | `DestroyCorrect` | `DestroyExact`: exactly the stored messages are freed, after all other threads have left |
| | `Refinement` | `ImplementsFifo`: initial states map to initial states, steps to steps or stutters |
| `SemQueueProofs` | `TypeCorrect`, `TokensCorrect`, `Refinement` | `TypeOK`, `TokensConserved`, `ImplementsFifo` |
| `MCMessageQueueProofs` | `CondRefinement`, `SemRefinement` | the condition-variable build implements the bounded FIFO; so does the other, until the process ends in the use of a freed node |
| | `TypeCorrect`, `OwnersCorrect`, `IntactCorrect`, `FifoCorrect` | `EitherTypeOK`, `OneOwnerOnCond`, `IntactUnlessCaught`, `ImplementsFifo` of the harness with either build |
| `MCDinnerProofs` | `ExclusionCorrect`, `SleepersCorrect`, `DishesCorrect` | `Exclusion`, `SleepersJustified`, `DishesExact` of the three dinners |
| `MCLabsProofs` | `TurnsCorrect`, `OutputCorrect`, `SharesCorrect` | `InTurn` for any number of lines; `OutputWhole`; `SharesEqual` for any number of threads, blocks and terms in a block (Lab7's five terms are the instance's) |
| | `CopyCorrect` | `NothingLost` for any tree, any number of descriptors, and whatever calls fail |
| | `ListsCorrect` | `ListIntact` for any lines and any number of pushes |
| `RelayProofs` | `ListCorrect`, `DescriptorsCorrect` | `ListSound` and `DescriptorsOwned` for any number of connections |
| | `OrderCorrect`, `BrokenCorrect` | `InOrder` for any traffic; `BrokenIsSilent`, a property of steps |
| `ProxyProofs` | `TypesCorrect`, `CountCorrect` | the types; `CountExact` for any number of workers and clients |
| | `CacheCorrect`, `ReaderCorrect` | `CacheExact` and `ReaderPrefix` for responses of any size and any cache |
| | `WaitersCorrect` | `WaitersCared`: nobody waits for an entry that no one writes, but for those in `abandoned` |
| `MessageListProofs` | `PushLinked`, `PopLinked` | the pointer operations are `Append` and `Tail` on what the list stands for, whatever its length |

**`CondQueueProofs`.** None of the properties is inductive by itself. `IInv`
conjoins them with what a thread's place says: each `pc` belongs to its kind of
thread (`Placed`), the mutex is held exactly by the thread inside a critical
section (`Holder`), whoever is in the wait set stands at a wait (`Asleep`), a
producer still running has messages to send (`Unsent`), stored messages were
sent (`Fresh`, so that the next one is a new node), `isDroped` tells where `main`
is (`Dropped`), and after the joins all others are out (`Joined`).
`WaitersJustified` is kept because at the only two places where `mesCount` leaves
an edge a broadcast empties the wait set, and a thread blocks only at its edge;
with `Limit > 0` the two edges differ, which gives `NeverBothAsleep`. One lemma
per group of actions shows that it preserves `IInv`; `NextInv` puts them
together. That `mymsgdestroy` frees all that is stored (`DestroyExact`) needs a
walk of any length: in place of an induction, `DownTo1` takes a smallest set in a
finite family ordered by inclusion.

**`SemQueueProofs`.** The code never compares a count of messages with the
limit, so that there is room at a store, and a message at a take, follows only
from the tokens. The proof counts threads by place (`Count(f, labels)`, a
cardinality): `CountMove` says how the count changes when one thread moves, and each
action then keeps both sums of `TokensConserved`. With one thread at most past
`global`, and tokens not negative, the store finds room and the take a message,
which gives `TypeOK` and the refinement.

**`MCMessageQueueProofs`.** The harness is one of two programs: a step is one of the
build chosen, the other's variables unchanged, and each build has an inductive
invariant. In the condition-variable build `OneOwner` is not inductive: that a put
finds room and a get a message needs the test before it to hold still (`Room`), so
nobody else may be in a critical section (`Holder`); that nothing is linked to the
freed list needs `is_destroyed` to tell where `main` is (`Dropped`); and that the
mutex is free when `main` destroys it needs the joins (`Joined`). In the semaphore
build the tokens say again that a put finds room and a get a message, but here
the drop adds two that stand for neither. They do no harm: a thread past its test
got its token before the flag rose, when no such token was there (`Room`), and
each thread that was inside then is in `caught` (`CaughtAll`). Once the list is
freed, either it was empty and is an empty list still, or its ends are freed cells
and the first look at them sets `corrupt` (`Cell`, `Broken`). The read of a message
behind its post touches nothing of this: it has an end of its own (`overread`), and
`IntactCorrect` speaks of the list alone. For the abstract queue
the FIFO is open until the last operation that was past its test has ended.

**`MCDinnerProofs`.** With real forks `Exclusion` follows from `Held`: a fork is
locked exactly while its left or right neighbour stands at a place where the
code holds it. With states it follows from `SmartInv`: no two neighbours are in state
`EATING` (`Apart`), and who eats was put in that state by `test` or was woken by
nobody (`Allowed`). `Watched` gives `SleepersJustified`: a sleeper is hungry and has a
neighbour in state `EATING`, since whoever leaves that state tests both. For
`DishesExact`, the meals are a sum over the philosophers, defined by a recursive
function; `SumsExist` and `OneMore` prove what one more meal does to it, by
the well-foundedness of inclusion again (`UpTo`).

**`MCLabsProofs`.** One inductive invariant per program, and each step leaves those
of the other programs alone. Lab13 has one turn, on a semaphore or in the hands of a
thread (`SemsInv`); in Lab12 who waits has printed last (`CondInv`). Lab10 needs
most: `Holds` says which of the three mutexes a thread holds at each place,
`ParentStage` and `ChildStage` how its `k` and `i` go with the lines it has printed,
and `Pace` that the child is at most one step ahead; a thread that would run further
ahead wants a mutex the other holds (`ChildIsNext`, `ParentIsNext`). Lab7's
partition is by remainders, and `Strides` proves from the division that among
`THREADS_NUM` terms in a row one is each thread's. In Lab8 `Counted` has what each
thread has added so far and `Ahead` names one that is not behind, whose count
`max_iter` is. For Lab6, `Own` says what a thread holds and what became of its file
at each place, and `Family` that an entry of an opened directory is still unread,
has a thread, or was given up with a message about it or about its directory. That a
thread exists for each file at the end needs no induction along the tree: the
entries without a thread that nothing was said of would be closed under `Parent`,
and so hold the root.

For the lists of Lab16 and Lab17, "no string is lost or doubled" counts the nodes that
have a string: `SwapTimes`, `AppendTimes` and `PrependTimes` say what an exchange and a
push do to this cardinality. Lab16's sort is one step with two nested loops in it, which
`SortedList` writes as recursive functions: `LoopEnds` shows that such a function exists
and `UpTo` that what each round keeps holds of all (both by well-foundedness, since the
library's induction takes an operator); `NestedKeeps` and `SortSorts` are then the loop
invariants, that the first strings are sorted and none of the others is lower. `ListInv`
adds that only who holds `listMutex` is in the list. In Lab17 a pass takes many steps
between which main pushes: `Content` is the list with the string the sorter holds back
put where it belongs, and `Passed` the loop invariants at each of the sorter's places.
They need no mutex at all: main's pushes go before the node a pass began at, and nobody
else writes a string. That is why the list stays whole although the sorter works on
nodes it does not hold.

**`RelayProofs`.** The pointers are compared with a sequence (`Threaded`), first as
lemmas about any pointers: taking out a node (`Unlinked`) and putting one before the
head (`Prepended`) give a list again. `SoundFromList` and `ListFromSound` tie this
to `ListSound`. That descriptors differ needs `LowestFree`: the least free number
exists, by the well-foundedness of the naturals. The order of the bytes is the
hardest: a `recv` overwrites what is in the one-place buffer, so it must be empty
then. `Fresh` says that the bits of a connection tell which of its buffers are
empty, and it holds only for those the walk has not come to (`Walk`): these are
closed under `next`, and none of them leads back to where the walk stands. `Streams`
then says that what was received is what was sent and what is in the buffer, and
`Blank` that a cell not in the list is as new.

**`ProxyProofs`.** A worker has more than thirty ways to take a step, so the proof first
says what each can do: a `Turn` puts the served connection back or drops it, and an
`Outcome` with it leaves the cache alone, claims, invalidates, or stores. A *shape* lemma
per handler (`SearchShape`, `HeaderShape`, ...) puts it under one of these, `StepShape`
collects them, and each part of the invariant is then kept by nine cases and not by
thirty. `Placed` says which connection a worker serves; as the array shifts at a drop,
the place goes on from the least number that poll reported and is left
(`LeastOf`, by well-foundedness). For `CountExact`, `Owed` is what the count should be and
`Held` the set of connections with their workers: a drop removes one of both
(`TurnCounted`).

The other three hold under `~raced`, so `Claimable` starts from it: one worker at
most is between its look at the cache and the end of its claim, every entry in use
has a URL, and no two have the same. `Data` has for each entry (`Holds`) that its
writer is one connection, that what is stored is what this connection has received,
unit by unit (`Whole`), and that no reader is ahead of it (`Fits`); a copy that a
worker sends from is a beginning of the entry (`Sends`). `Care` has that an entry
that is downloaded has a writer, at the worker it names (`HasWriter`), that a
connection that waits is that worker's (`WaitsWell`), and that a worker that sleeps
has nothing to send (`SleepsWell`). It is here that the proof found a hole in the
property: `abandoned` had to hold entries that were invalid before their writer left
(section 4), which takes three clients.

TLC checked the parts of each inductive invariant on the instances of section 3.

Only model-checked: every liveness property (outside the prover's reach), that is
the ends of the queues' drops, deliveries, `NoForkKept` and `AllLeave`, `IdleDropped`,
`BothFinish`, `SumPrinted`, `CopyEnds` and `WidgetsMade`. Lab22 has no other property.
What the recursive definitions compute for every input (the meals of the dinners, the
sort of Lab16) is proved without the library's induction theorems, as above.

## 6. What is left out, and why

* Failures of `malloc` and `close`. Failures of `pthread_create` in the message
  queues and in Lab16, and the wrappers of `Lab23-24` that exit on an error
  result: they end the process. `smartPhilo.c` and `din_phil.c` do not look whether a
  create succeeded; in their models each does.
* What comes after undefined behaviour. Where the language leaves a step
  undefined (freed memory, identifiers of threads that were never created, a message
  formatted with a missing argument), the modelled process ends under a name
  (`fault`, `undefined`, `corrupt`, `overread`), and nothing is claimed from there on.
  Paths in Lab6 are written to blocks one byte too short; the model takes malloc's
  rounding to hide it.
* Logging and formatting, with the `doubleMutex` of Lab24 that guards one log
  line and is only taken with `mutex` held. Both builds of `Lab23-24` measure a message
  that a consumer may have freed. In the semaphore build that is a step, which may end
  the process. In the other (`cond_implementation/message_queue.c:54`) the `strlen` is
  taken to find an end, and only changes by how much the result exceeds 0.
* Thread priorities in Lab21. The binding of `pthreadCond` to several mutexes,
  undefined in POSIX, is as glibc has it: none.
* In `Relay`, sends that block, partial sends, start-up, and a signal in the
  middle of `on_client_connect`. `next` of a freed node is what it was, or the
  null that glibc's `free` may leave there.
* In `Proxy`, the text of requests and responses: what the code looks for in them
  (method, URL, end of the header, status, length) is a choice made for each
  server. The arrays of 100 connections are as long as needed. The number of a
  connection may exceed a small cache: the entry it stands for is then one nobody
  uses, as in the program's 1024, or none at all. An unlock of a mutex that is not
  held does nothing, or ends the modelled process, since it may be another worker's.
* The value of the sums in Lab7 and Lab8: floating-point addition is abstracted to
  which terms were added how often. Lab3's lines are on the stack of a `main` that
  may have ended; they are taken to be there still.
* What a print in Lab17 sees of a string that is being copied. In Lab16, a read
  at the end of the input.

## 7. Plan

Done: every program that keeps state; the queues with their abstract specification
and their proofs; the safety of the dinners, of the relay, of the proxy's count,
cache, readers and waiters; the turns, outputs, shares, copies and lists of the
small programs. Left, in this order:

1. An abstract specification of the proxy's cache (a URL is absent, being written, or
   whole) that `Proxy` implements under `~raced`; `Data` is its refinement mapping
   in all but name.
2. The steps that liveness rests on, as action properties: what a drop of a
   queue leaves to be done only shrinks.
