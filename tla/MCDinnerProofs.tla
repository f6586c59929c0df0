--------------------------- MODULE MCDinnerProofs ---------------------------
(***************************************************************************)
(* For every number of philosophers and of portions: neighbours do not eat *)
(* together and no mutex is held when main destroys it, in Lab9/main.c and *)
(* Lab21/main.c because a fork is locked exactly by the neighbour that     *)
(* stands where the code holds it (Held), and in Lab9/smartPhilo.c because *)
(* the states of neighbours exclude each other and a philosopher eats in   *)
(* the state EATING, or after a wait that nobody signalled (Allowed).      *)
(***************************************************************************)
EXTENDS MCDinner, FiniteSetTheorems, TLAPS

(* Each fork lies between two philosophers, and is the left one of one.    *)
LEMMA Circle ==
  /\ \A p \in Philosophers :
       /\ LeftFork(p) \in Philosophers /\ LeftFork(p) # p
       /\ Smart!Before(p) \in Philosophers /\ LeftFork(Smart!Before(p)) = p
  /\ \A p, q \in Philosophers : LeftFork(p) = LeftFork(q) => p = q
  /\ \A p, q \in Philosophers :
       q \in Neighbours(p) <=> q = LeftFork(p) \/ p = LeftFork(q)
  /\ \A p \in Philosophers : Neighbours(p) \subseteq Philosophers
<1> DEFINE N == PHILOSOPHERS
<1>1. N \in Nat /\ N > 1
  BY TableSize
<1>2. \A x \in 0 .. N - 1 : x % N = x
  BY <1>1
<1>3. \A x \in N .. 2 * N - 1 : x % N = x - N
  BY <1>1
<1>4. \A p \in 0 .. N - 1 : (p + 1) % N = IF p = N - 1 THEN 0 ELSE p + 1
  <2> SUFFICES ASSUME NEW p \in 0 .. N - 1
               PROVE  (p + 1) % N = IF p = N - 1 THEN 0 ELSE p + 1
    OBVIOUS
  <2>1. CASE p = N - 1
    <3>1. p + 1 \in N .. 2 * N - 1 /\ (p + 1) - N = 0
      BY <1>1, <2>1
    <3> QED BY <1>3, <2>1, <3>1
  <2>2. CASE p # N - 1
    <3>1. p + 1 \in 0 .. N - 1
      BY <1>1, <2>2
    <3> QED BY <1>2, <2>2, <3>1
  <2> QED BY <2>1, <2>2
<1>5. \A p \in 0 .. N - 1 : (p + N - 1) % N = IF p = 0 THEN N - 1 ELSE p - 1
  <2> SUFFICES ASSUME NEW p \in 0 .. N - 1
               PROVE  (p + N - 1) % N = IF p = 0 THEN N - 1 ELSE p - 1
    OBVIOUS
  <2>1. CASE p = 0
    <3>1. p + N - 1 \in 0 .. N - 1 /\ p + N - 1 = N - 1
      BY <1>1, <2>1
    <3> QED BY <1>2, <2>1, <3>1
  <2>2. CASE p # 0
    <3>1. p + N - 1 \in N .. 2 * N - 1 /\ (p + N - 1) - N = p - 1
      BY <1>1, <2>2
    <3> QED BY <1>3, <2>2, <3>1
  <2> QED BY <2>1, <2>2
<1>6. /\ Philosophers = 0 .. N - 1
      /\ \A p \in 0 .. N - 1 : LeftFork(p) = IF p = N - 1 THEN 0 ELSE p + 1
      /\ \A p \in 0 .. N - 1 : Smart!Before(p) = IF p = 0 THEN N - 1 ELSE p - 1
  BY <1>4, <1>5 DEF Philosophers, LeftFork, Smart!Before
<1>7. \A p \in Philosophers : Neighbours(p) = {LeftFork(p), Smart!Before(p)} \ {p}
  BY DEF Neighbours, LeftFork, Smart!Before
<1> HIDE DEF N
<1>8. \A p \in Philosophers :
        /\ LeftFork(p) \in Philosophers /\ LeftFork(p) # p
        /\ Smart!Before(p) \in Philosophers /\ Smart!Before(p) # p
        /\ LeftFork(Smart!Before(p)) = p
  BY <1>1, <1>6
<1>9. \A p, q \in Philosophers : LeftFork(p) = LeftFork(q) => p = q
  BY <1>1, <1>6
<1>10. ASSUME NEW p \in Philosophers, NEW q \in Philosophers
       PROVE  q \in Neighbours(p) <=> q = LeftFork(p) \/ p = LeftFork(q)
  BY <1>7, <1>8, <1>9
<1>11. \A p \in Philosophers : Neighbours(p) \subseteq Philosophers
  BY <1>7, <1>8
<1> QED BY <1>8, <1>9, <1>10, <1>11

(* The instances of the three programs have the table in common.           *)
LEMMA SameTable ==
  /\ Waiter!Philosophers = Philosophers
  /\ Trylock!Philosophers = Philosophers
  /\ Smart!Philosophers = Philosophers
  /\ \A p : /\ Waiter!LeftFork(p) = LeftFork(p) /\ Waiter!RightFork(p) = p
            /\ Trylock!LeftFork(p) = LeftFork(p) /\ Trylock!RightFork(p) = p
            /\ Smart!LeftFork(p) = LeftFork(p) /\ RightFork(p) = p
            /\ Smart!Neighbours(p) = Neighbours(p)
BY DEF Philosophers, Waiter!Philosophers, Trylock!Philosophers, Smart!Philosophers,
       LeftFork, Waiter!LeftFork, Trylock!LeftFork, Smart!LeftFork,
       RightFork, Waiter!RightFork, Trylock!RightFork,
       Neighbours, Smart!Neighbours
-----------------------------------------------------------------------------
(* A fork is locked by a neighbour, and exactly while it stands at one of  *)
(* the labels L, for its left fork, or R, for its right one.               *)
Held(L, R) ==
  /\ forks \in [Philosophers -> Philosophers \cup {Nobody}]
  /\ \A f \in Philosophers :
       forks[f] # Nobody => f = forks[f] \/ f = LeftFork(forks[f])
  /\ \A p \in Philosophers : /\ forks[LeftFork(p)] = p <=> pc[p] \in L
                             /\ forks[p] = p <=> pc[p] \in R

(* What a step of p to the label to may do with the forks.                 *)
Keeps(p, to, L, R) ==
  \/ /\ UNCHANGED forks
     /\ to \in L <=> pc[p] \in L
     /\ to \in R <=> pc[p] \in R
  \/ /\ \/ forks[LeftFork(p)] = Nobody /\ forks' = [forks EXCEPT ![LeftFork(p)] = p]
           /\ to \in L
        \/ pc[p] \in L /\ forks' = [forks EXCEPT ![LeftFork(p)] = Nobody]
           /\ to \notin L
     /\ to \in R <=> pc[p] \in R
  \/ /\ \/ forks[p] = Nobody /\ forks' = [forks EXCEPT ![p] = p] /\ to \in R
        \/ pc[p] \in R /\ forks' = [forks EXCEPT ![p] = Nobody] /\ to \notin R
     /\ to \in L <=> pc[p] \in L

(* A step that keeps the forks of one philosopher keeps those of all.      *)
LEMMA ForksKept ==
  ASSUME NEW L, NEW R, NEW p \in Philosophers, NEW to,
         DOMAIN pc = Philosophers, Held(L, R),
         pc' = [pc EXCEPT ![p] = to], Keeps(p, to, L, R)
  PROVE  Held(L, R)'
<1>1. /\ LeftFork(p) \in Philosophers /\ LeftFork(p) # p
      /\ \A q \in Philosophers : LeftFork(q) \in Philosophers /\ LeftFork(q) # q
      /\ \A q \in Philosophers : LeftFork(q) = LeftFork(p) => q = p
      /\ Nobody \notin Philosophers
  BY Circle, NobodyIsNoPhilosopher
<1>2. pc'[p] = to /\ \A q \in Philosophers : q # p => pc'[q] = pc[q]
  OBVIOUS
<1>3. CASE UNCHANGED forks /\ (to \in L <=> pc[p] \in L) /\ (to \in R <=> pc[p] \in R)
  BY <1>2, <1>3 DEF Held
<1>4. ASSUME NEW f \in {p, LeftFork(p)}, NEW x \in {p, Nobody},
             forks' = [forks EXCEPT ![f] = x],
             x = p => forks[f] = Nobody,
             x = Nobody => forks[f] = p
      PROVE  /\ forks' \in [Philosophers -> Philosophers \cup {Nobody}]
             /\ forks'[f] = x
             /\ \A g \in Philosophers : g # f => forks'[g] = forks[g]
             /\ \A g \in Philosophers :
                  forks'[g] # Nobody => g = forks'[g] \/ g = LeftFork(forks'[g])
             /\ \A q \in Philosophers \ {p} :
                  /\ forks'[LeftFork(q)] = q <=> pc'[q] \in L
                  /\ forks'[q] = q <=> pc'[q] \in R
  <2>1. forks' \in [Philosophers -> Philosophers \cup {Nobody}]
        /\ forks'[f] = x /\ \A g \in Philosophers : g # f => forks'[g] = forks[g]
    BY <1>1, <1>4 DEF Held
  <2>2. \A g \in Philosophers :
          forks'[g] # Nobody => g = forks'[g] \/ g = LeftFork(forks'[g])
    BY <1>1, <1>4, <2>1 DEF Held
  <2>3. ASSUME NEW q \in Philosophers \ {p}
        PROVE  /\ forks'[LeftFork(q)] = q <=> pc'[q] \in L
               /\ forks'[q] = q <=> pc'[q] \in R
    BY <1>1, <1>2, <1>4, <2>1 DEF Held
  <2> QED BY <2>1, <2>2, <2>3
<1>5. CASE /\ \/ forks[LeftFork(p)] = Nobody
                 /\ forks' = [forks EXCEPT ![LeftFork(p)] = p] /\ to \in L
              \/ pc[p] \in L /\ forks' = [forks EXCEPT ![LeftFork(p)] = Nobody]
                 /\ to \notin L
           /\ to \in R <=> pc[p] \in R
  <2>1. \E x \in {p, Nobody} :
          /\ forks' = [forks EXCEPT ![LeftFork(p)] = x]
          /\ x = p => forks[LeftFork(p)] = Nobody
          /\ x = Nobody => forks[LeftFork(p)] = p
          /\ x = p <=> to \in L
    BY <1>1, <1>5 DEF Held
  <2> QED BY <1>1, <1>2, <1>4, <1>5, <2>1 DEF Held
<1>6. CASE /\ \/ forks[p] = Nobody /\ forks' = [forks EXCEPT ![p] = p] /\ to \in R
              \/ pc[p] \in R /\ forks' = [forks EXCEPT ![p] = Nobody] /\ to \notin R
           /\ to \in L <=> pc[p] \in L
  <2>1. \E x \in {p, Nobody} :
          /\ forks' = [forks EXCEPT ![p] = x]
          /\ x = p => forks[p] = Nobody
          /\ x = Nobody => forks[p] = p
          /\ x = p <=> to \in R
    BY <1>1, <1>6 DEF Held
  <2> QED BY <1>1, <1>2, <1>4, <1>6, <2>1 DEF Held
<1> QED BY <1>3, <1>5, <1>6 DEF Keeps
-----------------------------------------------------------------------------
WaiterLeft == {"right", "gotBoth", "eat"}
WaiterRight == {"gotBoth", "eat", "downRight"}
WaiterInv ==
  /\ pc \in [Philosophers -> {"table", "waiter", "left", "right", "gotBoth", "eat",
                              "downRight", "done"}]
  /\ Held(WaiterLeft, WaiterRight)
  /\ lForks \in Philosophers \cup {Nobody}
  /\ \A p \in Philosophers : lForks = p <=> pc[p] \in {"left", "right", "gotBoth"}

TryLeft == {"try", "toSleep", "eat"}
TryRight == {"eat", "downRight"}
TrylockInv ==
  /\ pc \in [Philosophers -> {"table", "left", "try", "toSleep", "asleep", "eat",
                              "downRight", "wake", "done"}]
  /\ Held(TryLeft, TryRight)
  /\ lForks = Nobody

(* Main leaves after every philosopher.                                    *)
Last == main = "left" => \A p \in Philosophers : pc[p] = "done"

(* Each step of a philosopher keeps the invariant, with a waiter's         *)
(* mutex,                                                                  *)
LEMMA WaiterStep ==
  ASSUME WaiterInv, Last, NEW p \in Philosophers, Waiter!Philosopher(p)
  PROVE  WaiterInv' /\ Last'
<1> DEFINE Labels == {"table", "waiter", "left", "right", "gotBoth", "eat",
                      "downRight", "done"}
           Waited == {"left", "right", "gotBoth"}
<1>1. Nobody \notin Philosophers /\ DOMAIN pc = Philosophers
  BY NobodyIsNoPhilosopher DEF WaiterInv
<1>2. ASSUME NEW to \in Labels, pc' = [pc EXCEPT ![p] = to],
             Keeps(p, to, WaiterLeft, WaiterRight),
             \/ UNCHANGED lForks /\ (to \in Waited <=> pc[p] \in Waited)
             \/ lForks = Nobody /\ lForks' = p /\ to \in Waited
             \/ pc[p] \in Waited /\ lForks' = Nobody /\ to \notin Waited,
             pc[p] # "done", UNCHANGED main
      PROVE  WaiterInv' /\ Last'
  <2>1. Held(WaiterLeft, WaiterRight)'
    BY <1>1, <1>2, ForksKept DEF WaiterInv
  <2>2. pc' \in [Philosophers -> Labels]
    BY <1>2 DEF WaiterInv
  <2>3. lForks' \in Philosophers \cup {Nobody}
    BY <1>2 DEF WaiterInv
  <2>4. \A q \in Philosophers : lForks' = q <=> pc'[q] \in Waited
    BY <1>1, <1>2 DEF WaiterInv
  <2> QED BY <1>2, <2>1, <2>2, <2>3, <2>4 DEF WaiterInv, Last
<1>3. UNCHANGED main
  BY DEF Waiter!Philosopher, Waiter!Seated, Waiter!mainVars
<1> USE SameTable, <1>3 DEF Keeps, WaiterLeft, WaiterRight, Waiter!Goto
<1>4. CASE Waiter!FoodOnTable(p, "waiter") /\ UNCHANGED <<forks, lForks>>
  BY <1>2, <1>4 DEF Waiter!FoodOnTable
<1>5. CASE Waiter!AskWaiter(p)
  BY <1>2, <1>5 DEF Waiter!AskWaiter
<1>6. CASE Waiter!GetFork(p, Waiter!LeftFork(p), "left", "right") /\ UNCHANGED lForks
  BY <1>2, <1>6 DEF Waiter!GetFork
<1>7. CASE Waiter!GetFork(p, Waiter!RightFork(p), "right", "gotBoth")
           /\ UNCHANGED lForks
  BY <1>2, <1>7 DEF Waiter!GetFork
<1>8. CASE Waiter!LeaveWaiter(p)
  BY <1>2, <1>8 DEF Waiter!LeaveWaiter
<1>9. CASE Waiter!DownLeft(p) /\ UNCHANGED lForks
  BY <1>2, <1>9 DEF Waiter!DownLeft
<1>10. CASE Waiter!DownRight(p, "table") /\ UNCHANGED lForks
  BY <1>2, <1>10 DEF Waiter!DownRight
<1> QED BY <1>4, <1>5, <1>6, <1>7, <1>8, <1>9, <1>10 DEF Waiter!Philosopher

(* and with trylock.                                                       *)
LEMMA TrylockStep ==
  ASSUME TrylockInv, Last, NEW p \in Philosophers, Trylock!Philosopher(p),
         UNCHANGED lForks
  PROVE  TrylockInv' /\ Last'
<1> DEFINE Labels == {"table", "left", "try", "toSleep", "asleep", "eat",
                      "downRight", "wake", "done"}
<1>1. ASSUME NEW to \in Labels, pc' = [pc EXCEPT ![p] = to],
             Keeps(p, to, TryLeft, TryRight), pc[p] # "done", UNCHANGED main
      PROVE  TrylockInv' /\ Last'
  <2>1. Held(TryLeft, TryRight)'
    BY <1>1, ForksKept DEF TrylockInv
  <2>2. pc' \in [Philosophers -> Labels]
    BY <1>1 DEF TrylockInv
  <2> QED BY <1>1, <2>1, <2>2 DEF TrylockInv, Last
<1>2. UNCHANGED main
  BY DEF Trylock!Philosopher, Trylock!Seated, Trylock!mainVars
<1> USE SameTable, <1>2 DEF Keeps, TryLeft, TryRight, Trylock!Goto
<1>3. CASE Trylock!FoodOnTable(p, "left") /\ UNCHANGED <<forks, waiting>>
  BY <1>1, <1>3 DEF Trylock!FoodOnTable
<1>4. CASE Trylock!GetFork(p, Trylock!LeftFork(p), "left", "try") /\ UNCHANGED waiting
  BY <1>1, <1>4 DEF Trylock!GetFork
<1>5. CASE Trylock!TryRight(p)
  BY <1>1, <1>5 DEF Trylock!TryRight
<1>6. CASE Trylock!Sleep(p)
  BY <1>1, <1>6 DEF Trylock!Sleep
<1>7. CASE Trylock!Awake(p)
  BY <1>1, <1>7 DEF Trylock!Awake, Trylock!GetFork
<1>8. CASE Trylock!DownLeft(p) /\ UNCHANGED waiting
  BY <1>1, <1>8 DEF Trylock!DownLeft
<1>9. CASE Trylock!DownRight(p, "wake") /\ UNCHANGED waiting
  BY <1>1, <1>9 DEF Trylock!DownRight
<1>10. CASE Trylock!Broadcast(p)
  BY <1>1, <1>10 DEF Trylock!Broadcast
<1> QED BY <1>3, <1>4, <1>5, <1>6, <1>7, <1>8, <1>9, <1>10 DEF Trylock!Philosopher
-----------------------------------------------------------------------------
States == {"THINKING", "HUNGRY", "EATING"}

(* The states alone: neighbours are not both EATING, and who is in S is    *)
(* HUNGRY beside one that is.                                              *)
Apart(st) ==
  \A p \in Philosophers : \A q \in Neighbours(p) : ~(st[p] = "EATING" /\ st[q] = "EATING")
Watched(st, S) ==
  \A p \in S : st[p] = "HUNGRY" /\ \E q \in Neighbours(p) : st[q] = "EATING"

(* Who eats, or has been woken to eat, was allowed to, or was woken by     *)
(* nobody.                                                                 *)
Allowed ==
  \A p \in Philosophers :
    pc[p] = "eat" \/ (pc[p] = "asleep" /\ p \notin waiting) =>
      p \in early \/ phils_states[p] = "EATING"

SmartInv ==
  /\ pc \in [Philosophers -> {"table", "get", "asleep", "eat", "done"}]
  /\ phils_states \in [Philosophers -> States]
  /\ waiting \subseteq {p \in Philosophers : pc[p] = "asleep"}
  /\ \A p \in Philosophers :
       pc[p] \in {"table", "get", "done"} => phils_states[p] = "THINKING"
  /\ Apart(phils_states)
  /\ Watched(phils_states, waiting)
  /\ Allowed
  /\ lForks = Nobody /\ \A f \in Philosophers : forks[f] = Nobody

(* test(p) lets p eat beside nobody who does, and changes no other state.  *)
LEMMA TestFacts ==
  ASSUME NEW st \in [Philosophers -> States], Apart(st), NEW p \in Philosophers
  PROVE  /\ Smart!Test(st, p) \in [Philosophers -> States]
         /\ Apart(Smart!Test(st, p))
         /\ \A q \in Philosophers :
              \/ Smart!Test(st, p)[q] = st[q]
              \/ q = p /\ st[q] = "HUNGRY" /\ Smart!Test(st, p)[q] = "EATING"
         /\ Smart!Test(st, p)[p] = "HUNGRY" =>
              \E q \in Neighbours(p) : Smart!Test(st, p)[q] = "EATING"
<1>1. /\ \A q \in Neighbours(p) : q \in Philosophers /\ q # p
      /\ \A a, b \in Philosophers : a \in Neighbours(b) <=> b \in Neighbours(a)
      /\ \A a \in Philosophers : Neighbours(a) \subseteq Philosophers
      /\ \A a \in Philosophers : a \notin Neighbours(a)
  BY Circle
<1>2. Smart!MayEat(st, p) <=>
        st[p] = "HUNGRY" /\ \A q \in Neighbours(p) : st[q] # "EATING"
  BY SameTable DEF Smart!MayEat
<1>3. CASE Smart!MayEat(st, p)
  <2>1. Smart!Test(st, p) = [st EXCEPT ![p] = "EATING"]
    BY <1>3 DEF Smart!Test
  <2>2. /\ Smart!Test(st, p) \in [Philosophers -> States]
        /\ Smart!Test(st, p)[p] = "EATING"
        /\ \A q \in Philosophers \ {p} : Smart!Test(st, p)[q] = st[q]
    BY <2>1 DEF States
  <2>3. Apart(Smart!Test(st, p))
    BY <1>1, <1>2, <1>3, <2>2 DEF Apart
  <2> QED BY <1>2, <1>3, <2>2, <2>3
<1>4. CASE ~Smart!MayEat(st, p)
  <2>1. Smart!Test(st, p) = st
    BY <1>4 DEF Smart!Test
  <2> QED BY <1>2, <1>4, <2>1
<1> QED BY <1>3, <1>4

(* get_forks of smartPhilo keeps the invariant,                            *)
LEMMA GetForksInv ==
  ASSUME SmartInv, NEW p \in Philosophers, Smart!GetForks(p), UNCHANGED <<forks, lForks>>
  PROVE  SmartInv'
<1> DEFINE hungry == [phils_states EXCEPT ![p] = "HUNGRY"]
<1>1. /\ pc[p] = "get" /\ phils_states[p] = "THINKING" /\ p \notin waiting
      /\ phils_states' = Smart!Test(hungry, p)
      /\ early' = early \ {p}
  BY DEF Smart!GetForks, SmartInv
<1>2. /\ hungry \in [Philosophers -> States]
      /\ hungry[p] = "HUNGRY"
      /\ \A q \in Philosophers \ {p} : hungry[q] = phils_states[q]
  BY DEF SmartInv, States
<1>3. /\ \A a, b \in Philosophers : a \in Neighbours(b) <=> b \in Neighbours(a)
      /\ \A a \in Philosophers : Neighbours(a) \subseteq Philosophers
      /\ \A a \in Philosophers : a \notin Neighbours(a)
  BY Circle
<1>4. Apart(hungry)
  BY <1>2, <1>3 DEF Apart, SmartInv
<1> HIDE DEF hungry
<1>5. /\ phils_states' \in [Philosophers -> States]
      /\ Apart(phils_states')
      /\ \A q \in Philosophers \ {p} : phils_states'[q] = phils_states[q]
      /\ phils_states'[p] \in {"HUNGRY", "EATING"}
      /\ phils_states'[p] = "HUNGRY" =>
           \E q \in Neighbours(p) : phils_states'[q] = "EATING"
  BY <1>1, <1>2, <1>4, TestFacts
<1>6. Watched(phils_states', waiting)
  <2> SUFFICES ASSUME NEW q \in waiting
               PROVE  /\ phils_states'[q] = "HUNGRY"
                      /\ \E r \in Neighbours(q) : phils_states'[r] = "EATING"
    BY DEF Watched
  <2>1. q \in Philosophers /\ q # p /\ phils_states[q] = "HUNGRY"
    BY <1>1 DEF SmartInv, Watched
  <2>2. PICK r \in Neighbours(q) : phils_states[r] = "EATING"
    BY DEF SmartInv, Watched
  <2>3. r \in Philosophers /\ r # p
    BY <1>1, <1>3, <2>1, <2>2
  <2> QED BY <1>5, <2>1, <2>2, <2>3
<1>7. CASE phils_states'[p] = "EATING"
  <2>1. pc' = [pc EXCEPT ![p] = "eat"] /\ UNCHANGED waiting
    BY <1>7 DEF Smart!GetForks, Smart!Goto
  <2>2. Watched(phils_states', waiting')
    BY <1>6, <2>1
  <2>3. Allowed'
    BY <1>1, <1>5, <1>7, <2>1 DEF Allowed, SmartInv
  <2> QED BY <1>1, <1>5, <2>1, <2>2, <2>3 DEF SmartInv
<1>8. CASE phils_states'[p] # "EATING"
  <2>1. pc' = [pc EXCEPT ![p] = "asleep"] /\ waiting' = waiting \cup {p}
    BY <1>8 DEF Smart!GetForks, Smart!Goto
  <2>2. Watched(phils_states', waiting')
    BY <1>5, <1>6, <1>8, <2>1 DEF Watched
  <2>3. Allowed'
    BY <1>1, <1>5, <1>8, <2>1 DEF Allowed, SmartInv
  <2> QED BY <1>1, <1>5, <2>1, <2>2, <2>3 DEF SmartInv
<1> QED BY <1>7, <1>8

(* down_forks, which tests both neighbours, does,                          *)
LEMMA DownForksInv ==
  ASSUME SmartInv, NEW p \in Philosophers, Smart!DownForks(p), UNCHANGED <<forks, lForks>>
  PROVE  SmartInv'
<1> DEFINE thinking == [phils_states EXCEPT ![p] = "THINKING"]
           one == Smart!Test(thinking, Smart!Before(p))
<1>1. /\ pc[p] = "eat" /\ pc' = [pc EXCEPT ![p] = "table"]
      /\ phils_states' = Smart!Test(one, LeftFork(p))
      /\ waiting' = {q \in waiting : phils_states'[q] # "EATING"}
      /\ UNCHANGED early
  BY SameTable DEF Smart!DownForks, Smart!PutDown, Smart!Goto, Smart!Thinking
<1>2. /\ \A a, b \in Philosophers : a \in Neighbours(b) <=> b \in Neighbours(a)
      /\ \A a \in Philosophers : Neighbours(a) \subseteq Philosophers
      /\ \A a \in Philosophers : a \notin Neighbours(a)
      /\ LeftFork(p) \in Philosophers /\ Smart!Before(p) \in Philosophers
      /\ \A a \in Philosophers :
           p \in Neighbours(a) => a = LeftFork(p) \/ a = Smart!Before(p)
  BY Circle
<1>3. /\ thinking \in [Philosophers -> States]
      /\ thinking[p] = "THINKING"
      /\ \A q \in Philosophers \ {p} : thinking[q] = phils_states[q]
  BY DEF SmartInv, States
<1>4. Apart(thinking)
  BY <1>2, <1>3 DEF Apart, SmartInv
<1> HIDE DEF thinking
<1>5. /\ one \in [Philosophers -> States]
      /\ Apart(one)
      /\ \A q \in Philosophers : \/ one[q] = thinking[q]
                                 \/ thinking[q] = "HUNGRY" /\ one[q] = "EATING"
      /\ one[Smart!Before(p)] = "HUNGRY" =>
           \E q \in Neighbours(Smart!Before(p)) : one[q] = "EATING"
  BY <1>2, <1>3, <1>4, TestFacts
<1> HIDE DEF one
<1>6. /\ phils_states' \in [Philosophers -> States]
      /\ Apart(phils_states')
      /\ \A q \in Philosophers : \/ phils_states'[q] = one[q]
                                 \/ one[q] = "HUNGRY" /\ phils_states'[q] = "EATING"
      /\ phils_states'[LeftFork(p)] = "HUNGRY" =>
           \E q \in Neighbours(LeftFork(p)) : phils_states'[q] = "EATING"
  BY <1>1, <1>2, <1>5, TestFacts
<1>7. /\ phils_states'[p] = "THINKING"
      /\ \A q \in Philosophers \ {p} :
           \/ phils_states'[q] = phils_states[q]
           \/ phils_states[q] = "HUNGRY" /\ phils_states'[q] = "EATING"
  BY <1>3, <1>5, <1>6
<1>8. Watched(phils_states', waiting')
  <2> SUFFICES ASSUME NEW q \in waiting'
               PROVE  /\ phils_states'[q] = "HUNGRY"
                      /\ \E r \in Neighbours(q) : phils_states'[r] = "EATING"
    BY DEF Watched
  <2>1. q \in Philosophers /\ q # p /\ phils_states[q] = "HUNGRY"
        /\ phils_states'[q] # "EATING"
    BY <1>1 DEF SmartInv, Watched
  <2>2. phils_states'[q] = "HUNGRY" /\ one[q] = "HUNGRY"
    BY <1>3, <1>5, <1>6, <1>7, <2>1
  <2>3. PICK r \in Neighbours(q) : phils_states[r] = "EATING"
    BY <1>1 DEF SmartInv, Watched
  <2>4. CASE r # p
    BY <1>2, <1>7, <2>1, <2>2, <2>3, <2>4
  <2>5. CASE r = p /\ q = LeftFork(p)
    BY <1>6, <2>2, <2>5
  <2>6. CASE r = p /\ q = Smart!Before(p)
    <3>1. PICK s \in Neighbours(q) : one[s] = "EATING"
      BY <1>5, <2>2, <2>6
    <3>2. phils_states'[s] = "EATING"
      BY <1>2, <1>6, <2>1, <3>1
    <3> QED BY <2>2, <3>1, <3>2
  <2> QED BY <1>2, <2>1, <2>3, <2>4, <2>5, <2>6
<1>9. Allowed'
  <2> SUFFICES ASSUME NEW q \in Philosophers,
                      pc'[q] = "eat" \/ (pc'[q] = "asleep" /\ q \notin waiting'),
                      q \notin early'
               PROVE  phils_states'[q] = "EATING"
    BY DEF Allowed
  <2>1. q # p /\ pc'[q] = pc[q]
    BY <1>1 DEF SmartInv
  <2>2. CASE q \in waiting
    BY <1>1, <2>1, <2>2 DEF SmartInv
  <2>3. CASE q \notin waiting
    BY <1>1, <1>7, <2>1, <2>3 DEF SmartInv, Allowed
  <2> QED BY <2>2, <2>3
<1>10. /\ pc' \in [Philosophers -> {"table", "get", "asleep", "eat", "done"}]
       /\ waiting' \subseteq {q \in Philosophers : pc'[q] = "asleep"}
       /\ \A q \in Philosophers :
            pc'[q] \in {"table", "get", "done"} => phils_states'[q] = "THINKING"
  BY <1>1, <1>7 DEF SmartInv
<1> QED BY <1>6, <1>8, <1>9, <1>10 DEF SmartInv

(* and so does every step of a philosopher,                                *)
LEMMA SmartStep ==
  ASSUME SmartInv, Last, NEW p \in Philosophers, Smart!Philosopher(p),
         UNCHANGED <<forks, lForks>>
  PROVE  SmartInv' /\ Last'
<1>1. UNCHANGED main
  BY DEF Smart!Philosopher, Smart!Seated, Smart!mainVars
<1>2. CASE Smart!FoodOnTable(p, "get") /\ UNCHANGED <<phils_states, waiting, early>>
  <2>1. /\ pc[p] = "table" /\ UNCHANGED <<phils_states, waiting, early>>
        /\ \E to \in {"get", "done"} : pc' = [pc EXCEPT ![p] = to]
    BY <1>2 DEF Smart!FoodOnTable, Smart!Goto
  <2>2. Allowed'
    BY <2>1 DEF Allowed, SmartInv
  <2>3. Last'
    BY <1>1, <2>1 DEF Last, SmartInv
  <2>4. /\ pc' \in [Philosophers -> {"table", "get", "asleep", "eat", "done"}]
        /\ waiting' \subseteq {q \in Philosophers : pc'[q] = "asleep"}
        /\ \A q \in Philosophers :
             pc'[q] \in {"table", "get", "done"} => phils_states'[q] = "THINKING"
    BY <2>1 DEF SmartInv
  <2> QED BY <2>1, <2>2, <2>3, <2>4 DEF SmartInv
<1>3. CASE Smart!GetForks(p)
  BY <1>1, <1>3, GetForksInv DEF Last, Smart!GetForks
<1>4. CASE Smart!Awake(p)
  <2>1. /\ pc[p] = "asleep" /\ p \notin waiting
        /\ UNCHANGED <<phils_states, waiting, early>>
        /\ pc' = [pc EXCEPT ![p] = "eat"]
    BY <1>4 DEF Smart!Awake, Smart!Goto
  <2>2. Allowed'
    BY <2>1 DEF Allowed, SmartInv
  <2>3. Last'
    BY <1>1, <2>1 DEF Last, SmartInv
  <2>4. /\ pc' \in [Philosophers -> {"table", "get", "asleep", "eat", "done"}]
        /\ waiting' \subseteq {q \in Philosophers : pc'[q] = "asleep"}
        /\ \A q \in Philosophers :
             pc'[q] \in {"table", "get", "done"} => phils_states'[q] = "THINKING"
    BY <2>1 DEF SmartInv
  <2> QED BY <2>1, <2>2, <2>3, <2>4 DEF SmartInv
<1>5. CASE Smart!DownForks(p)
  BY <1>1, <1>5, DownForksInv DEF Last, Smart!DownForks, Smart!PutDown
<1> QED BY <1>2, <1>3, <1>4, <1>5 DEF Smart!Philosopher

(* a spurious wakeup,                                                      *)
LEMMA WakeupInv ==
  ASSUME NEW p \in Philosophers, SpuriousWakeup(p), Last,
         \/ program = "Lab21/main" /\ TrylockInv
         \/ program = "Lab9/smartPhilo" /\ SmartInv
  PROVE  /\ UNCHANGED program /\ Last'
         /\ program = "Lab21/main" => TrylockInv'
         /\ program = "Lab9/smartPhilo" => SmartInv'
<1>1. UNCHANGED <<program, lForks, pc, main, forks>>
  BY DEF SpuriousWakeup, Trylock!SpuriousWakeup, Smart!SpuriousWakeup,
         Trylock!dinnerVars, Trylock!mainVars, Smart!dinnerVars, Smart!mainVars
<1>2. CASE program = "Lab21/main"
  BY <1>1, <1>2 DEF TrylockInv, Held, Last
<1>3. CASE program = "Lab9/smartPhilo"
  <2>1. /\ waiting' = waiting \ {p} /\ early' = early \cup {p}
        /\ UNCHANGED phils_states
    BY <1>3 DEF SpuriousWakeup, Smart!SpuriousWakeup
  <2>2. Allowed' /\ Watched(phils_states', waiting')
    BY <1>1, <1>3, <2>1 DEF SmartInv, Allowed, Watched
  <2> QED BY <1>1, <1>3, <2>1, <2>2 DEF SmartInv, Last
<1> QED BY <1>2, <1>3

(* and a step of main.                                                     *)
LEMMA MainInv ==
  ASSUME Main, Last
  PROVE  /\ UNCHANGED <<program, pc, forks, lForks, waiting, phils_states, early>>
         /\ Last'
<1>1. UNCHANGED <<program, pc, forks, lForks, waiting, phils_states, early>>
  BY DEF Main, Waiter!Main, Trylock!Main, Smart!Main,
         Waiter!dinnerVars, Trylock!dinnerVars, Smart!dinnerVars
<1>2. main' = "left" => \A p \in Philosophers : pc[p] = "done"
  BY SameTable DEF Main, Waiter!Main, Trylock!Main, Smart!Main,
         Waiter!Create, Trylock!Create, Smart!Create,
         Waiter!cancel_threads, Trylock!cancel_threads,
         Waiter!Join, Trylock!Join, Smart!Join
<1> QED BY <1>1, <1>2 DEF Last
-----------------------------------------------------------------------------
Inv ==
  /\ program \in {"Lab9/main", "Lab9/smartPhilo", "Lab21/main"}
  /\ program = "Lab9/main" => WaiterInv
  /\ program = "Lab21/main" => TrylockInv
  /\ program = "Lab9/smartPhilo" => SmartInv
  /\ Last

(* The invariant of the program chosen holds always.                       *)
LEMMA Invariance == Init /\ [][Next]_vars => []Inv
<1>1. ASSUME Init PROVE Inv
  <2>1. /\ program \in {"Lab9/main", "Lab9/smartPhilo", "Lab21/main"}
        /\ pc = [p \in Philosophers |-> "table"] /\ main = "create"
        /\ forks = [f \in Philosophers |-> Nobody] /\ lForks = Nobody
        /\ waiting = {} /\ early = {}
        /\ phils_states = [p \in Philosophers |-> "THINKING"]
    BY <1>1, SameTable
       DEF Init, Waiter!Init, Trylock!Init, Smart!Init, Waiter!DinnerInit,
           Waiter!ForksInit, Smart!DinnerInit
  <2>2. Nobody \notin Philosophers /\ \A p \in Philosophers : LeftFork(p) \in Philosophers
    BY NobodyIsNoPhilosopher, Circle
  <2>3. \A p \in Philosophers : Neighbours(p) \subseteq Philosophers
    BY Circle
  <2>4. WaiterInv
    BY <2>1, <2>2 DEF WaiterInv, Held, WaiterLeft, WaiterRight
  <2>5. TrylockInv
    BY <2>1, <2>2 DEF TrylockInv, Held, TryLeft, TryRight
  <2>6. SmartInv
    BY <2>1, <2>3 DEF SmartInv, States, Apart, Watched, Allowed
  <2> QED BY <2>1, <2>4, <2>5, <2>6 DEF Inv, Last
<1>2. ASSUME Inv, [Next]_vars PROVE Inv'
  <2>1. CASE UNCHANGED <<program, pc, forks, lForks, waiting, phils_states, early>> /\ Last'
    BY <1>2, <2>1 DEF Inv, WaiterInv, TrylockInv, SmartInv, Held, Allowed
  <2>2. CASE Main
    BY <1>2, <2>1, <2>2, MainInv DEF Inv
  <2>3. ASSUME NEW p \in Philosophers, Philosopher(p) PROVE Inv'
    <3>1. CASE program = "Lab9/main"
      <4>1. Waiter!Philosopher(p) /\ UNCHANGED <<program, phils_states, early>>
        BY <2>3, <3>1 DEF Philosopher
      <4> QED BY <1>2, <3>1, <4>1, WaiterStep DEF Inv
    <3>2. CASE program = "Lab21/main"
      <4>1. Trylock!Philosopher(p) /\ UNCHANGED <<program, lForks, phils_states, early>>
        BY <2>3, <3>2 DEF Philosopher
      <4> QED BY <1>2, <3>2, <4>1, TrylockStep DEF Inv
    <3>3. CASE program = "Lab9/smartPhilo"
      <4>1. Smart!Philosopher(p) /\ UNCHANGED <<program, forks, lForks>>
        BY <2>3, <3>3 DEF Philosopher
      <4> QED BY <1>2, <3>3, <4>1, SmartStep DEF Inv
    <3> QED BY <1>2, <3>1, <3>2, <3>3 DEF Inv
  <2>4. ASSUME NEW p \in Philosophers, SpuriousWakeup(p) PROVE Inv'
    <3>1. program = "Lab21/main" => UNCHANGED <<phils_states, early>>
      BY <2>4 DEF SpuriousWakeup
    <3>2. program \in {"Lab21/main", "Lab9/smartPhilo"}
      BY <2>4 DEF SpuriousWakeup
    <3> QED BY <1>2, <2>4, <3>1, <3>2, WakeupInv DEF Inv
  <2>5. CASE UNCHANGED vars
    BY <1>2, <2>1, <2>5 DEF vars, dinnerVars, mainVars, Inv, Last
  <2> QED BY <1>2, <2>2, <2>3, <2>4, <2>5 DEF Next
<1> QED BY <1>1, <1>2, PTL

(* Neighbours that eat hold the fork between them, or the state EATING.    *)
LEMMA ExclusionFromInv ==
  ASSUME Inv
  PROVE  Exclusion
<1>1. Nobody \notin Philosophers
      /\ \A p \in Philosophers : LeftFork(p) \in Philosophers
  BY NobodyIsNoPhilosopher, Circle
<1>2. ASSUME NEW p \in Philosophers, NEW q \in Neighbours(p), pc[p] = "eat", pc[q] = "eat"
      PROVE  p \in early \/ q \in early
  <2>1. /\ q \in Philosophers /\ p # q
        /\ q = LeftFork(p) \/ p = LeftFork(q)
    BY Circle
  <2>2. CASE program = "Lab9/main"
    BY <1>2, <2>1, <2>2 DEF Inv, WaiterInv, Held, WaiterLeft, WaiterRight
  <2>3. CASE program = "Lab21/main"
    BY <1>2, <2>1, <2>3 DEF Inv, TrylockInv, Held, TryLeft, TryRight
  <2>4. CASE program = "Lab9/smartPhilo"
    BY <1>2, <2>1, <2>4 DEF Inv, SmartInv, Allowed, Apart
  <2> QED BY <2>2, <2>3, <2>4 DEF Inv
<1>3. ASSUME main = "left"
      PROVE  lForks = Nobody /\ \A f \in Philosophers : forks[f] = Nobody
  <2>1. \A p \in Philosophers : pc[p] = "done"
    BY <1>3 DEF Inv, Last
  <2>2. CASE program = "Lab9/main"
    <3>1. lForks = Nobody
      BY <2>1, <2>2 DEF Inv, WaiterInv
    <3>2. \A f \in Philosophers : forks[f] = Nobody
      BY <1>1, <2>1, <2>2 DEF Inv, WaiterInv, Held, WaiterLeft, WaiterRight
    <3> QED BY <3>1, <3>2
  <2>3. CASE program = "Lab21/main"
    BY <1>1, <2>1, <2>3 DEF Inv, TrylockInv, Held, TryLeft, TryRight
  <2>4. CASE program = "Lab9/smartPhilo"
    BY <2>4 DEF Inv, SmartInv
  <2> QED BY <2>2, <2>3, <2>4 DEF Inv
<1> QED BY <1>2, <1>3, SameTable DEF Exclusion, Smart!Exclusion, Smart!Eating

(* Neighbours do not eat together, unless one was woken by nobody, and no   *)
(* mutex is held when main destroys it.                                     *)
THEOREM ExclusionCorrect == Init /\ [][Next]_vars => []Exclusion
<1>1. Inv => Exclusion
  BY ExclusionFromInv
<1> QED BY <1>1, Invariance, PTL

(* Who sleeps in get_forks has a neighbour that eats and will test it.      *)
THEOREM SleepersCorrect == Init /\ [][Next]_vars => []SleepersJustified
<1>1. Inv => SleepersJustified
  BY SameTable DEF Inv, SmartInv, Watched, SleepersJustified, Smart!SleepersJustified
<1> QED BY <1>1, Invariance, PTL
-----------------------------------------------------------------------------
(* Induction up to n, by the well-foundedness of inclusion.                *)
LEMMA UpTo ==
  ASSUME NEW n \in Nat, NEW K, 0 \in K,
         \A i \in 0 .. n - 1 : i \in K => i + 1 \in K
  PROVE  0 .. n \subseteq K
<1> DEFINE Lower == {0 .. i : i \in (0 .. n) \ K}
           R == StrictSubsetOrdering(0 .. n)
<1> SUFFICES ASSUME (0 .. n) \ K # {} PROVE FALSE
  OBVIOUS
<1>1. IsFiniteSet(0 .. n)
  BY FS_Interval
<1>2. IsWellFoundedOn(R, SUBSET (0 .. n))
  BY <1>1, FS_StrictSubsetOrderingWellFounded, FS_FiniteSubsetsOfFinite
<1>3. Lower \subseteq SUBSET (0 .. n) /\ Lower # {}
  OBVIOUS
<1>4. \E x \in Lower : \A y \in Lower : <<y, x>> \notin R
  <2> HIDE DEF Lower, R
  <2> QED BY <1>2, <1>3, WFMin
<1>5. PICK i \in (0 .. n) \ K : \A y \in Lower : <<y, 0 .. i>> \notin R
  BY <1>4
<1>6. i \in 1 .. n /\ i - 1 \in (0 .. n) \ K
  <2>1. i # 0
    BY <1>5
  <2>2. i - 1 \in 0 .. n - 1 /\ (i - 1) + 1 = i
    BY <2>1
  <2> QED BY <1>5, <2>1, <2>2
<1>7. /\ 0 .. i - 1 \in Lower
      /\ 0 .. i - 1 \subseteq 0 .. i
      /\ i \in 0 .. i /\ i \notin 0 .. i - 1
  BY <1>6
<1>8. <<0 .. i - 1, 0 .. i>> \in R
  BY <1>3, <1>6, <1>7 DEF StrictSubsetOrdering
<1> QED BY <1>5, <1>7, <1>8

(* f sums the values of e, as MealsOf does those of eaten.                 *)
Sums(e, f) ==
  f = [n \in 0 .. PHILOSOPHERS |-> IF n = 0 THEN 0 ELSE f[n - 1] + e[n - 1]]

(* The meals of the model are the sums, once there are any.                *)
LEMMA MealsAreSums ==
  ASSUME \E f : Sums(eaten, f)
  PROVE  Sums(eaten, MealsOf)
BY DEF MealsOf, Sums

(* There are, by taking the numbers up to which they exist.                *)
LEMMA SumsExist ==
  ASSUME NEW e \in [Philosophers -> Nat]
  PROVE  \E f : Sums(e, f)
<1> DEFINE P == PHILOSOPHERS
           Upto(n, f) == \A m \in 0 .. n : f[m] = IF m = 0 THEN 0 ELSE f[m - 1] + e[m - 1]
           K == {n \in 0 .. P : \E f \in [0 .. n -> Nat] : Upto(n, f)}
<1>1. P \in Nat /\ \A n \in 0 .. P - 1 : n \in Philosophers
  BY TableSize DEF Philosophers
<1>2. 0 \in K
  <2> DEFINE g == [m \in 0 .. 0 |-> 0]
  <2>1. g \in [0 .. 0 -> Nat] /\ Upto(0, g)
    OBVIOUS
  <2>2. \E f \in [0 .. 0 -> Nat] : Upto(0, f)
    <3> HIDE DEF g, Upto
    <3> QED BY <2>1
  <2> QED BY <1>1, <2>2
<1>3. ASSUME NEW n \in 0 .. P - 1, n \in K PROVE n + 1 \in K
  <2>1. PICK f \in [0 .. n -> Nat] : Upto(n, f)
    BY <1>3
  <2> DEFINE g == [m \in 0 .. n + 1 |-> IF m = n + 1 THEN f[n] + e[n] ELSE f[m]]
  <2>2. e[n] \in Nat /\ f[n] \in Nat
    BY <1>1
  <2>3. g \in [0 .. n + 1 -> Nat]
    BY <2>1, <2>2
  <2>4. ASSUME NEW m \in 0 .. n + 1
        PROVE  g[m] = IF m = 0 THEN 0 ELSE g[m - 1] + e[m - 1]
    <3>1. CASE m = n + 1
      <4>1. m # 0 /\ m - 1 = n /\ m - 1 \in 0 .. n + 1 /\ m - 1 # n + 1
        BY <1>1, <3>1
      <4> QED BY <3>1, <4>1
    <3>2. CASE m # n + 1
      <4>1. m \in 0 .. n
            /\ (m # 0 => m - 1 \in 0 .. n + 1 /\ m - 1 # n + 1)
        BY <1>1, <3>2
      <4>2. f[m] = IF m = 0 THEN 0 ELSE f[m - 1] + e[m - 1]
        BY <2>1, <4>1
      <4> QED BY <3>2, <4>1, <4>2
    <3> QED BY <3>1, <3>2
  <2>5. Upto(n + 1, g)
    BY <2>4
  <2>6. \E h \in [0 .. n + 1 -> Nat] : Upto(n + 1, h)
    <3> HIDE DEF g, Upto
    <3> QED BY <2>3, <2>5
  <2>7. n + 1 \in 0 .. P
    BY <1>1
  <2> HIDE DEF Upto
  <2> QED BY <2>6, <2>7
<1>4. P \in K
  <2> HIDE DEF K
  <2>1. 0 .. P \subseteq K
    BY <1>1, <1>2, <1>3, UpTo
  <2> QED BY <1>1, <2>1
<1>5. PICK f \in [0 .. P -> Nat] : Upto(P, f)
  BY <1>4
<1>6. f = [n \in 0 .. P |-> IF n = 0 THEN 0 ELSE f[n - 1] + e[n - 1]]
  BY <1>5
<1> QED BY <1>6 DEF Sums

(* One more portion eaten is a natural number still.                       *)
LEMMA OneMoreType ==
  ASSUME NEW e \in [Philosophers -> Nat], NEW p \in Philosophers
  PROVE  [e EXCEPT ![p] = @ + 1] \in [Philosophers -> Nat]
<1>1. e[p] + 1 \in Nat
  OBVIOUS
<1> QED BY <1>1

(* h counts one meal more of p than e does.                                *)
Raised(e, p, h) ==
  \A q \in Philosophers : h[q] = IF q = p THEN e[q] + 1 ELSE e[q]

(* One more meal of one philosopher is one more meal in all.               *)
LEMMA OneMore ==
  ASSUME NEW e \in [Philosophers -> Nat], NEW p \in Philosophers,
         NEW h, Raised(e, p, h),
         NEW f, Sums(e, f), NEW g, Sums(h, g)
  PROVE  f[PHILOSOPHERS] \in Nat /\ g[PHILOSOPHERS] = f[PHILOSOPHERS] + 1
<1> DEFINE P == PHILOSOPHERS
           K == {n \in 0 .. P : f[n] \in Nat /\ g[n] = f[n] + (IF p < n THEN 1 ELSE 0)}
<1>1. P \in Nat /\ p \in Nat /\ p < P /\ \A n \in 0 .. P - 1 : n \in Philosophers
  BY TableSize DEF Philosophers
<1>2. \A n \in 0 .. P : /\ f[n] = IF n = 0 THEN 0 ELSE f[n - 1] + e[n - 1]
                        /\ g[n] = IF n = 0 THEN 0 ELSE g[n - 1] + h[n - 1]
  BY DEF Sums
<1>3. 0 \in K
  BY <1>1, <1>2
<1>4. ASSUME NEW n \in 0 .. P - 1, n \in K PROVE n + 1 \in K
  <2>1. n + 1 \in 0 .. P /\ n + 1 # 0 /\ (n + 1) - 1 = n /\ n \in Philosophers
    BY <1>1
  <2>2. f[n + 1] = f[n] + e[n] /\ g[n + 1] = g[n] + h[n]
    BY <1>2, <2>1
  <2>3. e[n] \in Nat /\ h[n] = IF n = p THEN e[n] + 1 ELSE e[n]
    BY <2>1 DEF Raised
  <2>4. f[n] \in Nat /\ g[n] = f[n] + (IF p < n THEN 1 ELSE 0)
    BY <1>4
  <2>5. f[n + 1] \in Nat
    BY <2>2, <2>3, <2>4
  <2>6. g[n + 1] = f[n + 1] + (IF p < n + 1 THEN 1 ELSE 0)
    <3>1. CASE p < n
      BY <1>1, <2>2, <2>3, <2>4, <3>1
    <3>2. CASE p = n
      BY <1>1, <2>2, <2>3, <2>4, <3>2
    <3>3. CASE p > n
      BY <1>1, <2>2, <2>3, <2>4, <3>3
    <3> QED BY <1>1, <3>1, <3>2, <3>3
  <2> QED BY <2>1, <2>5, <2>6
<1>5. P \in K
  <2> HIDE DEF K
  <2>1. 0 .. P \subseteq K
    BY <1>1, <1>3, <1>4, UpTo
  <2> QED BY <1>1, <2>1
<1> QED BY <1>1, <1>5
-----------------------------------------------------------------------------
Away == {"table", "downRight", "wake", "done"}
DishInv ==
  /\ food \in Nat /\ food <= FOOD
  /\ eaten \in [Philosophers -> Nat]
  /\ DishesExact

(* The meals to come and the portions, as philosopher p goes to the label. *)
TakesDish(p, to) ==
  /\ pc[p] = "table"
  /\ food' = IF food > 0 THEN food - 1 ELSE 0
  /\ IF food' = 0 THEN to = "done" ELSE to \notin Away
  /\ UNCHANGED eaten
Dines(p, to) ==
  /\ pc[p] = "eat" /\ to \in Away
  /\ eaten' = [eaten EXCEPT ![p] = @ + 1]
  /\ UNCHANGED food
KeepsDish(p, to) ==
  /\ to \in Away <=> pc[p] \in Away
  /\ UNCHANGED <<food, eaten>>

(* How many have a dish in hand, when one philosopher moves.               *)
LEMMA AtDishMoves ==
  ASSUME DOMAIN pc = Philosophers, NEW p \in Philosophers, NEW to,
         pc' = [pc EXCEPT ![p] = to]
  PROVE  /\ Cardinality(AtDish) \in Nat /\ Cardinality(AtDish') \in Nat
         /\ (to \in Away <=> pc[p] \in Away) => Cardinality(AtDish') = Cardinality(AtDish)
         /\ pc[p] \in Away /\ to \notin Away =>
              Cardinality(AtDish') = Cardinality(AtDish) + 1
         /\ pc[p] \notin Away /\ to \in Away =>
              Cardinality(AtDish') = Cardinality(AtDish) - 1
<1> DEFINE A == {q \in Philosophers : pc[q] \notin Away}
           B == {q \in Philosophers : pc'[q] \notin Away}
           C == {q \in Philosophers \ {p} : pc[q] \notin Away}
<1>1. AtDish = A /\ AtDish' = B
  BY DEF AtDish, Away
<1>2. IsFiniteSet(Philosophers)
  BY TableSize, FS_Interval DEF Philosophers
<1>3. IsFiniteSet(A) /\ IsFiniteSet(B) /\ IsFiniteSet(C)
  BY <1>2, FS_Subset
<1>4. /\ Cardinality(A) \in Nat /\ Cardinality(B) \in Nat /\ Cardinality(C) \in Nat
      /\ p \notin C /\ Cardinality(C \cup {p}) = Cardinality(C) + 1
  BY <1>3, FS_CardinalityType, FS_AddElement
<1>5. A = (IF pc[p] \in Away THEN C ELSE C \cup {p})
  OBVIOUS
<1>6. B = (IF to \in Away THEN C ELSE C \cup {p})
  OBVIOUS
<1> HIDE DEF A, B, C
<1>7. Cardinality(A) = IF pc[p] \in Away THEN Cardinality(C) ELSE Cardinality(C) + 1
  BY <1>4, <1>5
<1>8. Cardinality(B) = IF to \in Away THEN Cardinality(C) ELSE Cardinality(C) + 1
  BY <1>4, <1>6
<1> QED BY <1>1, <1>4, <1>7, <1>8

(* The count of portions is kept by such a step.                           *)
LEMMA DishStep ==
  ASSUME DishInv, DOMAIN pc = Philosophers, NEW p \in Philosophers, NEW to,
         pc' = [pc EXCEPT ![p] = to],
         TakesDish(p, to) \/ Dines(p, to) \/ KeepsDish(p, to)
  PROVE  DishInv'
<1> DEFINE m == MealsOf[PHILOSOPHERS]
           n == MealsOf'[PHILOSOPHERS]
           a == Cardinality(AtDish)
           b == Cardinality(AtDish')
<1>1. PHILOSOPHERS \in Nat /\ FOOD \in Nat /\ food \in Nat /\ food <= FOOD
      /\ eaten \in [Philosophers -> Nat]
  BY TableSize DEF DishInv
<1>2. m + a = FOOD - food - (IF food = 0 THEN 1 ELSE 0)
  BY DEF DishInv, DishesExact
<1>3. Sums(eaten, MealsOf)
  BY <1>1, SumsExist DEF MealsOf, Sums
<1>4. m \in Nat
  <2>1. PICK h \in [Philosophers -> Nat] : h = [eaten EXCEPT ![p] = @ + 1]
    BY <1>1, OneMoreType
  <2>2. PICK g : Sums(h, g)
    BY SumsExist
  <2>3. Raised(eaten, p, h)
    BY <1>1, <2>1 DEF Raised
  <2>4. MealsOf[PHILOSOPHERS] \in Nat
    BY <1>1, <1>3, <2>2, <2>3, OneMore
  <2> QED BY <2>4
<1>5. eaten' \in [Philosophers -> Nat]
  <2>1. eaten' = eaten \/ eaten' = [eaten EXCEPT ![p] = @ + 1]
    BY DEF TakesDish, Dines, KeepsDish
  <2>2. [eaten EXCEPT ![p] = @ + 1] \in [Philosophers -> Nat]
    BY <1>1, OneMoreType
  <2> QED BY <1>1, <2>1, <2>2
<1>6. Sums(eaten', MealsOf')
  BY <1>5, SumsExist DEF MealsOf, Sums
<1>7. UNCHANGED eaten => n = m
  BY DEF MealsOf
<1>8. /\ a \in Nat /\ b \in Nat
      /\ (to \in Away <=> pc[p] \in Away) => b = a
      /\ pc[p] \in Away /\ to \notin Away => b = a + 1
      /\ pc[p] \notin Away /\ to \in Away => b = a - 1
  BY AtDishMoves
<1> HIDE DEF m, n, a, b
<1>9. n + b = FOOD - food' - (IF food' = 0 THEN 1 ELSE 0)
       /\ food' \in Nat /\ food' <= FOOD
  <2>1. CASE TakesDish(p, to)
    <3>1. n = m /\ pc[p] \in Away /\ food' = IF food > 0 THEN food - 1 ELSE 0
      BY <1>7, <2>1 DEF TakesDish, Away
    <3>2. CASE food' = 0
      <4>1. to \in Away
        BY <2>1, <3>2 DEF TakesDish, Away
      <4> QED BY <1>1, <1>2, <1>4, <1>8, <3>1, <3>2, <4>1
    <3>3. CASE food' # 0
      <4>1. to \notin Away
        BY <2>1, <3>3 DEF TakesDish
      <4> QED BY <1>1, <1>2, <1>4, <1>8, <3>1, <3>3, <4>1
    <3> QED BY <3>2, <3>3
  <2>2. CASE Dines(p, to)
    <3>1. n = m + 1
      <4>1. Raised(eaten, p, eaten')
        BY <1>1, <2>2 DEF Dines, Raised
      <4> QED BY <1>1, <1>3, <1>6, <4>1, OneMore DEF m, n
    <3>2. pc[p] \notin Away /\ to \in Away /\ food' = food
      BY <2>2 DEF Dines, Away
    <3> QED BY <1>1, <1>2, <1>4, <1>8, <3>1, <3>2
  <2>3. CASE KeepsDish(p, to)
    <3>1. n = m /\ b = a /\ food' = food
      BY <1>7, <1>8, <2>3 DEF KeepsDish
    <3> QED BY <1>1, <1>2, <3>1
  <2> QED BY <2>1, <2>2, <2>3
<1> QED BY <1>5, <1>9 DEF DishInv, DishesExact, n, b

(* Nobody has eaten at the start.                                          *)
LEMMA NoMeals ==
  ASSUME NEW f, Sums([q \in Philosophers |-> 0], f)
  PROVE  f[PHILOSOPHERS] = 0
<1> DEFINE K == {n \in 0 .. PHILOSOPHERS : f[n] = 0}
<1>1. PHILOSOPHERS \in Nat /\ \A n \in 0 .. PHILOSOPHERS - 1 : n \in Philosophers
  BY TableSize DEF Philosophers
<1>2. \A n \in 0 .. PHILOSOPHERS :
        f[n] = IF n = 0 THEN 0 ELSE f[n - 1] + [q \in Philosophers |-> 0][n - 1]
  BY DEF Sums
<1>3. 0 \in K
  BY <1>1, <1>2
<1>4. ASSUME NEW n \in 0 .. PHILOSOPHERS - 1, n \in K PROVE n + 1 \in K
  <2>1. n + 1 \in 0 .. PHILOSOPHERS /\ n + 1 # 0 /\ (n + 1) - 1 = n /\ n \in Philosophers
    BY <1>1
  <2>2. f[n + 1] = f[n] + 0
    BY <1>2, <2>1
  <2> QED BY <1>4, <2>1, <2>2
<1>5. 0 .. PHILOSOPHERS \subseteq K
  <2> HIDE DEF K
  <2> QED BY <1>1, <1>3, <1>4, UpTo
<1> QED BY <1>1, <1>5

(* A philosopher takes a dish, eats it up, or leaves the dishes alone.     *)
LEMMA DishMoves ==
  ASSUME Inv, NEW p \in Philosophers, Philosopher(p)
  PROVE  \E to : /\ pc' = [pc EXCEPT ![p] = to]
                 /\ TakesDish(p, to) \/ Dines(p, to) \/ KeepsDish(p, to)
<1> DEFINE Moves(to) == /\ pc' = [pc EXCEPT ![p] = to]
                        /\ TakesDish(p, to) \/ Dines(p, to) \/ KeepsDish(p, to)
<1> SUFFICES \E to : Moves(to)
  OBVIOUS
<1> USE DEF TakesDish, Dines, KeepsDish, Away
<1>1. CASE program = "Lab9/main" /\ Waiter!Philosopher(p)
  <2>1. CASE Waiter!FoodOnTable(p, "waiter")
    <3>1. Moves("done") \/ Moves("waiter")
      BY <2>1 DEF Waiter!FoodOnTable, Waiter!Goto
    <3> HIDE DEF Moves
    <3> QED BY <3>1
  <2>2. CASE Waiter!DownLeft(p)
    BY <2>2 DEF Waiter!DownLeft, Waiter!Goto
  <2>3. CASE ~Waiter!FoodOnTable(p, "waiter") /\ ~Waiter!DownLeft(p)
    <3>1. \/ Waiter!AskWaiter(p) /\ Moves("left")
          \/ Waiter!GetFork(p, Waiter!LeftFork(p), "left", "right") /\ Moves("right")
          \/ Waiter!GetFork(p, Waiter!RightFork(p), "right", "gotBoth")
               /\ Moves("gotBoth")
          \/ Waiter!LeaveWaiter(p) /\ Moves("eat")
          \/ Waiter!DownRight(p, "table") /\ Moves("table")
      BY <1>1, <2>3
         DEF Waiter!Philosopher, Waiter!AskWaiter, Waiter!GetFork,
             Waiter!LeaveWaiter, Waiter!DownRight, Waiter!Goto
    <3> HIDE DEF Moves
    <3> QED BY <3>1
  <2> QED BY <2>1, <2>2, <2>3
<1>2. CASE program = "Lab21/main" /\ Trylock!Philosopher(p)
  <2>1. CASE Trylock!FoodOnTable(p, "left")
    <3>1. Moves("done") \/ Moves("left")
      BY <2>1 DEF Trylock!FoodOnTable, Trylock!Goto
    <3> HIDE DEF Moves
    <3> QED BY <3>1
  <2>2. CASE Trylock!DownLeft(p)
    BY <2>2 DEF Trylock!DownLeft, Trylock!Goto
  <2>3. CASE ~Trylock!FoodOnTable(p, "left") /\ ~Trylock!DownLeft(p)
    <3>1. \/ Moves("try") \/ Moves("eat") \/ Moves("toSleep") \/ Moves("asleep")
          \/ Moves("wake") \/ Moves("table")
      BY <1>2, <2>3
         DEF Trylock!Philosopher, Trylock!GetFork, Trylock!TryRight, Trylock!Sleep,
             Trylock!Awake, Trylock!DownRight, Trylock!Broadcast, Trylock!Goto
    <3> HIDE DEF Moves
    <3> QED BY <3>1
  <2> QED BY <2>1, <2>2, <2>3
<1>3. CASE program = "Lab9/smartPhilo" /\ Smart!Philosopher(p)
  <2>1. CASE Smart!FoodOnTable(p, "get")
    <3>1. Moves("done") \/ Moves("get")
      BY <2>1 DEF Smart!FoodOnTable, Smart!Goto
    <3> HIDE DEF Moves
    <3> QED BY <3>1
  <2>2. CASE Smart!DownForks(p)
    BY <2>2 DEF Smart!DownForks, Smart!PutDown, Smart!Goto
  <2>3. CASE Smart!GetForks(p) \/ Smart!Awake(p)
    <3>1. Moves("eat") \/ Moves("asleep")
      BY <2>3 DEF Smart!GetForks, Smart!Awake, Smart!Goto
    <3> HIDE DEF Moves
    <3> QED BY <3>1
  <2> QED BY <1>3, <2>1, <2>2, <2>3 DEF Smart!Philosopher
<1> QED BY <1>1, <1>2, <1>3 DEF Philosopher

(* food_on_table hands out FOOD - 1 dishes, each for one meal.             *)
THEOREM DishesCorrect == Init /\ [][Next]_vars => []DishesExact
<1>1. ASSUME Init PROVE DishInv
  <2>1. /\ food = FOOD /\ eaten = [p \in Philosophers |-> 0]
        /\ pc = [p \in Philosophers |-> "table"]
    BY <1>1, SameTable DEF Init, Waiter!Init, Waiter!DinnerInit
  <2>2. Sums(eaten, MealsOf)
    <3>1. eaten \in [Philosophers -> Nat]
      BY <2>1
    <3> QED BY <3>1, SumsExist DEF MealsOf, Sums
  <2>3. MealsOf[PHILOSOPHERS] = 0
    <3>1. Sums([q \in Philosophers |-> 0], MealsOf)
      BY <2>1, <2>2
    <3> QED BY <3>1, NoMeals
  <2>4. AtDish = {}
    BY <2>1 DEF AtDish
  <2>5. Cardinality(AtDish) = 0
    BY <2>4, FS_EmptySet
  <2> DEFINE m == MealsOf[PHILOSOPHERS]
             a == Cardinality(AtDish)
  <2>6. m = 0 /\ a = 0 /\ food = FOOD /\ FOOD \in Nat /\ FOOD # 0
    BY <2>1, <2>3, <2>5, TableSize
  <2>7. eaten \in [Philosophers -> Nat]
    BY <2>1
  <2> HIDE DEF m, a
  <2>8. m + a = FOOD - food - (IF food = 0 THEN 1 ELSE 0)
        /\ food \in Nat /\ food <= FOOD
    <3>1. FOOD - FOOD - 0 = 0 /\ 0 + 0 = 0 /\ FOOD <= FOOD
      BY <2>6
    <3>2. FOOD - food - (IF food = 0 THEN 1 ELSE 0) = 0
      BY <2>6, <3>1
    <3> QED BY <2>6, <3>1, <3>2
  <2>9. DishesExact
    BY <2>8 DEF DishesExact, m, a
  <2> QED BY <2>7, <2>8, <2>9 DEF DishInv
<1>2. ASSUME Inv, DishInv, [Next]_vars PROVE DishInv'
  <2>1. ASSUME UNCHANGED <<food, pc, eaten>> PROVE DishInv'
    <3>1. MealsOf' = MealsOf /\ AtDish' = AtDish
      BY <2>1 DEF MealsOf, AtDish
    <3> QED BY <1>2, <2>1, <3>1 DEF DishInv, DishesExact
  <2>2. CASE Main
    BY <2>1, <2>2 DEF Main, Waiter!Main, Trylock!Main, Smart!Main,
                      Waiter!dinnerVars, Trylock!dinnerVars, Smart!dinnerVars
  <2>3. ASSUME NEW p \in Philosophers, Philosopher(p) PROVE DishInv'
    <3>1. DOMAIN pc = Philosophers
      BY <1>2 DEF Inv, WaiterInv, TrylockInv, SmartInv
    <3> QED BY <1>2, <2>3, <3>1, DishMoves, DishStep
  <2>4. ASSUME NEW p \in Philosophers, SpuriousWakeup(p) PROVE DishInv'
    BY <2>1, <2>4 DEF SpuriousWakeup, Trylock!SpuriousWakeup, Smart!SpuriousWakeup,
                      Trylock!dinnerVars, Smart!dinnerVars
  <2>5. CASE UNCHANGED vars
    BY <2>1, <2>5 DEF vars, dinnerVars
  <2> QED BY <1>2, <2>2, <2>3, <2>4, <2>5 DEF Next
<1>3. DishInv => DishesExact
  BY DEF DishInv
<1> QED BY <1>1, <1>2, <1>3, Invariance, PTL
=============================================================================
