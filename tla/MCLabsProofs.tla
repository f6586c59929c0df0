---------------------------- MODULE MCLabsProofs ----------------------------
(***************************************************************************)
(* The small programs for all sizes: the threads of Lab10, Lab12 and       *)
(* Lab13 take turns, however many lines they print; the threads of Lab8    *)
(* and Lab7 share the terms as they should, however many threads; the      *)
(* outputs of Lab1 to Lab5 are whole; Lab6 loses no file of any tree       *)
(* without a word; and the lists of Lab16 and Lab17 keep their strings and *)
(* are sorted by a pass, however long they are.                            *)
(***************************************************************************)
EXTENDS MCLabs, FiniteSetTheorems, SequenceTheorems, WellFoundedInduction, TLAPS

-----------------------------------------------------------------------------
(* Lab13: there is one turn, on a semaphore or in the hands of a thread.   *)
AtTurn(t) == pc[t] \in {"print", "post"}
Lead == printed["parent"] - printed["child"]

SemsInv ==
  /\ pc \in [Threads -> {"create", "none", "failed", "wait", "print", "post", "done"}]
  /\ pc["child"] # "create" /\ pc["parent"] \notin {"none", "failed"}
  /\ pc["parent"] = "create" => pc["child"] = "none"
  /\ printed \in [Threads -> Nat]
  /\ sem \in [{"sem1", "sem2"} -> 0 .. 1]
  /\ \/ /\ sem["sem2"] = 1 /\ sem["sem1"] = 0 /\ Lead = 0
        /\ ~AtTurn("parent") /\ ~AtTurn("child")
     \/ /\ sem["sem2"] = 0 /\ sem["sem1"] = 0 /\ ~AtTurn("child")
        /\ \/ pc["parent"] = "print" /\ Lead = 0
           \/ pc["parent"] = "post" /\ Lead = 1
     \/ /\ sem["sem2"] = 0 /\ sem["sem1"] = 1 /\ Lead = 1
        /\ ~AtTurn("parent") /\ ~AtTurn("child")
     \/ /\ sem["sem2"] = 0 /\ sem["sem1"] = 0 /\ ~AtTurn("parent")
        /\ \/ pc["child"] = "print" /\ Lead = 1
           \/ pc["child"] = "post" /\ Lead = 0

(* Lab12: who waits has printed last, until somebody has left the loop.    *)
CondInv ==
  /\ pc \in [Threads -> {"create", "none", "failed", "turn", "done"}]
  /\ printed \in [Threads -> 0 .. Strings]
  /\ \/ mutex = "parent" /\ waiting = {} /\ printed["parent"] = 0 /\ printed["child"] = 0
     \/ mutex = "free" /\ waiting = {"parent"} /\ Lead = 1
     \/ mutex = "free" /\ waiting = {"child"} /\ Lead = 0
     \/ /\ mutex = "free" /\ waiting = {}
        /\ printed["parent"] = Strings /\ printed["child"] = Strings

(* Lab10: the mutexes a thread holds follow from where it stands: at a     *)
(* lock the one after that it wants, at an unlock all but the one after    *)
(* that it lets go.                                                        *)
After(x) == IF x = 2 THEN 0 ELSE x + 1

Holds(t, place, x, m) ==
  \/ place = "lock" /\ m = After(x)
  \/ place = "unlock" /\ m # After(x)
  \/ place = "print" /\ m = 1
  \/ t = "parent" /\ place \in {"create", "yield", "begin"} /\ m = 2
  \/ t = "child" /\ place = "done" /\ m = 1

(* How k, x here, and i, n here, go with the p or c lines printed: of      *)
(* three steps the parent prints in the first and the child in the last.   *)
ParentStage(place, x, n, p) ==
  \/ place \in {"create", "yield", "begin"} /\ x = 1 /\ n = 0 /\ p = 0
  \/ /\ place = "lock"
     /\ \/ x = 1 /\ n = 3 * p
        \/ x = 0 /\ n = 3 * p - 2
        \/ x = 2 /\ n = 3 * p - 1
  \/ /\ place = "unlock"
     /\ \/ x = 2 /\ n = 3 * p
        \/ x = 1 /\ n = 3 * p - 2
        \/ x = 0 /\ n = 3 * p - 1
  \/ place = "print" /\ x = 2 /\ n = 3 * p
  \/ place \in {"join", "done"} /\ n = 3 * p /\ p = Strings
ChildStage(place, x, n, c) ==
  \/ place \in {"none", "failed", "begin"} /\ x = 1 /\ n = 0 /\ c = 0
  \/ /\ place = "lock"
     /\ \/ x = 0 /\ n = 3 * c
        \/ x = 2 /\ n = 3 * c + 1
        \/ x = 1 /\ n = 3 * c + 2
  \/ /\ place = "unlock"
     /\ \/ x = 1 /\ n = 3 * c
        \/ x = 0 /\ n = 3 * c + 1
        \/ x = 2 /\ n = 3 * c + 2
  \/ place = "print" /\ x = 2 /\ n = 3 * c + 2
  \/ place = "done" /\ n = 3 * c /\ c = Strings

(* The child is at most one step ahead, and who is between a lock and its  *)
(* unlock takes the next step.                                             *)
Steps(place, n) == IF place = "print" THEN n + 1 ELSE n
Pace(pa, pn, ca, cn) ==
  /\ Steps(ca, cn) = Steps(pa, pn) \/ Steps(ca, cn) = Steps(pa, pn) + 1
  /\ ca = "unlock" => Steps(ca, cn) = Steps(pa, pn)
  /\ pa = "unlock" => Steps(ca, cn) = Steps(pa, pn) + 1

ParentPlaces == {"create", "yield", "begin", "lock", "unlock", "print", "join", "done"}
ChildPlaces == {"none", "failed", "begin", "lock", "unlock", "print", "done"}

MutexInv ==
  /\ pc \in [Threads -> ParentPlaces \cup ChildPlaces]
  /\ pc["parent"] \in ParentPlaces /\ pc["child"] \in ChildPlaces
  /\ printed \in [Threads -> Nat]
  /\ mute \in [0 .. 2 -> Threads \cup {Nobody}]
  /\ k \in [Threads -> 0 .. 2] /\ i \in [Threads -> 0 .. 3 * Strings]
  /\ \A t \in Threads : pc[t] \in {"unlock", "print"} => i[t] < 3 * Strings
  /\ pc["parent"] = "create" <=> pc["child"] = "none"
  /\ ready \in BOOLEAN
  /\ ready <=> pc["child"] \notin {"none", "failed", "begin"}
  /\ ~ready => pc["parent"] \in {"create", "yield"}
  /\ \A t \in Threads : \A m \in 0 .. 2 : mute[m] = t <=> Holds(t, pc[t], k[t], m)
  /\ ParentStage(pc["parent"], k["parent"], i["parent"], printed["parent"])
  /\ ChildStage(pc["child"], k["child"], i["child"], printed["child"])
  /\ Pace(pc["parent"], i["parent"], pc["child"], i["child"])

TurnsInv ==
  /\ program = "Lab10" => MutexInv
  /\ program = "Lab12" => (spurious \/ CondInv)
  /\ program = "Lab13" => SemsInv
  /\ program # "Lab12" => ~spurious
-----------------------------------------------------------------------------
(* A step of Lab13 keeps the one turn.                                     *)
LEMMA SemsStep ==
  ASSUME SemsInv, NEW t \in Threads, Sems!Thread(t)
  PROVE  SemsInv'
<1>1. CASE t = "parent" /\ Sems!Create("wait", "wait", "wait") /\ UNCHANGED sem
  BY <1>1 DEF SemsInv, AtTurn, Lead, Threads, Sems!Create
<1>2. CASE Sems!Wait(t)
  <2>1. /\ pc[t] = "wait" /\ sem[Sems!Own(t)] > 0
        /\ sem' = [sem EXCEPT ![Sems!Own(t)] = @ - 1]
        /\ pc' = [pc EXCEPT ![t] = "print"]
        /\ UNCHANGED printed
    BY <1>2 DEF Sems!Wait, Sems!Goto
  <2>2. CASE t = "parent"
    BY <2>1, <2>2 DEF SemsInv, AtTurn, Lead, Threads, Sems!Own
  <2>3. CASE t = "child"
    BY <2>1, <2>3 DEF SemsInv, AtTurn, Lead, Threads, Sems!Own
  <2> QED BY <2>2, <2>3 DEF Threads
<1>3. CASE Sems!PrintLine(t)
  BY <1>3 DEF SemsInv, AtTurn, Lead, Threads, Sems!PrintLine, Sems!PrintString, Sems!Goto
<1>4. CASE Sems!Post(t)
  BY <1>4 DEF SemsInv, AtTurn, Lead, Threads, Sems!Post, Sems!Others, Sems!Goto
<1>5. CASE Sems!Leave(t)
  BY <1>5 DEF SemsInv, AtTurn, Lead, Threads, Sems!Leave, Sems!Goto
<1> QED BY <1>1, <1>2, <1>3, <1>4, <1>5 DEF Sems!Thread

(* A step of Lab12 keeps it that who waits has printed last.               *)
LEMMA CondStep ==
  ASSUME CondInv, NEW t \in Threads, Cond!Thread(t)
  PROVE  CondInv'
<1>1. CASE t = "parent" /\ Cond!Create("turn", "turn", "done")
           /\ UNCHANGED <<mutex, waiting, spurious>>
  BY <1>1 DEF CondInv, Lead, Threads, Cond!Create
<1>2. CASE Cond!Turn(t)
  BY <1>2, SomeStrings DEF CondInv, Lead, Threads, Cond!Turn, Cond!MayRun, Cond!PrintString
<1>3. CASE Cond!Leave(t)
  BY <1>3, SomeStrings DEF CondInv, Lead, Threads, Cond!Leave, Cond!MayRun, Cond!Goto
<1> QED BY <1>1, <1>2, <1>3 DEF Cond!Thread

(* The step from a mutex to the next, (k + 1) % 3 in the source.           *)
LEMMA NextMutex == \A x \in 0 .. 2 : (x + 1) % 3 = After(x)
<1>1. (0 + 1) % 3 = 1 /\ (1 + 1) % 3 = 2 /\ (2 + 1) % 3 = 0
  OBVIOUS
<1> QED BY <1>1 DEF After

(* Nobody overtakes: whoever is not next waits for a mutex of the other.   *)
LEMMA ChildIsNext ==
  ASSUME NEW pa \in ParentPlaces, NEW px \in 0 .. 2, NEW pn \in 0 .. 3 * Strings, NEW p \in Nat,
         NEW cx \in 0 .. 2, NEW cn \in 0 .. 3 * Strings, NEW c \in Nat,
         ParentStage(pa, px, pn, p), ChildStage("lock", cx, cn, c),
         Pace(pa, pn, "lock", cn), cn < 3 * Strings, ~Holds("parent", pa, px, cx)
  PROVE  cn = Steps(pa, pn)
BY SomeStrings DEF ParentPlaces, ParentStage, ChildStage, Pace, Steps, Holds, After

(* The same for the parent.                                                *)
LEMMA ParentIsNext ==
  ASSUME NEW ca \in ChildPlaces \ {"none", "failed", "begin"},
         NEW px \in 0 .. 2, NEW pn \in 0 .. 3 * Strings, NEW p \in Nat,
         NEW cx \in 0 .. 2, NEW cn \in 0 .. 3 * Strings, NEW c \in Nat,
         ParentStage("lock", px, pn, p), ChildStage(ca, cx, cn, c),
         Pace("lock", pn, ca, cn), pn < 3 * Strings, ~Holds("child", ca, cx, px)
  PROVE  Steps(ca, cn) = pn + 1
BY SomeStrings DEF ChildPlaces, ParentStage, ChildStage, Pace, Steps, Holds, After

(* What a thread's step has to see to for MutexInv to hold behind it.      *)
Moves(t, place, x, n, lines) ==
  /\ pc' = [pc EXCEPT ![t] = place] /\ k' = [k EXCEPT ![t] = x]
  /\ i' = [i EXCEPT ![t] = n] /\ printed' = [printed EXCEPT ![t] = lines]
  /\ mute' \in [0 .. 2 -> Threads \cup {Nobody}]
  /\ \A m \in 0 .. 2 :
       /\ mute'[m] = t <=> Holds(t, place, x, m)
       /\ \A u \in Threads \ {t} : mute'[m] = u <=> mute[m] = u
  /\ place \in {"unlock", "print"} => n < 3 * Strings

(* A step of the parent keeps MutexInv if it sees to that.                 *)
LEMMA ParentMoves ==
  ASSUME MutexInv, NEW place \in ParentPlaces \ {"create"},
         NEW x \in 0 .. 2, NEW n \in 0 .. 3 * Strings, NEW p \in Nat,
         Moves("parent", place, x, n, p), pc["parent"] # "create",
         ready \/ place = "yield", UNCHANGED ready,
         ParentStage(place, x, n, p), Pace(place, n, pc["child"], i["child"])
  PROVE  MutexInv'
<1>1. /\ pc'["parent"] = place /\ k'["parent"] = x /\ i'["parent"] = n
      /\ printed'["parent"] = p
      /\ pc'["child"] = pc["child"] /\ k'["child"] = k["child"] /\ i'["child"] = i["child"]
      /\ printed'["child"] = printed["child"]
      /\ pc' \in [Threads -> ParentPlaces \cup ChildPlaces]
      /\ printed' \in [Threads -> Nat]
      /\ k' \in [Threads -> 0 .. 2] /\ i' \in [Threads -> 0 .. 3 * Strings]
  BY DEF MutexInv, Moves, Threads
<1>2. /\ pc'["child"] \in ChildPlaces
      /\ \A m \in 0 .. 2 : /\ mute'[m] = "parent" <=> Holds("parent", pc'["parent"], k'["parent"], m)
                           /\ mute'[m] = "child" <=> Holds("child", pc'["child"], k'["child"], m)
  BY <1>1 DEF MutexInv, Moves, Threads
<1>3. \A t \in Threads : pc'[t] \in {"unlock", "print"} => i'[t] < 3 * Strings
  BY <1>1 DEF MutexInv, Moves, Threads
<1> QED BY <1>1, <1>2, <1>3 DEF MutexInv, Moves, Threads

(* A step of the child keeps MutexInv if it sees to that.                  *)
LEMMA ChildMoves ==
  ASSUME MutexInv, NEW place \in ChildPlaces \ {"none", "failed", "begin"},
         NEW x \in 0 .. 2, NEW n \in 0 .. 3 * Strings, NEW c \in Nat,
         Moves("child", place, x, n, c), pc["child"] # "none", ready' = TRUE,
         ChildStage(place, x, n, c), Pace(pc["parent"], i["parent"], place, n)
  PROVE  MutexInv'
<1>1. /\ pc'["child"] = place /\ k'["child"] = x /\ i'["child"] = n
      /\ printed'["child"] = c
      /\ pc'["parent"] = pc["parent"] /\ k'["parent"] = k["parent"] /\ i'["parent"] = i["parent"]
      /\ printed'["parent"] = printed["parent"]
      /\ pc' \in [Threads -> ParentPlaces \cup ChildPlaces]
      /\ printed' \in [Threads -> Nat]
      /\ k' \in [Threads -> 0 .. 2] /\ i' \in [Threads -> 0 .. 3 * Strings]
  BY DEF MutexInv, Moves, Threads
<1>2. /\ pc'["parent"] \in ParentPlaces
      /\ \A m \in 0 .. 2 : /\ mute'[m] = "parent" <=> Holds("parent", pc'["parent"], k'["parent"], m)
                           /\ mute'[m] = "child" <=> Holds("child", pc'["child"], k'["child"], m)
  BY <1>1 DEF MutexInv, Moves, Threads
<1>3. \A t \in Threads : pc'[t] \in {"unlock", "print"} => i'[t] < 3 * Strings
  BY <1>1 DEF MutexInv, Moves, Threads
<1> QED BY <1>1, <1>2, <1>3 DEF MutexInv, Moves, Threads

(* What the parent of Lab10 does sees to it: the child holds the mutex     *)
(* that would let it run ahead.                                            *)
LEMMA ParentStep ==
  ASSUME MutexInv,
         \/ Mutexes!Begin("parent") \/ Mutexes!Lock("parent") \/ Mutexes!Unlock("parent")
         \/ Mutexes!PrintLine("parent") \/ Mutexes!Leave("parent")
         \/ Mutexes!Yield \/ Mutexes!Join
  PROVE  MutexInv'
<1> DEFINE x == k["parent"]
           n == i["parent"]
           p == printed["parent"]
           a == pc["parent"]
<1>1. /\ x \in 0 .. 2 /\ n \in 0 .. 3 * Strings /\ p \in Nat /\ Strings \in Nat \ {0}
      /\ ParentStage(a, x, n, p) /\ Pace(a, n, pc["child"], i["child"])
      /\ \A m \in 0 .. 2 : /\ mute[m] = "parent" <=> Holds("parent", a, x, m)
                           /\ mute[m] = "child" <=> Holds("child", pc["child"], k["child"], m)
                           /\ mute[m] \in {"parent", "child", Nobody}
      /\ a \in {"unlock", "print"} => n < 3 * Strings
      /\ ready \/ a \in {"create", "yield"}
      /\ "parent" \in Threads /\ Threads \ {"parent"} = {"child"}
  BY SomeStrings DEF MutexInv, Threads
<1>2. CASE Mutexes!Yield \/ Mutexes!Join \/ Mutexes!Begin("parent")
  <2> DEFINE place == IF a = "yield" THEN "begin" ELSE IF a = "join" THEN "done" ELSE "lock"
  <2>1. /\ a \in {"yield", "join", "begin"} /\ ready
        /\ pc' = [pc EXCEPT !["parent"] = place] /\ ready' = ready
        /\ UNCHANGED <<printed, mute, k, i>>
    BY <1>1, <1>2 DEF Mutexes!Yield, Mutexes!Join, Mutexes!Begin, Mutexes!Goto, MutexInv
  <2>2. /\ place \in ParentPlaces \ {"create"}
        /\ ParentStage(place, x, n, p) /\ Pace(place, n, pc["child"], i["child"])
        /\ \A m \in 0 .. 2 : Holds("parent", place, x, m) <=> Holds("parent", a, x, m)
    BY <1>1, <2>1 DEF ParentPlaces, ParentStage, Pace, Steps, Holds, After
  <2>3. Moves("parent", place, x, n, p)
    BY <1>1, <2>1, <2>2 DEF Moves, MutexInv
  <2> HIDE DEF x, n, p, place
  <2> QED BY <1>1, <2>1, <2>2, <2>3, ParentMoves DEF a
<1>3. CASE Mutexes!Lock("parent")
  <2>1. /\ a = "lock" /\ n < 3 * Strings /\ ready' = ready
        /\ \/ mute[x] = "parent" /\ mute' = mute
           \/ mute[x] = Nobody /\ mute' = [mute EXCEPT ![x] = "parent"]
        /\ k' = [k EXCEPT !["parent"] = After(x)]
        /\ pc' = [pc EXCEPT !["parent"] = "unlock"]
        /\ UNCHANGED <<printed, i>>
    BY <1>1, <1>3, NextMutex DEF Mutexes!Lock, Mutexes!Locked, Mutexes!Goto, MutexInv
  <2>2. mute[x] = Nobody /\ ~Holds("child", pc["child"], k["child"], x)
    BY <1>1, <2>1, NobodyIsNoThread DEF Holds, After, Threads
  <2>3. Steps(pc["child"], i["child"]) = n + 1
    BY <1>1, <2>1, <2>2, ParentIsNext DEF MutexInv, Threads
  <2>4. /\ After(x) \in 0 .. 2
        /\ ParentStage("unlock", After(x), n, p)
        /\ Pace("unlock", n, pc["child"], i["child"])
        /\ \A m \in 0 .. 2 : Holds("parent", "unlock", After(x), m)
                               <=> m = x \/ Holds("parent", "lock", x, m)
    BY <1>1, <2>1, <2>3 DEF ParentStage, Pace, Steps, Holds, After
  <2>5. Moves("parent", "unlock", After(x), n, p)
    BY <1>1, <2>1, <2>2, <2>4, NobodyIsNoThread DEF Moves, MutexInv, Threads
  <2> HIDE DEF x, n, p
  <2> QED BY <1>1, <2>1, <2>4, <2>5, ParentMoves DEF a, ParentPlaces
<1>4. CASE Mutexes!Unlock("parent")
  <2> DEFINE place == IF x = 2 THEN "print" ELSE "lock"
             next1 == IF x = 2 THEN x ELSE After(x)
             steps == IF x = 2 THEN n ELSE n + 1
  <2>1. /\ a = "unlock" /\ ready' = ready
        /\ mute' = IF mute[x] = "parent" THEN [mute EXCEPT ![x] = Nobody] ELSE mute
        /\ k' = [k EXCEPT !["parent"] = next1] /\ i' = [i EXCEPT !["parent"] = steps]
        /\ pc' = [pc EXCEPT !["parent"] = place]
        /\ UNCHANGED printed
    BY <1>1, <1>4, NextMutex
       DEF Mutexes!Unlock, Mutexes!Unlocked, Mutexes!Advance, Mutexes!Goto, MutexInv
  <2>2. /\ place \in ParentPlaces \ {"create"} /\ next1 \in 0 .. 2 /\ steps \in 0 .. 3 * Strings
        /\ place = "print" => steps < 3 * Strings
        /\ ParentStage(place, next1, steps, p)
        /\ Pace(place, steps, pc["child"], i["child"])
        /\ \A m \in 0 .. 2 : Holds("parent", place, next1, m)
                               <=> m # x /\ Holds("parent", "unlock", x, m)
    BY <1>1, <2>1 DEF ParentStage, ParentPlaces, Pace, Steps, Holds, After
  <2>3. Moves("parent", place, next1, steps, p)
    BY <1>1, <2>1, <2>2, NobodyIsNoThread DEF Moves, MutexInv, Threads
  <2> HIDE DEF x, n, p, place, next1, steps
  <2> QED BY <1>1, <2>1, <2>2, <2>3, ParentMoves DEF a
<1>5. CASE Mutexes!PrintLine("parent")
  <2>1. /\ a = "print" /\ ready' = ready /\ mute' = mute
        /\ k' = [k EXCEPT !["parent"] = After(x)] /\ i' = [i EXCEPT !["parent"] = n + 1]
        /\ pc' = [pc EXCEPT !["parent"] = "lock"]
        /\ printed' = [printed EXCEPT !["parent"] = p + 1]
    BY <1>1, <1>5, NextMutex
       DEF Mutexes!PrintLine, Mutexes!PrintString, Mutexes!Advance, Mutexes!Goto, MutexInv
  <2>2. /\ After(x) \in 0 .. 2 /\ n + 1 \in 0 .. 3 * Strings /\ p + 1 \in Nat
        /\ ParentStage("lock", After(x), n + 1, p + 1)
        /\ Pace("lock", n + 1, pc["child"], i["child"])
        /\ \A m \in 0 .. 2 : Holds("parent", "lock", After(x), m)
                               <=> Holds("parent", "print", x, m)
    BY <1>1, <2>1 DEF ParentStage, Pace, Steps, Holds, After
  <2>3. Moves("parent", "lock", After(x), n + 1, p + 1)
    BY <1>1, <2>1, <2>2 DEF Moves, MutexInv, Threads
  <2> HIDE DEF x, n, p
  <2> QED BY <1>1, <2>1, <2>2, <2>3, ParentMoves DEF a, ParentPlaces
<1>6. CASE Mutexes!Leave("parent")
  <2>1. /\ a = "lock" /\ n = 3 * Strings /\ ready' = ready
        /\ mute' = IF mute[2] = "parent" THEN [mute EXCEPT ![2] = Nobody] ELSE mute
        /\ pc' = [pc EXCEPT !["parent"] = "join"]
        /\ UNCHANGED <<printed, k, i>>
    BY <1>1, <1>6 DEF Mutexes!Leave, Mutexes!Unlocked, Mutexes!Goto, MutexInv
  <2>2. /\ ParentStage("join", x, n, p) /\ Pace("join", n, pc["child"], i["child"])
        /\ \A m \in 0 .. 2 : /\ Holds("parent", "lock", x, m) <=> m = 2
                             /\ ~Holds("parent", "join", x, m)
    BY <1>1, <2>1 DEF ParentStage, Pace, Steps, Holds, After
  <2>3. Moves("parent", "join", x, n, p)
    BY <1>1, <2>1, <2>2, NobodyIsNoThread DEF Moves, MutexInv, Threads
  <2> HIDE DEF x, n, p
  <2> QED BY <1>1, <2>1, <2>2, <2>3, ParentMoves DEF a, ParentPlaces
<1> QED BY <1>2, <1>3, <1>4, <1>5, <1>6

(* What the child of Lab10 does sees to it too.                            *)
LEMMA ChildStep ==
  ASSUME MutexInv,
         \/ Mutexes!Begin("child") \/ Mutexes!Lock("child") \/ Mutexes!Unlock("child")
         \/ Mutexes!PrintLine("child") \/ Mutexes!Leave("child")
  PROVE  MutexInv'
<1> DEFINE x == k["child"]
           n == i["child"]
           c == printed["child"]
           a == pc["child"]
<1>1. /\ x \in 0 .. 2 /\ n \in 0 .. 3 * Strings /\ c \in Nat /\ Strings \in Nat \ {0}
      /\ ChildStage(a, x, n, c) /\ Pace(pc["parent"], i["parent"], a, n)
      /\ \A m \in 0 .. 2 : /\ mute[m] = "child" <=> Holds("child", a, x, m)
                           /\ mute[m] = "parent" <=> Holds("parent", pc["parent"], k["parent"], m)
                           /\ mute[m] \in {"parent", "child", Nobody}
      /\ a \in {"unlock", "print"} => n < 3 * Strings
      /\ ready <=> a \notin {"none", "failed", "begin"}
      /\ ~ready => pc["parent"] \in {"create", "yield"}
      /\ "child" \in Threads /\ Threads \ {"child"} = {"parent"}
  BY SomeStrings DEF MutexInv, Threads
<1>2. CASE Mutexes!Begin("child")
  <2>1. /\ a = "begin" /\ ~ready /\ ready' = TRUE
        /\ \/ mute[1] = "child" /\ mute' = mute
           \/ mute[1] = Nobody /\ mute' = [mute EXCEPT ![1] = "child"]
        /\ k' = [k EXCEPT !["child"] = 0]
        /\ pc' = [pc EXCEPT !["child"] = "lock"]
        /\ UNCHANGED <<printed, i>>
    BY <1>1, <1>2 DEF Mutexes!Begin, Mutexes!Locked, Mutexes!Goto, MutexInv
  <2>2. /\ n = 0 /\ c = 0 /\ mute[1] = Nobody
        /\ ChildStage("lock", 0, n, c) /\ Pace(pc["parent"], i["parent"], "lock", n)
        /\ \A m \in 0 .. 2 : /\ Holds("child", "lock", 0, m) <=> m = 1
                             /\ ~Holds("child", "begin", x, m)
    BY <1>1, <2>1 DEF ChildStage, Pace, Steps, Holds, After
  <2>3. Moves("child", "lock", 0, n, c)
    BY <1>1, <2>1, <2>2, NobodyIsNoThread DEF Moves, MutexInv, Threads
  <2> HIDE DEF x, n, c
  <2> QED BY <1>1, <2>1, <2>2, <2>3, ChildMoves DEF a, ChildPlaces
<1>3. CASE Mutexes!Lock("child")
  <2>1. /\ a = "lock" /\ n < 3 * Strings /\ ready' = ready
        /\ \/ mute[x] = "child" /\ mute' = mute
           \/ mute[x] = Nobody /\ mute' = [mute EXCEPT ![x] = "child"]
        /\ k' = [k EXCEPT !["child"] = After(x)]
        /\ pc' = [pc EXCEPT !["child"] = "unlock"]
        /\ UNCHANGED <<printed, i>>
    BY <1>1, <1>3, NextMutex DEF Mutexes!Lock, Mutexes!Locked, Mutexes!Goto, MutexInv
  <2>2. mute[x] = Nobody /\ ~Holds("parent", pc["parent"], k["parent"], x)
    BY <1>1, <2>1, NobodyIsNoThread DEF Holds, After, Threads
  <2>3. n = Steps(pc["parent"], i["parent"])
    BY <1>1, <2>1, <2>2, ChildIsNext DEF MutexInv, Threads
  <2>4. /\ After(x) \in 0 .. 2
        /\ ChildStage("unlock", After(x), n, c)
        /\ Pace(pc["parent"], i["parent"], "unlock", n)
        /\ \A m \in 0 .. 2 : Holds("child", "unlock", After(x), m)
                               <=> m = x \/ Holds("child", "lock", x, m)
    BY <1>1, <2>1, <2>3 DEF ChildStage, Pace, Steps, Holds, After
  <2>5. Moves("child", "unlock", After(x), n, c)
    BY <1>1, <2>1, <2>2, <2>4, NobodyIsNoThread DEF Moves, MutexInv, Threads
  <2> HIDE DEF x, n, c
  <2> QED BY <1>1, <2>1, <2>4, <2>5, ChildMoves DEF a, ChildPlaces
<1>4. CASE Mutexes!Unlock("child")
  <2> DEFINE place == IF x = 2 THEN "print" ELSE "lock"
             next1 == IF x = 2 THEN x ELSE After(x)
             steps == IF x = 2 THEN n ELSE n + 1
  <2>1. /\ a = "unlock" /\ ready' = ready
        /\ mute' = IF mute[x] = "child" THEN [mute EXCEPT ![x] = Nobody] ELSE mute
        /\ k' = [k EXCEPT !["child"] = next1] /\ i' = [i EXCEPT !["child"] = steps]
        /\ pc' = [pc EXCEPT !["child"] = place]
        /\ UNCHANGED printed
    BY <1>1, <1>4, NextMutex
       DEF Mutexes!Unlock, Mutexes!Unlocked, Mutexes!Advance, Mutexes!Goto, MutexInv
  <2>2. /\ place \in ChildPlaces \ {"none", "failed", "begin"}
        /\ next1 \in 0 .. 2 /\ steps \in 0 .. 3 * Strings
        /\ place = "print" => steps < 3 * Strings
        /\ ChildStage(place, next1, steps, c)
        /\ Pace(pc["parent"], i["parent"], place, steps)
        /\ \A m \in 0 .. 2 : Holds("child", place, next1, m)
                               <=> m # x /\ Holds("child", "unlock", x, m)
    BY <1>1, <2>1 DEF ChildStage, ChildPlaces, Pace, Steps, Holds, After
  <2>3. Moves("child", place, next1, steps, c)
    BY <1>1, <2>1, <2>2, NobodyIsNoThread DEF Moves, MutexInv, Threads
  <2> HIDE DEF x, n, c, place, next1, steps
  <2> QED BY <1>1, <2>1, <2>2, <2>3, ChildMoves DEF a
<1>5. CASE Mutexes!PrintLine("child")
  <2>1. /\ a = "print" /\ ready' = ready /\ mute' = mute
        /\ k' = [k EXCEPT !["child"] = After(x)] /\ i' = [i EXCEPT !["child"] = n + 1]
        /\ pc' = [pc EXCEPT !["child"] = "lock"]
        /\ printed' = [printed EXCEPT !["child"] = c + 1]
    BY <1>1, <1>5, NextMutex
       DEF Mutexes!PrintLine, Mutexes!PrintString, Mutexes!Advance, Mutexes!Goto, MutexInv
  <2>2. /\ After(x) \in 0 .. 2 /\ n + 1 \in 0 .. 3 * Strings /\ c + 1 \in Nat
        /\ ChildStage("lock", After(x), n + 1, c + 1)
        /\ Pace(pc["parent"], i["parent"], "lock", n + 1)
        /\ \A m \in 0 .. 2 : Holds("child", "lock", After(x), m)
                               <=> Holds("child", "print", x, m)
    <3>1. x = 2 /\ n = 3 * c + 2 /\ n < 3 * Strings
      BY <1>1, <2>1 DEF ChildStage
    <3>2. ChildStage("lock", After(x), n + 1, c + 1)
      BY <1>1, <3>1 DEF ChildStage, After
    <3>3. Pace(pc["parent"], i["parent"], "lock", n + 1)
      BY <1>1, <2>1 DEF Pace, Steps
    <3> QED BY <1>1, <3>1, <3>2, <3>3 DEF Holds, After
  <2>3. Moves("child", "lock", After(x), n + 1, c + 1)
    BY <1>1, <2>1, <2>2 DEF Moves, MutexInv, Threads
  <2> HIDE DEF x, n, c
  <2> QED BY <1>1, <2>1, <2>2, <2>3, ChildMoves DEF a, ChildPlaces
<1>6. CASE Mutexes!Leave("child")
  <2>1. /\ a = "lock" /\ n = 3 * Strings /\ ready' = ready
        /\ mute' = IF mute[2] = "child" THEN [mute EXCEPT ![2] = Nobody] ELSE mute
        /\ pc' = [pc EXCEPT !["child"] = "done"]
        /\ UNCHANGED <<printed, k, i>>
    BY <1>1, <1>6 DEF Mutexes!Leave, Mutexes!Unlocked, Mutexes!Goto, MutexInv
  <2>2. /\ ChildStage("done", x, n, c) /\ Pace(pc["parent"], i["parent"], "done", n)
        /\ \A m \in 0 .. 2 : /\ Holds("child", "lock", x, m) <=> m = 1
                             /\ Holds("child", "done", x, m) <=> m = 1
    BY <1>1, <2>1 DEF ChildStage, Pace, Steps, Holds, After
  <2>3. Moves("child", "done", x, n, c)
    BY <1>1, <2>1, <2>2, NobodyIsNoThread DEF Moves, MutexInv, Threads
  <2> HIDE DEF x, n, c
  <2> QED BY <1>1, <2>1, <2>2, <2>3, ChildMoves DEF a, ChildPlaces
<1> QED BY <1>2, <1>3, <1>4, <1>5, <1>6

(* A step of Lab10, the create included, keeps MutexInv.                   *)
LEMMA MutexStep ==
  ASSUME MutexInv, NEW t \in Threads, Mutexes!Thread(t)
  PROVE  MutexInv'
<1>1. CASE Mutexes!Create("begin", "yield", "yield") /\ UNCHANGED <<mute, ready, k, i>>
  <2>1. /\ pc["parent"] = "create" /\ pc["child"] = "none" /\ ~ready
        /\ pc'["parent"] = "yield" /\ pc'["child"] \in {"begin", "failed"}
        /\ pc' \in [Threads -> ParentPlaces \cup ChildPlaces]
        /\ UNCHANGED <<printed, mute, ready, k, i>>
    BY <1>1 DEF Mutexes!Create, MutexInv, Threads, ParentPlaces, ChildPlaces
  <2>2. \A x, m \in 0 .. 2 :
          /\ Holds("parent", "yield", x, m) <=> Holds("parent", "create", x, m)
          /\ ~Holds("child", "none", x, m) /\ ~Holds("child", pc'["child"], x, m)
    BY <2>1 DEF Holds
  <2>3. \A x, n, p : /\ ParentStage("create", x, n, p) => ParentStage("yield", x, n, p)
                     /\ ChildStage("none", x, n, p) => ChildStage(pc'["child"], x, n, p)
    BY <2>1 DEF ParentStage, ChildStage
  <2>4. \A n, m : Pace("create", n, "none", m) => Pace("yield", n, pc'["child"], m)
    BY <2>1 DEF Pace, Steps
  <2>5. \A u \in Threads : \A m \in 0 .. 2 : mute[m] = u <=> Holds(u, pc'[u], k[u], m)
    BY <2>1, <2>2 DEF MutexInv, Threads
  <2> QED BY <2>1, <2>3, <2>4, <2>5 DEF MutexInv, Threads, ParentPlaces, ChildPlaces
<1>2. CASE t = "parent"
  BY <1>1, <1>2, ParentStep DEF Mutexes!Thread
<1>3. CASE t = "child"
  BY <1>3, ChildStep DEF Mutexes!Thread
<1> QED BY <1>2, <1>3 DEF Threads

(* A thread has printed a line for every second step it has gone.          *)
LEMMA InTurnOfLab10 == MutexInv => Alternate
BY SomeStrings DEF MutexInv, Alternate, ParentPlaces, ChildPlaces, ParentStage,
                   ChildStage, Pace, Steps, Threads

(* A program that does not take turns leaves what is about turns alone.    *)
LEMMA Others ==
  ASSUME TurnsInv, NEW p \in Programs \ Turning, Only(p)
  PROVE  TurnsInv'
<1>1. UNCHANGED <<program, pc, printed, mute, ready, k, i, mutex, waiting, spurious, sem>>
  BY DEF Only, Programs, Turning, turnVars, lab10, lab12, lab13
<1> QED BY <1>1 DEF TurnsInv, MutexInv, CondInv, SemsInv, AtTurn, Lead

(* TurnsInv holds at the start, and after every step.                      *)
LEMMA TurnsStart == Init => TurnsInv
<1> SUFFICES ASSUME Init PROVE TurnsInv
  OBVIOUS
<1>1. CASE program = "Lab10"
  <2>1. /\ InitTurns /\ ready = FALSE /\ spurious = FALSE
        /\ mute = [m \in 0 .. 2 |-> IF m = 2 THEN "parent" ELSE Nobody]
        /\ k = [t \in Threads |-> 1] /\ i = [t \in Threads |-> 0]
    BY <1>1 DEF Init, Mutexes!Init, Mutexes!InitTurns, Mutexes!Threads, InitTurns, Threads
  <2>2. MutexInv
    <3>1. /\ pc["parent"] = "create" /\ pc["child"] = "none"
          /\ k["parent"] = 1 /\ i["parent"] = 0 /\ printed["parent"] = 0
          /\ k["child"] = 1 /\ i["child"] = 0 /\ printed["child"] = 0
          /\ mute[0] = Nobody /\ mute[1] = Nobody /\ mute[2] = "parent"
          /\ Nobody # "parent" /\ Nobody # "child"
      BY <2>1, NobodyIsNoThread DEF InitTurns, Threads
    <3>2. \A t \in Threads : \A m \in 0 .. 2 : mute[m] = t <=> Holds(t, pc[t], k[t], m)
      BY <3>1 DEF Holds, Threads
    <3>3. /\ pc \in [Threads -> ParentPlaces \cup ChildPlaces]
          /\ printed \in [Threads -> Nat]
          /\ mute \in [0 .. 2 -> Threads \cup {Nobody}]
          /\ k \in [Threads -> 0 .. 2] /\ i \in [Threads -> 0 .. 3 * Strings]
      BY <2>1, SomeStrings DEF InitTurns, Threads, ParentPlaces, ChildPlaces
    <3>4. /\ ParentStage("create", 1, 0, 0) /\ ChildStage("none", 1, 0, 0)
          /\ Pace("create", 0, "none", 0)
      BY DEF ParentStage, ChildStage, Pace, Steps
    <3>5. /\ pc["parent"] \in ParentPlaces /\ pc["child"] \in ChildPlaces
          /\ \A t \in Threads : pc[t] \notin {"unlock", "print"}
          /\ pc["child"] \in {"none", "failed", "begin"} /\ ready = FALSE
      BY <2>1, <3>1 DEF ParentPlaces, ChildPlaces, Threads
    <3> QED BY <3>1, <3>2, <3>3, <3>4, <3>5 DEF MutexInv
  <2> QED BY <1>1, <2>1, <2>2 DEF TurnsInv
<1>2. CASE program = "Lab12"
  BY <1>2, SomeStrings
     DEF Init, Cond!Init, Cond!InitTurns, TurnsInv, CondInv, Lead, Threads, Cond!Threads
<1>3. CASE program = "Lab13"
  BY <1>3 DEF Init, Sems!Init, Sems!InitTurns, TurnsInv, SemsInv, AtTurn, Lead, Threads, Sems!Threads
<1>4. CASE program \notin Turning
  BY <1>4 DEF Init, TurnsInv, Turning
<1> QED BY <1>1, <1>2, <1>3, <1>4 DEF Turning

(* Every step keeps TurnsInv: those of the three programs by the above.    *)
LEMMA TurnsStep ==
  ASSUME TurnsInv, [Next]_vars
  PROVE  TurnsInv'
<1>1. ASSUME NEW t \in Threads, Thread(t)
      PROVE  TurnsInv'
  <2>1. CASE Only("Lab10") /\ Mutexes!Thread(t)
    BY <2>1, MutexStep DEF Only, lab12, TurnsInv
  <2>2. CASE Only("Lab12") /\ Cond!Thread(t)
    <3>1. spurious' = spurious
      BY <2>2 DEF Cond!Thread, Cond!Turn, Cond!Leave
    <3> QED BY <2>2, <3>1, CondStep DEF Only, TurnsInv
  <2>3. CASE Only("Lab13") /\ Sems!Thread(t)
    BY <2>3, SemsStep DEF Only, lab12, TurnsInv
  <2> QED BY <1>1, <2>1, <2>2, <2>3 DEF Thread
<1>2. ASSUME NEW t \in Threads, SpuriousWakeup(t)
      PROVE  TurnsInv'
  BY <1>2 DEF SpuriousWakeup, Cond!SpuriousWakeup, Only, TurnsInv
<1>3. CASE \E p \in Programs \ Turning : Only(p)
  BY <1>3, Others
<1>4. CASE UNCHANGED vars
  BY <1>4 DEF vars, turnVars, lab10, lab12, lab13, TurnsInv, MutexInv, CondInv, SemsInv,
              AtTurn, Lead
<1> QED BY <1>1, <1>2, <1>3, <1>4
        DEF Next, Programs, Turning, Worker, Main8, Sigint, PrintLine1, Main1, Main4, Thread4,
            sigAlarm, Main7, Thread7, createDetail, createModule, Main22, cpFunction, Lab16, Lab17

(* From the three invariants, the turns.                                   *)
LEMMA InTurnHolds == TurnsInv => InTurn
<1>1. CondInv => Alternate
  BY DEF CondInv, Lead, Alternate, Threads
<1>2. SemsInv => Alternate
  BY DEF SemsInv, Lead, Alternate, Threads
<1> QED BY <1>1, <1>2, InTurnOfLab10 DEF TurnsInv, InTurn, Turning

(* The threads of Lab10, Lab12 and Lab13 take turns, however many lines    *)
(* they print: the source's 10 are enough for no count to run away.        *)
THEOREM TurnsCorrect == Init /\ [][Next]_vars => []InTurn
BY TurnsStart, TurnsStep, InTurnHolds, PTL
-----------------------------------------------------------------------------
(* Lab1 to Lab3: who is joined has printed everything, and nobody is       *)
(* joined before all are created.                                          *)
FirstInv ==
  /\ plan \in {First!Lab1, First!Lab2, First!Lab3}
  /\ main1 \in {"create", "join", "own", "done"}
  /\ made \in 0 .. plan.threads /\ joined1 \in 0 .. plan.threads
  /\ main1 = "create" => joined1 = 0
  /\ main1 = "join" => joined1 < plan.threads
  /\ said \in [1 .. 4 -> Nat]
  /\ \A t \in 1 .. joined1 : said[t] = plan.lines

(* Lab4 and Lab5: between two sentences the thread can not be canceled,    *)
(* and the handler is pushed until it ran or was popped.                   *)
CancelInv ==
  /\ thread4 \in {"none", "begin", "loop", "test", "ended", "canceled"}
  /\ main4 = "create" => thread4 = "none"
  /\ thread4 = "loop" => enabled = FALSE
  /\ thread4 \in {"none", "begin"} => word = 0
  /\ thread4 \in {"test", "ended", "canceled"} => word = 0 /\ flag_to_finish
  /\ cleanup \in BOOLEAN
  /\ cleanup <=> lab = "Lab5" /\ thread4 \in {"loop", "test"}
  /\ handled = IF thread4 = "canceled" /\ lab = "Lab5" THEN 1 ELSE 0

(* A step of Lab1 to Lab3 keeps what was joined printed.                   *)
LEMMA FirstStep ==
  ASSUME FirstInv, First!Main \/ \E t \in DOMAIN said : First!PrintLine(t)
  PROVE  FirstInv'
<1> USE DEF First!Lab1, First!Lab2, First!Lab3
<1>1. CASE First!Create
  BY <1>1 DEF FirstInv, First!Create
<1>2. CASE First!Join
  BY <1>2 DEF FirstInv, First!Join
<1>3. CASE First!PrintOwn
  BY <1>3 DEF FirstInv, First!PrintOwn
<1>4. ASSUME NEW t \in DOMAIN said, First!PrintLine(t)
      PROVE  FirstInv'
  BY <1>4 DEF FirstInv, First!PrintLine
<1> QED BY <1>1, <1>2, <1>3, <1>4 DEF First!Main

(* A step of Lab4 or Lab5 keeps the cancellation between sentences.        *)
LEMMA CancelStep ==
  ASSUME CancelInv, Cancels!Main \/ Cancels!Thread \/ Cancels!sigAlarm
  PROVE  CancelInv'
<1>1. CASE Cancels!Main
  BY <1>1 DEF CancelInv, Cancels!Main, Cancels!Create, Cancels!SetAlarm,
              Cancels!RequestCancel, Cancels!Join, Cancels!threadVars
<1>2. CASE Cancels!Disable
  BY <1>2 DEF CancelInv, Cancels!Disable
<1>3. CASE Cancels!PrintWord
  BY <1>3 DEF CancelInv, Cancels!PrintWord, Cancels!Canceled
<1>4. CASE Cancels!Enable
  BY <1>4 DEF CancelInv, Cancels!Enable
<1>5. CASE Cancels!TestCancel
  <2>1. /\ word = 0 /\ flag_to_finish /\ handled = 0 /\ main4 # "create"
        /\ cleanup = TRUE <=> lab = "Lab5"
        /\ UNCHANGED <<lab, main4, word, enabled, flag_to_finish>>
    BY <1>5 DEF CancelInv, Cancels!TestCancel, Cancels!Canceled
  <2>2. /\ cleanup' = FALSE
        /\ \/ thread4' = "canceled" /\ handled' = IF cleanup THEN 1 ELSE 0
           \/ thread4' = "ended" /\ handled' = 0
    BY <1>5, <2>1 DEF Cancels!TestCancel, Cancels!Canceled
  <2> QED BY <2>1, <2>2 DEF CancelInv
<1>6. CASE Cancels!sigAlarm
  BY <1>6 DEF CancelInv, Cancels!sigAlarm, Cancels!threadVars
<1> QED BY <1>1, <1>2, <1>3, <1>4, <1>5, <1>6 DEF Cancels!Thread

(* In the other programs nothing of this changes.                          *)
LEMMA OutputStep ==
  ASSUME FirstInv /\ CancelInv, [Next]_vars
  PROVE  (FirstInv /\ CancelInv)'
<1>1. ASSUME UNCHANGED lab1
      PROVE  FirstInv'
  BY <1>1 DEF FirstInv, lab1
<1>2. ASSUME UNCHANGED lab4
      PROVE  CancelInv'
  BY <1>2 DEF CancelInv, lab4
<1>3. CASE Main1 \/ \E t \in DOMAIN said : PrintLine1(t)
  BY <1>2, <1>3, FirstStep DEF Main1, PrintLine1, Only
<1>4. CASE Main4 \/ Thread4 \/ sigAlarm
  BY <1>1, <1>4, CancelStep DEF Main4, Thread4, sigAlarm, Only
<1>5. CASE UNCHANGED vars \/ \E p \in Programs \ {"Lab1-3", "Lab4-5"} : Only(p)
  BY <1>1, <1>2, <1>5 DEF vars, Only
<1> QED BY <1>3, <1>4, <1>5
        DEF Next, Programs, Turning, Thread, SpuriousWakeup, Worker, Main8, Sigint, Main7,
            Thread7, createDetail, createModule, Main22, cpFunction, Lab16, Lab17

(* The output of Lab1 to Lab5 is whole, whatever threads are created and   *)
(* whenever the alarm and the cancellation come.                           *)
THEOREM OutputCorrect == Init /\ [][Next]_vars => []OutputWhole
<1>1. First!Init => FirstInv
  BY DEF FirstInv, First!Init, First!Lab1, First!Lab2, First!Lab3
<1>2. Cancels!Init => CancelInv
  BY DEF CancelInv, Cancels!Init
<1>3. Init => FirstInv /\ CancelInv
  BY <1>1, <1>2 DEF Init
<1>4. FirstInv /\ CancelInv => OutputWhole
  BY DEF FirstInv, CancelInv, OutputWhole, First!JoinedFirst, Cancels!WholeSentences,
         First!Lab1, First!Lab2, First!Lab3
<1> QED BY <1>3, <1>4, OutputStep, PTL
-----------------------------------------------------------------------------
(* Two multiples of T are T apart.                                         *)
LEMMA Apart ==
  ASSUME NEW T \in Nat \ {0}, NEW q \in Int, NEW p \in Int, q # p
  PROVE  T * q >= T * p + T \/ T * p >= T * q + T
<1>1. ASSUME NEW x \in Int, NEW y \in Int, x > y
      PROVE  T * x >= T * y + T
  <2>1. PICK d \in Nat : x = y + 1 + d
    <3>1. x - y - 1 \in Nat /\ x = y + 1 + (x - y - 1)
      BY <1>1
    <3> QED BY <3>1
  <2>2. T * x = T * y + T + T * d /\ T * d \in Nat
    BY <2>1
  <2> QED BY <2>2
<1> QED BY <1>1

(* Quotient and remainder.                                                 *)
LEMMA Divide ==
  ASSUME NEW T \in Nat \ {0}, NEW n \in Nat
  PROVE  /\ n % T \in 0 .. T - 1
         /\ \E q \in Int : n = T * q + (n % T)
<1>1. n = T * (n \div T) + (n % T) /\ n \div T \in Int
  OBVIOUS
<1>2. n % T \in 0 .. T - 1
  OBVIOUS
<1> QED BY <1>1, <1>2

(* A remainder is unique.                                                  *)
LEMMA Remainder ==
  ASSUME NEW T \in Nat \ {0}, NEW n \in Nat, NEW q \in Int, NEW r \in 0 .. T - 1, n = T * q + r
  PROVE  n % T = r
<1>1. PICK p \in Int : n = T * p + (n % T)
  BY Divide
<1>2. n % T \in 0 .. T - 1
  BY Divide
<1>3. T * p \in Int /\ T * q \in Int
  OBVIOUS
<1> DEFINE s == n % T
<1> HIDE DEF s
<1>4. s \in 0 .. T - 1 /\ n = T * p + s
  BY <1>1, <1>2 DEF s
<1>5. p = q
  BY <1>3, <1>4, Apart
<1>6. s = r
  BY <1>3, <1>4, <1>5
<1> QED BY <1>6 DEF s

(* Of T numbers in a row, one is in each share.                            *)
LEMMA Strides ==
  ASSUME NEW T \in Nat \ {0}, NEW a \in Nat
  PROVE  /\ a < T => a % T = a
         /\ (a + T) % T = a % T
         /\ \A n \in a + 1 .. a + T - 1 : n % T # a % T
<1>1. PICK q \in Int : a = T * q + (a % T)
  BY Divide
<1>2. a % T \in 0 .. T - 1 /\ T * q \in Int /\ T * 0 = 0
  BY Divide
<1>3. ASSUME a < T
      PROVE  a % T = a
  <2>1. a = T * 0 + a /\ a \in 0 .. T - 1
    BY <1>2, <1>3
  <2> QED BY <2>1, Remainder
<1>4. (a + T) % T = a % T
  <2>1. T * (q + 1) = T * q + T /\ q + 1 \in Int
    BY <1>1
  <2>2. a + T = T * (q + 1) + (a % T) /\ a + T \in Nat
    BY <1>1, <1>2, <2>1
  <2> QED BY <1>2, <2>1, <2>2, Remainder
<1>5. ASSUME NEW n \in a + 1 .. a + T - 1, n % T = a % T
      PROVE  FALSE
  <2>0. n \in Nat
    OBVIOUS
  <2>1. PICK p \in Int : n = T * p + (n % T)
    BY <2>0, Divide
  <2>2. p # q /\ T * p \in Int
    BY <1>1, <1>2, <1>5, <2>1
  <2>3. T * q >= T * p + T \/ T * p >= T * q + T
    BY <2>2, Apart
  <2> QED BY <1>1, <1>2, <1>5, <2>1, <2>2, <2>3
<1> QED BY <1>3, <1>4, <1>5

(* Lab7: the terms of a thread are those with its remainder; it has added  *)
(* those below the one it stands at, and main those of who is joined.      *)
ShareOf(n) == n % THREADS_NUM
Cancelled == main7 \in {"cancel", "undefined"}

Share(t) ==
  /\ at7[t] # Shares!Ended => ShareOf(at7[t]) = t
  /\ \A n \in Shares!Terms7 : n \in pi[t] <=> n < at7[t] /\ ShareOf(n) = t
  /\ at7[t] = Shares!Ended /\ ~Cancelled => partial_sum[t] = pi[t]

SharesType ==
  /\ main7 \in {"create", "join", "cancel", "done", "undefined"}
  /\ created \in 0 .. THREADS_NUM /\ joined7 \in 0 .. THREADS_NUM
  /\ at7 \in [Shares!Threads7 -> Nat]
  /\ pi \in [Shares!Threads7 -> SUBSET Shares!Terms7]
  /\ partial_sum \in [Shares!Threads7 -> SUBSET Shares!Terms7]
  /\ result \in [Shares!Terms7 -> Nat]

SharesInv ==
  /\ SharesType
  /\ main7 = "create" => created < THREADS_NUM /\ joined7 = 0
  /\ main7 = "join" => joined7 < THREADS_NUM
  /\ main7 = "done" => joined7 = THREADS_NUM
  /\ \A t \in Shares!Threads7 : Share(t)
  /\ ~Cancelled => \A n \in Shares!Terms7 : result[n] = IF ShareOf(n) < joined7 THEN 1 ELSE 0

(* The shares of the threads of Lab7.                                      *)
LEMMA SharesOf ==
  /\ THREADS_NUM \in Nat \ {0} /\ Shares!Ended \in Nat
  /\ \A n \in Shares!Terms7 : /\ n \in Nat /\ n < 5 /\ ShareOf(n) \in Shares!Threads7
                              /\ n + THREADS_NUM \in Nat /\ n + THREADS_NUM < Shares!Ended
                              /\ ShareOf(n + THREADS_NUM) = ShareOf(n)
  /\ \A t \in Shares!Threads7 : t \in 0 .. THREADS_NUM - 1 /\ ShareOf(t) = t
  /\ \A n, m \in Shares!Terms7 :
       n < m /\ m < n + THREADS_NUM => ShareOf(m) # ShareOf(n)
<1>1. THREADS_NUM \in Nat \ {0}
  BY SizesPositive
<1>2. /\ Shares!Terms7 = 0 .. 4 /\ Shares!Threads7 = 0 .. THREADS_NUM - 1
      /\ Shares!Ended = 5 + THREADS_NUM
  BY DEF Shares!Terms7, Shares!Threads7, Shares!Ended
<1>3. \A n \in Shares!Terms7 : ShareOf(n) \in Shares!Threads7
  BY <1>1, <1>2, Divide DEF ShareOf
<1>4. \A n \in Shares!Terms7 : ShareOf(n + THREADS_NUM) = ShareOf(n)
  <2> SUFFICES ASSUME NEW n \in Shares!Terms7
               PROVE  (n + THREADS_NUM) % THREADS_NUM = n % THREADS_NUM
    BY Zenon DEF ShareOf
  <2>1. n \in Nat
    BY <1>2
  <2> QED BY <1>1, <2>1, Strides
<1>5. \A t \in Shares!Threads7 : ShareOf(t) = t
  <2> SUFFICES ASSUME NEW t \in Nat, t < THREADS_NUM PROVE t % THREADS_NUM = t
    BY <1>1, <1>2 DEF ShareOf
  <2> QED BY <1>1, Strides
<1>6. ASSUME NEW n \in Shares!Terms7, NEW m \in Shares!Terms7, n < m, m < n + THREADS_NUM
      PROVE  ShareOf(m) # ShareOf(n)
  <2>1. m \in n + 1 .. n + THREADS_NUM - 1 /\ n \in Nat
    BY <1>1, <1>2, <1>6
  <2> QED BY <1>1, <2>1, Strides DEF ShareOf
<1> QED BY <1>1, <1>2, <1>3, <1>4, <1>5, <1>6

(* A step of Lab7 keeps each thread to its share, and main to those        *)
(* joined.                                                                 *)
LEMMA SharesStep ==
  ASSUME SharesInv, Shares!Main \/ \E t \in Shares!Threads7 : Shares!Thread(t)
  PROVE  SharesInv'
<1>0. SharesType /\ (\A t \in Shares!Threads7 : Share(t)) /\ THREADS_NUM \in Nat \ {0}
  BY SharesOf DEF SharesInv
<1>1. CASE Shares!Create
  <2>1. /\ main7 = "create" /\ joined7 = 0 /\ created' \in 0 .. THREADS_NUM
        /\ \/ main7' = "create" /\ created' < THREADS_NUM
           \/ main7' \in {"join", "cancel"}
        /\ UNCHANGED <<joined7, at7, pi, partial_sum, result>>
    BY <1>0, <1>1 DEF SharesInv, SharesType, Shares!Create
  <2> QED BY <1>0, <2>1 DEF SharesInv, SharesType, Share, Cancelled
<1>2. CASE Shares!Join
  <2>1. /\ main7 = "join" /\ at7[joined7] = Shares!Ended /\ joined7 \in Shares!Threads7
        /\ joined7' = joined7 + 1 /\ joined7' \in 0 .. THREADS_NUM
        /\ main7' = IF joined7' = THREADS_NUM THEN "done" ELSE "join"
        /\ UNCHANGED <<created, at7, pi, partial_sum>>
    BY <1>0, <1>2 DEF SharesInv, SharesType, Shares!Join, Shares!Threads7
  <2>2. \A n \in Shares!Terms7 : n \in partial_sum[joined7] <=> ShareOf(n) = joined7
    BY <1>0, <2>1, SharesOf DEF Share, Cancelled, Shares!Ended
  <2>3. \A n \in Shares!Terms7 :
          result'[n] = result[n] + (IF ShareOf(n) = joined7 THEN 1 ELSE 0)
    BY <1>2, <2>2 DEF Shares!Join
  <2>4. /\ result' \in [Shares!Terms7 -> Nat]
        /\ \A n \in Shares!Terms7 : result'[n] = IF ShareOf(n) < joined7' THEN 1 ELSE 0
    <3>1. \A n \in Shares!Terms7 : /\ ShareOf(n) \in Int
                                   /\ result[n] = IF ShareOf(n) < joined7 THEN 1 ELSE 0
      BY <2>1, SharesOf DEF SharesInv, Cancelled
    <3>2. DOMAIN result' = Shares!Terms7 /\ joined7 \in Int
      BY <1>0, <1>2 DEF Shares!Join, SharesType
    <3>3. \A n \in Shares!Terms7 : result'[n] = IF ShareOf(n) < joined7' THEN 1 ELSE 0
      BY <2>1, <2>3, <3>1, <3>2
    <3>4. result' = [n \in Shares!Terms7 |-> result'[n]]
      BY <1>2 DEF Shares!Join
    <3> QED BY <3>3, <3>4
  <2> QED BY <1>0, <2>1, <2>4 DEF SharesInv, SharesType, Share, Cancelled
<1>3. CASE Shares!CancelThread
  <2>1. /\ main7 = "cancel" /\ main7' \in {"cancel", "undefined"}
        /\ joined7' \in 0 .. THREADS_NUM
        /\ UNCHANGED <<created, at7, pi, partial_sum, result>>
    <3>1. joined7' = joined7 \/ (joined7 < created /\ joined7' = joined7 + 1)
      BY <1>3 DEF Shares!CancelThread
    <3> QED BY <1>0, <1>3, <3>1 DEF SharesType, Shares!CancelThread
  <2> QED BY <1>0, <2>1 DEF SharesInv, SharesType, Share, Cancelled
<1>4. ASSUME NEW t \in Shares!Threads7, Shares!AddTerm(t)
      PROVE  SharesInv'
  <2> DEFINE a == at7[t]
  <2>1. /\ a \in Shares!Terms7
        /\ pi' = [pi EXCEPT ![t] = @ \cup {a}]
        /\ at7' = [at7 EXCEPT ![t] = a + THREADS_NUM]
        /\ UNCHANGED <<main7, created, joined7, partial_sum, result>>
    BY <1>4 DEF Shares!AddTerm
  <2>2. /\ a # Shares!Ended /\ a + THREADS_NUM \in Nat /\ a + THREADS_NUM # Shares!Ended
        /\ a \in Nat /\ a < 5 /\ ShareOf(a + THREADS_NUM) = t /\ ShareOf(a) = t
        /\ \A n \in Shares!Terms7 : /\ n \in Nat
                                    /\ a < n /\ n < a + THREADS_NUM => ShareOf(n) # t
    BY <1>0, <2>1, SharesOf DEF Share
  <2>3. /\ at7' \in [Shares!Threads7 -> Nat]
        /\ pi' \in [Shares!Threads7 -> SUBSET Shares!Terms7]
        /\ at7'[t] = a + THREADS_NUM /\ pi'[t] = pi[t] \cup {a}
        /\ \A u \in Shares!Threads7 \ {t} : at7'[u] = at7[u] /\ pi'[u] = pi[u]
    <3> HIDE DEF a
    <3> QED BY <1>0, <2>1, <2>2 DEF SharesType
  <2>4. \A n \in Shares!Terms7 : n \in pi[t] <=> n < a /\ ShareOf(n) = t
    BY <1>0 DEF Share
  <2> HIDE DEF a
  <2>5. Share(t)'
    BY <1>0, <2>1, <2>2, <2>3, <2>4 DEF Share, Cancelled, Shares!Terms7, Shares!Ended
  <2>6. \A u \in Shares!Threads7 \ {t} : Share(u)'
    BY <1>0, <2>1, <2>3 DEF Share, Cancelled, Shares!Terms7, Shares!Ended
  <2> QED BY <1>0, <2>1, <2>3, <2>5, <2>6 DEF SharesInv, SharesType, Cancelled
<1>5. ASSUME NEW t \in Shares!Threads7, Shares!Finish(t)
      PROVE  SharesInv'
  <2>1. /\ at7[t] >= 5 /\ at7' = [at7 EXCEPT ![t] = Shares!Ended]
        /\ \/ partial_sum' = [partial_sum EXCEPT ![t] = pi[t]]
           \/ main7 = "cancel" /\ partial_sum' = partial_sum
        /\ UNCHANGED <<main7, created, joined7, pi, result>>
    BY <1>5, SharesOf DEF Shares!Finish, Shares!Ended
  <2>2. /\ at7' \in [Shares!Threads7 -> Nat] /\ at7'[t] = Shares!Ended
        /\ partial_sum' \in [Shares!Threads7 -> SUBSET Shares!Terms7]
        /\ ~Cancelled => partial_sum'[t] = pi[t]
        /\ \A u \in Shares!Threads7 \ {t} : at7'[u] = at7[u] /\ partial_sum'[u] = partial_sum[u]
    BY <1>0, <2>1, SharesOf DEF SharesType, Cancelled
  <2>3. \A n \in Shares!Terms7 : n < Shares!Ended /\ n < at7[t]
    BY <1>0, <2>1, SharesOf DEF SharesType, Shares!Ended
  <2>4. Share(t)'
    BY <1>0, <2>1, <2>2, <2>3 DEF Share, Cancelled
  <2>5. \A u \in Shares!Threads7 \ {t} : Share(u)'
    BY <1>0, <2>1, <2>2 DEF Share, Cancelled
  <2> QED BY <1>0, <2>1, <2>2, <2>4, <2>5 DEF SharesInv, SharesType, Cancelled
<1> QED BY <1>1, <1>2, <1>3, <1>4, <1>5 DEF Shares!Main, Shares!Thread

(* Nothing is added at the start.                                          *)
LEMMA SharesStart == Shares!Init => SharesInv
<1> SUFFICES ASSUME Shares!Init PROVE SharesInv
  OBVIOUS
<1>1. /\ THREADS_NUM \in Nat \ {0} /\ Shares!Ended = 5 + THREADS_NUM
      /\ \A t \in Shares!Threads7 : /\ t \in Nat /\ t < THREADS_NUM /\ ShareOf(t) = t
                                    /\ \A n \in Shares!Terms7 : ~(n < t /\ ShareOf(n) = t)
  <2>1. ASSUME NEW t \in Shares!Threads7, NEW n \in Shares!Terms7, n < t
        PROVE  ShareOf(n) # t
    <3>1. n \in Shares!Threads7
      BY <2>1, SharesOf DEF Shares!Threads7
    <3> QED BY <2>1, <3>1, SharesOf
  <2> QED BY <2>1, SharesOf DEF Shares!Ended
<1>2. SharesType /\ created < THREADS_NUM /\ joined7 = 0 /\ main7 = "create"
  BY <1>1 DEF Shares!Init, SharesType
<1>3. \A t \in Shares!Threads7 : Share(t)
  BY <1>1 DEF Shares!Init, Share
<1>4. \A n \in Shares!Terms7 : ~(ShareOf(n) < joined7) /\ result[n] = 0
  BY <1>2, SharesOf DEF Shares!Init
<1> QED BY <1>2, <1>3, <1>4 DEF SharesInv, Cancelled

(* When all are joined, all shares are in the sum.                         *)
LEMMA EachTermOnce == SharesInv => Shares!EveryTermOnce
BY SharesOf DEF SharesInv, Cancelled, Shares!EveryTermOnce, Shares!Threads7
-----------------------------------------------------------------------------
(* Lab8: a thread that has left its loop stands one term back; the terms   *)
(* up to max_iter are added once by some thread, and by those behind but   *)
(* for the seam.                                                           *)
Past(t) == at[t] \notin {"loop", "agree"}
Once(t, m) == \A n \in Pi!Terms : added[t][n] = IF n < m THEN 1 ELSE 0
Seamed(t) == \E twice \in 0 .. max_iter - 1 : \A n \in Pi!Terms :
               added[t][n] = IF n = twice THEN 2 ELSE IF n < max_iter - 1 THEN 1 ELSE 0

PiType ==
  /\ main8 \in {"create", "join", "cancel", "undefined"}
  /\ made8 \in 0 .. THREADS_NUM /\ joined \in 0 .. THREADS_NUM
  /\ flag \in BOOLEAN
  /\ at \in [Pi!Workers -> {"loop", "agree", "barrier", "catchUp", "done"}]
  /\ max_iter \in Nat
  /\ com_iter \in [Pi!Workers -> Nat] /\ term \in [Pi!Workers -> Nat]
  /\ added \in [Pi!Workers -> [Pi!Terms -> Nat]]

Counted(t) ==
  /\ at[t] = "loop" => term[t] = com_iter[t]
  /\ at[t] \in {"agree", "barrier", "catchUp"} => com_iter[t] > 0 /\ term[t] = com_iter[t] - 1
  /\ at[t] # "done" => Once(t, com_iter[t])
  /\ at[t] = "done" => Once(t, max_iter) \/ Seamed(t)
  /\ Past(t) => com_iter[t] <= max_iter /\ max_iter > 0
  /\ at[t] \in {"catchUp", "done"} => \A u \in Pi!Workers : Past(u)

Ahead(t) == Past(t) /\ com_iter[t] = max_iter /\ Once(t, max_iter)

PiInv ==
  /\ PiType
  /\ main8 = "create" => made8 < THREADS_NUM
  /\ \A t \in Pi!Workers : Counted(t)
  /\ max_iter > 0 => \E t \in Pi!Workers : Ahead(t)
  /\ \A t \in 0 .. joined - 1 : at[t] = "done"

(* What a worker's step leaves as it is.                                   *)
Frame(t) ==
  /\ UNCHANGED <<main8, made8, flag, joined>>
  /\ \A u \in Pi!Workers \ {t} : /\ at'[u] = at[u] /\ com_iter'[u] = com_iter[u]
                                 /\ term'[u] = term[u] /\ added'[u] = added[u]

(* A step of a worker keeps PiInv if it keeps the worker's own count, and  *)
(* somebody ahead.                                                         *)
LEMMA PiMoves ==
  ASSUME PiInv, NEW t \in Pi!Workers, Frame(t), PiType', at[t] # "done",
         \/ max_iter' = max_iter /\ (Past(t) => Past(t)')
         \/ ~Past(t) /\ max_iter' \in Nat /\ max_iter' >= max_iter,
         Counted(t)',
         max_iter' > 0 => Ahead(t)' \/ (max_iter' = max_iter /\ ~Ahead(t))
  PROVE  PiInv'
<1>1. \A u \in Pi!Workers \ {t} : Counted(u)'
  <2> SUFFICES ASSUME NEW u \in Pi!Workers \ {t} PROVE Counted(u)'
    OBVIOUS
  <2>1. /\ Counted(u) /\ PiType
        /\ at'[u] = at[u] /\ com_iter'[u] = com_iter[u] /\ term'[u] = term[u]
        /\ added'[u] = added[u]
    BY DEF PiInv, Frame
  <2>2. CASE max_iter' = max_iter /\ (Past(t) => Past(t)')
    <3>1. \A v \in Pi!Workers : Past(v) => Past(v)'
      BY <2>2 DEF Frame, Past
    <3> QED BY <2>1, <2>2, <3>1 DEF Counted, Past, Once, Seamed
  <2>3. CASE ~Past(t) /\ max_iter' \in Nat /\ max_iter' >= max_iter
    <3>1. at[u] \notin {"catchUp", "done"}
      BY <2>1, <2>3 DEF Counted
    <3> QED BY <2>1, <2>3, <3>1 DEF Counted, Past, Once, PiType
  <2> QED BY <2>2, <2>3
<1>2. max_iter' > 0 => \E u \in Pi!Workers : Ahead(u)'
  <2>1. CASE Ahead(t)'
    BY <2>1
  <2>2. CASE max_iter' > 0 /\ max_iter' = max_iter /\ ~Ahead(t)
    <3>1. PICK u \in Pi!Workers : Ahead(u)
      BY <2>2 DEF PiInv
    <3> QED BY <2>2, <3>1 DEF Ahead, Past, Once, Frame
  <2> QED BY <2>1, <2>2
<1>3. \A u \in 0 .. joined' - 1 : at'[u] = "done"
  <2>1. joined \in 0 .. THREADS_NUM /\ \A u \in 0 .. joined - 1 : at[u] = "done"
    BY DEF PiInv, PiType
  <2>2. \A u \in 0 .. joined - 1 : u \in Pi!Workers /\ at[u] = "done"
    BY <2>1, SizesPositive DEF Pi!Workers
  <2> QED BY <2>2 DEF Frame
<1> QED BY <1>1, <1>2, <1>3 DEF PiInv, Frame

(* What Add does to the terms of a thread.                                 *)
LEMMA Adds ==
  ASSUME NEW t \in Pi!Workers, NEW from \in Int, NEW to \in Int, Pi!Add(t, from, to),
         added \in [Pi!Workers -> [Pi!Terms -> Nat]]
  PROVE  \E f \in [Pi!Terms -> Nat] :
           /\ added' = [added EXCEPT ![t] = f]
           /\ \A n \in Pi!Terms : f[n] = IF from <= n /\ n < to THEN added[t][n] + 1
                                                              ELSE added[t][n]
<1>1. added' = [added EXCEPT ![t] = added'[t]]
  BY DEF Pi!Add
<1>2. added'[t] = [n \in Pi!Terms |-> IF n \in from .. to - 1 THEN added[t][n] + 1
                                                               ELSE added[t][n]]
  BY DEF Pi!Add
<1>3. \A n \in Pi!Terms : n \in from .. to - 1 <=> from <= n /\ n < to
  BY DEF Pi!Terms
<1>4. added'[t] \in [Pi!Terms -> Nat]
  BY <1>2
<1> QED BY <1>1, <1>2, <1>3, <1>4

(* Every step of Lab8 keeps PiInv.                                         *)
LEMMA PiStep ==
  ASSUME PiInv, Pi!Main \/ Pi!Sigint \/ \E t \in Pi!Workers : Pi!Worker(t)
  PROVE  PiInv'
<1>0. /\ PiType /\ (\A t \in Pi!Workers : Counted(t))
      /\ THREADS_NUM \in Nat \ {0} /\ ITERATIONS_NUM \in Nat \ {0}
      /\ Pi!Terms \subseteq Nat
  BY SizesPositive DEF PiInv, Pi!Terms
<1>1. CASE Pi!Main \/ Pi!Sigint
  <2>1. /\ main8' \in {"create", "join", "cancel", "undefined"}
        /\ made8' \in 0 .. THREADS_NUM /\ flag' \in BOOLEAN
        /\ main8' = "create" => made8' < THREADS_NUM
    <3>0. /\ main8 \in {"create", "join", "cancel", "undefined"}
          /\ made8 \in 0 .. THREADS_NUM /\ flag \in BOOLEAN
          /\ main8 = "create" => made8 < THREADS_NUM
      BY DEF PiInv, PiType
    <3>1. CASE Pi!Create
      BY <1>0, <3>0, <3>1 DEF Pi!Create
    <3>2. CASE Pi!cancel_threads \/ Pi!Join \/ Pi!Sigint
      BY <3>0, <3>2 DEF Pi!cancel_threads, Pi!Join, Pi!Sigint, Pi!mainVars
    <3> QED BY <1>1, <3>1, <3>2 DEF Pi!Main
  <2>2. UNCHANGED <<at, max_iter, com_iter, term, added>>
    BY <1>1 DEF Pi!Main, Pi!Create, Pi!cancel_threads, Pi!Join, Pi!Sigint
  <2>3. \/ joined' = joined
        \/ at[joined] = "done" /\ joined < THREADS_NUM /\ joined' = joined + 1
    BY <1>0, <1>1 DEF PiType, Pi!Main, Pi!Create, Pi!cancel_threads, Pi!Join, Pi!Sigint
  <2>4. joined' \in 0 .. THREADS_NUM /\ \A t \in 0 .. joined' - 1 : at[t] = "done"
    <3>1. joined \in 0 .. THREADS_NUM /\ \A t \in 0 .. joined - 1 : at[t] = "done"
      BY DEF PiInv, PiType
    <3> QED BY <1>0, <2>3, <3>1
  <2>5. PiType' /\ \A t \in Pi!Workers : Counted(t)'
    BY <1>0, <2>1, <2>2, <2>4 DEF PiType, Counted, Past, Once, Seamed
  <2>6. max_iter' > 0 => \E t \in Pi!Workers : Ahead(t)'
    BY <2>2 DEF PiInv, Ahead, Past, Once
  <2> QED BY <2>1, <2>2, <2>4, <2>5, <2>6 DEF PiInv
<1>2. ASSUME NEW t \in Pi!Workers, Pi!Block(t), UNCHANGED Pi!mainVars
      PROVE  PiInv'
  <2> DEFINE com == com_iter[t] + ITERATIONS_NUM
             place == IF flag THEN "agree" ELSE "loop"
  <2>1. /\ at[t] = "loop" /\ term[t] = com_iter[t] /\ Once(t, com_iter[t])
        /\ com_iter[t] \in Nat
    BY <1>0, <1>2 DEF PiType, Counted, Pi!Block
  <2>2. /\ com_iter' = [com_iter EXCEPT ![t] = com] /\ com \in Nat /\ com > 0
        /\ at' = [at EXCEPT ![t] = place] /\ place \in {"loop", "agree"}
        /\ UNCHANGED <<main8, made8, flag, max_iter, joined>>
    BY <1>0, <1>2, <2>1 DEF Pi!Block, Pi!mainVars, PiType
  <2>3. PICK x \in Nat : /\ term' = [term EXCEPT ![t] = x]
                         /\ x = IF place = "loop" THEN com ELSE com - 1
    <3> DEFINE x == term[t] + ITERATIONS_NUM - (IF flag THEN 1 ELSE 0)
    <3>1. term' = [term EXCEPT ![t] = x]
      BY <1>2 DEF Pi!Block
    <3>2. x \in Nat /\ x = IF place = "loop" THEN com ELSE com - 1
      BY <1>0, <2>1
    <3> HIDE DEF x
    <3> QED BY <3>1, <3>2
  <2>4. PICK f \in [Pi!Terms -> Nat] :
          /\ added' = [added EXCEPT ![t] = f]
          /\ \A n \in Pi!Terms : f[n] = IF n < com THEN 1 ELSE 0
    <3>1. Pi!Add(t, com_iter[t], com) /\ com \in Int /\ com_iter[t] \in Int
      BY <1>0, <1>2, <2>1 DEF Pi!Block
    <3>2. PICK f \in [Pi!Terms -> Nat] :
            /\ added' = [added EXCEPT ![t] = f]
            /\ \A n \in Pi!Terms : f[n] = IF com_iter[t] <= n /\ n < com THEN added[t][n] + 1
                                                                       ELSE added[t][n]
      BY <1>0, <3>1, Adds DEF PiType
    <3>3. \A n \in Pi!Terms : f[n] = IF n < com THEN 1 ELSE 0
      BY <1>0, <2>1, <3>2 DEF Once
    <3> QED BY <3>2, <3>3
  <2> HIDE DEF com, place
  <2>5. /\ at'[t] = place /\ com_iter'[t] = com /\ term'[t] = x /\ added'[t] = f
        /\ Frame(t) /\ PiType'
    BY <1>0, <2>2, <2>3, <2>4 DEF PiType, Frame
  <2>6. Counted(t)' /\ ~Ahead(t) /\ ~Past(t)
    BY <2>1, <2>2, <2>3, <2>4, <2>5 DEF Counted, Once, Past, Ahead
  <2>7. max_iter' = max_iter
    BY <2>2
  <2> QED BY <2>1, <2>5, <2>6, <2>7, PiMoves
<1>3. ASSUME NEW t \in Pi!Workers, Pi!Agree(t), UNCHANGED Pi!mainVars
      PROVE  PiInv'
  <2>1. /\ at[t] = "agree" /\ com_iter[t] \in Nat \ {0} /\ term[t] = com_iter[t] - 1
        /\ Once(t, com_iter[t]) /\ max_iter \in Nat
    BY <1>0, <1>3 DEF PiType, Counted, Pi!Agree
  <2>2. /\ at' = [at EXCEPT ![t] = "barrier"]
        /\ \/ max_iter' = com_iter[t] /\ max_iter <= com_iter[t]
           \/ max_iter' = max_iter /\ max_iter >= com_iter[t]
        /\ UNCHANGED <<main8, made8, flag, com_iter, term, added, joined>>
    BY <1>0, <1>3, <2>1 DEF Pi!Agree, Pi!mainVars
  <2>3. at'[t] = "barrier" /\ Frame(t) /\ PiType'
    BY <1>0, <2>1, <2>2 DEF PiType, Frame
  <2>4. Counted(t)' /\ ~Ahead(t) /\ ~Past(t)
    BY <2>1, <2>2, <2>3 DEF Counted, Once, Past, Ahead
  <2>5. max_iter' > 0 => Ahead(t)' \/ max_iter' = max_iter
    BY <2>1, <2>2, <2>3 DEF Ahead, Once, Past
  <2>6. max_iter' \in Nat /\ max_iter' >= max_iter
    BY <2>1, <2>2
  <2> QED BY <2>1, <2>3, <2>4, <2>5, <2>6, PiMoves
<1>4. ASSUME NEW t \in Pi!Workers, Pi!Barrier(t), UNCHANGED Pi!mainVars
      PROVE  PiInv'
  <2>1. /\ at[t] = "barrier" /\ at' = [at EXCEPT ![t] = "catchUp"]
        /\ \A u \in Pi!Workers : Past(u)
        /\ UNCHANGED <<main8, made8, flag, max_iter, com_iter, term, added, joined>>
    BY <1>4 DEF Pi!Barrier, Pi!mainVars, Past
  <2>2. at'[t] = "catchUp" /\ Frame(t) /\ PiType'
    BY <1>0, <2>1 DEF PiType, Frame
  <2>3. Past(t)' /\ \A u \in Pi!Workers : Past(u)'
    BY <2>1, <2>2 DEF Past, Frame
  <2>4. Counted(t)'
    BY <1>0, <2>1, <2>2, <2>3 DEF Counted, Once, Past
  <2>5. Ahead(t) => Ahead(t)'
    BY <2>1, <2>2 DEF Ahead, Once, Past
  <2> QED BY <2>1, <2>2, <2>3, <2>4, <2>5, PiMoves
<1>5. ASSUME NEW t \in Pi!Workers, Pi!CatchUp(t), UNCHANGED Pi!mainVars
      PROVE  PiInv'
  <2>1. /\ at[t] = "catchUp" /\ com_iter[t] \in Nat \ {0} /\ term[t] = com_iter[t] - 1
        /\ Once(t, com_iter[t]) /\ max_iter \in Nat \ {0} /\ com_iter[t] <= max_iter
        /\ \A u \in Pi!Workers : Past(u)
    BY <1>0, <1>5 DEF PiType, Counted, Past, Pi!CatchUp
  <2>2. /\ com_iter' = [com_iter EXCEPT ![t] = max_iter]
        /\ term' = [term EXCEPT ![t] = max_iter - 1] /\ max_iter - 1 \in Nat
        /\ at' = [at EXCEPT ![t] = "done"]
        /\ UNCHANGED <<main8, made8, flag, max_iter, joined>>
    <3> DEFINE x == term[t] + max_iter - com_iter[t]
    <3>1. x = max_iter - 1 /\ x \in Nat
      BY <2>1
    <3>2. term' = [term EXCEPT ![t] = x]
      BY <1>5 DEF Pi!CatchUp
    <3> HIDE DEF x
    <3> QED BY <1>5, <2>1, <3>1, <3>2 DEF Pi!CatchUp, Pi!mainVars
  <2>3. PICK f \in [Pi!Terms -> Nat] :
          /\ added' = [added EXCEPT ![t] = f]
          /\ \A n \in Pi!Terms :
               f[n] = (IF n < com_iter[t] THEN 1 ELSE 0)
                        + (IF com_iter[t] - 1 <= n /\ n < max_iter - 1 THEN 1 ELSE 0)
    <3>1. /\ Pi!Add(t, com_iter[t] - 1, max_iter - 1)
          /\ com_iter[t] - 1 \in Int /\ max_iter - 1 \in Int
      <4>1. term[t] + max_iter - com_iter[t] = max_iter - 1
        BY <2>1
      <4> QED BY <1>5, <2>1, <4>1 DEF Pi!CatchUp
    <3>2. PICK f \in [Pi!Terms -> Nat] :
            /\ added' = [added EXCEPT ![t] = f]
            /\ \A n \in Pi!Terms :
                 f[n] = IF com_iter[t] - 1 <= n /\ n < max_iter - 1 THEN added[t][n] + 1
                                                                   ELSE added[t][n]
      BY <1>0, <3>1, Adds DEF PiType
    <3>3. \A n \in Pi!Terms :
            f[n] = (IF n < com_iter[t] THEN 1 ELSE 0)
                     + (IF com_iter[t] - 1 <= n /\ n < max_iter - 1 THEN 1 ELSE 0)
      BY <1>0, <2>1, <3>2 DEF Once
    <3> QED BY <3>2, <3>3
  <2>4. /\ at'[t] = "done" /\ com_iter'[t] = max_iter /\ added'[t] = f
        /\ Frame(t) /\ PiType'
    BY <1>0, <2>2, <2>3 DEF PiType, Frame
  <2>5. CASE com_iter[t] = max_iter
    <3>1. Once(t, max_iter)'
      BY <1>0, <2>1, <2>2, <2>3, <2>4, <2>5 DEF Once
    <3>2. \A u \in Pi!Workers : Past(u)'
      BY <2>1, <2>4 DEF Past, Frame
    <3>3. Counted(t)' /\ Ahead(t)'
      BY <2>1, <2>2, <2>4, <3>1, <3>2 DEF Counted, Ahead
    <3> QED BY <2>1, <2>2, <2>4, <3>2, <3>3, PiMoves
  <2>6. CASE com_iter[t] < max_iter
    <3>1. Seamed(t)'
      <4>1. com_iter[t] - 1 \in 0 .. max_iter' - 1
        BY <2>1, <2>2, <2>6
      <4>2. \A n \in Pi!Terms :
              added'[t][n] = IF n = com_iter[t] - 1 THEN 2 ELSE IF n < max_iter' - 1 THEN 1 ELSE 0
        BY <1>0, <2>1, <2>2, <2>3, <2>4, <2>6
      <4> QED BY <4>1, <4>2 DEF Seamed
    <3>2. \A u \in Pi!Workers : Past(u)'
      BY <2>1, <2>4 DEF Past, Frame
    <3>3. Counted(t)' /\ ~Ahead(t)
      BY <2>1, <2>2, <2>4, <2>6, <3>1, <3>2 DEF Counted, Ahead
    <3> QED BY <2>1, <2>2, <2>4, <3>2, <3>3, PiMoves
  <2> QED BY <2>1, <2>5, <2>6
<1> QED BY <1>1, <1>2, <1>3, <1>4, <1>5 DEF Pi!Worker

(* Nobody has counted at the start.                                        *)
LEMMA PiStart == Pi!Init => PiInv
<1> SUFFICES ASSUME Pi!Init PROVE PiInv
  OBVIOUS
<1>1. THREADS_NUM \in Nat \ {0} /\ Pi!Terms \subseteq Nat
  BY SizesPositive DEF Pi!Terms
<1>2. PiType
  <2>1. added \in [Pi!Workers -> [Pi!Terms -> Nat]]
    BY DEF Pi!Init
  <2>2. /\ at \in [Pi!Workers -> {"loop", "agree", "barrier", "catchUp", "done"}]
        /\ com_iter \in [Pi!Workers -> Nat] /\ term \in [Pi!Workers -> Nat]
    BY DEF Pi!Init
  <2>3. main8 = "create" /\ made8 = 0 /\ joined = 0 /\ flag = FALSE /\ max_iter = 0
    BY DEF Pi!Init
  <2>4. 0 \in 0 .. THREADS_NUM
    BY <1>1
  <2> QED BY <2>1, <2>2, <2>3, <2>4, Zenon DEF PiType
<1>3. \A t \in Pi!Workers : Counted(t)
  BY <1>1 DEF Pi!Init, Counted, Past, Once
<1> QED BY <1>1, <1>2, <1>3 DEF Pi!Init, PiInv

(* When all are joined, all are past the barrier, and somebody was ahead.  *)
LEMMA EqualShares == PiInv => Pi!SharesEqual
<1> SUFFICES ASSUME PiInv, joined = THREADS_NUM
             PROVE  LET share == 0 .. max_iter - 1
                        Exact(t) == \A n \in Pi!Terms : added[t][n] = IF n \in share THEN 1 ELSE 0
                        Seam(t) == \E twice \in share : \A n \in Pi!Terms :
                                     added[t][n] = IF n = twice THEN 2
                                                   ELSE IF n \in share \ {max_iter - 1} THEN 1 ELSE 0
                    IN  /\ \A t \in Pi!Workers : Exact(t) \/ Seam(t)
                        /\ \E t \in Pi!Workers : Exact(t)
  BY DEF Pi!SharesEqual
<1>1. /\ THREADS_NUM \in Nat \ {0} /\ max_iter \in Nat
      /\ \A n \in Pi!Terms : /\ n \in 0 .. max_iter - 1 <=> n < max_iter
                             /\ n \in (0 .. max_iter - 1) \ {max_iter - 1} <=> n < max_iter - 1
  BY SizesPositive DEF PiInv, PiType, Pi!Terms
<1>2. /\ \A t \in Pi!Workers : Once(t, max_iter) \/ Seamed(t)
      /\ max_iter > 0
  <2>1. \A t \in Pi!Workers : at[t] = "done" /\ Counted(t)
    BY <1>1 DEF PiInv, Pi!Workers
  <2>2. 0 \in Pi!Workers
    BY <1>1 DEF Pi!Workers
  <2> QED BY <2>1, <2>2 DEF Counted, Past
<1>3. PICK t \in Pi!Workers : Once(t, max_iter)
  BY <1>2 DEF PiInv, Ahead
<1> QED BY <1>1, <1>2, <1>3 DEF Once, Seamed

(* The terms of the series are shared as they should be, however many      *)
(* threads there are: in Lab8 all have as many but for the seam, in Lab7   *)
(* the sum main prints has every one of the five terms once.               *)
THEOREM SharesCorrect == Init /\ [][Next]_vars => []SharesEqual
<1>1. Init => PiInv /\ SharesInv
  BY PiStart, SharesStart DEF Init
<1>2. ASSUME PiInv, SharesInv, [Next]_vars
      PROVE  PiInv' /\ SharesInv'
  <2>1. ASSUME UNCHANGED lab8
        PROVE  PiInv'
    BY <1>2, <2>1 DEF PiInv, PiType, Counted, Past, Once, Seamed, Ahead, lab8
  <2>2. ASSUME UNCHANGED lab7
        PROVE  SharesInv'
    BY <1>2, <2>2 DEF SharesInv, SharesType, Share, Cancelled, lab7
  <2>3. CASE Main8 \/ Sigint \/ \E t \in Pi!Workers : Worker(t)
    BY <1>2, <2>2, <2>3, PiStep DEF Main8, Sigint, Worker, Only
  <2>4. CASE Main7 \/ \E t \in Shares!Threads7 : Thread7(t)
    BY <1>2, <2>1, <2>4, SharesStep DEF Main7, Thread7, Only
  <2>5. CASE UNCHANGED vars \/ \E p \in Programs \ {"Lab7", "Lab8"} : Only(p)
    BY <2>1, <2>2, <2>5 DEF vars, Only
  <2> QED BY <1>2, <2>3, <2>4, <2>5
          DEF Next, Programs, Turning, Thread, SpuriousWakeup, PrintLine1, Main1, Main4, Thread4,
              sigAlarm, createDetail, createModule, Main22, cpFunction, Lab16, Lab17
<1>3. PiInv /\ SharesInv => SharesEqual
  BY EqualShares, EachTermOnce DEF SharesEqual
<1> QED BY <1>1, <1>2, <1>3, PTL
-----------------------------------------------------------------------------
(* Lab6: what a thread holds, and what became of its file, follow from     *)
(* where it stands.                                                        *)
Places6 == {"none", "stat", "openDir", "readDir", "openIn", "openOut", "copy", "close",
            "done"}
Kinds == {"dir", "file", "other", "dangling"}

TreeType ==
  /\ kind \in [Entries -> Kinds]
  /\ copyAt \in [Entries -> Places6]
  /\ held \in [Entries -> 0 .. 2]
  /\ unread \in [Entries -> SUBSET Entries]
  /\ copy \in [Entries -> {"absent", "foreign", "partial", "whole"}]
  /\ reported \subseteq Entries

Own(e) ==
  /\ copyAt[e] \in {"none", "stat", "openDir", "openIn", "done"} => held[e] = 0
  /\ copyAt[e] = "copy" => held[e] = 2
  /\ copyAt[e] = "close" => held[e] # 0
  /\ copyAt[e] \in {"openDir", "readDir"} => kind[e] = "dir"
  /\ copyAt[e] \in {"openIn", "openOut", "copy", "close"} => kind[e] = "file"
  /\ kind[e] = "file" /\ copyAt[e] \in {"close", "done"} =>
       copy[e] = "whole" \/ e \in reported
  /\ unread[e] \subseteq Tree!Inside(e)

(* A thread is created by the walk through its directory, and an entry     *)
(* that has none after that walk is still unread or was told of.           *)
Family(e, p) ==
  /\ copyAt[e] # "none" => copyAt[p] \in {"readDir", "done"} /\ e \notin unread[p]
  /\ kind[p] = "dir" /\ copyAt[p] \in {"readDir", "done"} /\ copyAt[e] = "none" =>
       e \in reported \/ e \in unread[p] \/ p \in reported

TreeInv ==
  /\ TreeType
  /\ \A e \in Entries \ {Root} :
       kind[Root] # "dir" \/ Tree!Inside(e) # {} => kind[e] = "dir"
  /\ copyAt[Root] = "none" => kind[Root] = "dangling"
  /\ \A e \in Entries : Own(e)
  /\ \A e \in Entries \ {Root} : Family(e, Parent[e])

(* No entry is its own parent.                                             *)
LEMMA ParentApart ==
  ASSUME NEW e \in Entries \ {Root}
  PROVE  Parent[e] \in Entries /\ Parent[e] # e
<1>1. Parent[e] \in Entries /\ Root \in Entries
  BY EntriesInTree DEF Tree!IsTree
<1>2. ASSUME Parent[e] = e PROVE FALSE
  <2>1. Tree!Upward({e}) /\ {e} \in SUBSET Entries
    BY <1>2 DEF Tree!Upward
  <2>2. Root \in {e}
    BY <2>1, EntriesInTree DEF Tree!IsTree
  <2> QED BY <2>2
<1> QED BY <1>1, <1>2

(* A step of a thread's own touches nothing of the other entries but what  *)
(* its walk does for those in it.                                          *)
LEMMA OwnMove ==
  ASSUME TreeInv, NEW e \in Entries, copyAt[e] # "none", TreeType', Own(e)',
         copyAt'[e] # "none", kind' = kind, reported \subseteq reported',
         \A f \in Entries \ {e} :
           UNCHANGED <<copyAt[f], held[f], copy[f], unread[f]>>,
         \A f \in Entries \ {Root} : Parent[f] = e => Family(f, e)'
  PROVE  TreeInv'
<1>1. \A f \in Entries : Own(f)'
  BY DEF TreeInv, Own, Tree!Inside
<1>2. ASSUME NEW f \in Entries \ {Root}
      PROVE  Family(f, Parent[f])'
  <2>1. Parent[f] \in Entries /\ Parent[f] # f
    BY ParentApart
  <2>2. CASE Parent[f] = e
    BY <2>2
  <2>3. CASE Parent[f] # e /\ f # e
    BY <2>1, <2>3 DEF TreeInv, Family
  <2>4. CASE Parent[f] # e /\ f = e
    BY <2>1, <2>4 DEF TreeInv, Family
  <2> QED BY <2>2, <2>3, <2>4
<1>3. /\ \A f \in Entries \ {Root} :
           kind'[Root] # "dir" \/ Tree!Inside(f) # {} => kind'[f] = "dir"
      /\ copyAt'[Root] = "none" => kind'[Root] = "dangling"
  <2>1. Root \in Entries
    BY EntriesInTree DEF Tree!IsTree
  <2> QED BY <2>1 DEF TreeInv
<1>4. \A f : Tree!Inside(f)' = Tree!Inside(f)
  BY DEF Tree!Inside
<1> QED BY <1>1, <1>2, <1>3, <1>4 DEF TreeInv

(* One action after the other.                                             *)
LEMMA TreeStep ==
  ASSUME TreeInv, NEW e \in Entries, Tree!cpFunction(e)
  PROVE  TreeInv'
<1> USE DEF Tree!Goto, Tree!Report
<1>1. /\ kind \in [Entries -> Kinds]
      /\ copyAt \in [Entries -> Places6]
      /\ held \in [Entries -> 0 .. 2]
      /\ unread \in [Entries -> SUBSET Entries]
      /\ copy \in [Entries -> {"absent", "foreign", "partial", "whole"}]
      /\ reported \subseteq Entries
      /\ Own(e)
      /\ \A f \in Entries \ {Root} : Parent[f] = e => Family(f, e)
  BY DEF TreeInv, TreeType
<1>2. CASE Tree!Stat(e)
  <2>1. /\ copyAt[e] = "stat" /\ UNCHANGED <<kind, held, unread, copy>>
        /\ \E l \in {"openDir", "openIn", "done"} :
             /\ copyAt' = [copyAt EXCEPT ![e] = l]
             /\ l = "openDir" => kind[e] = "dir"
             /\ l = "openIn" => kind[e] = "file"
             /\ l = "done" => kind[e] \in {"other", "dangling"} \/ e \in reported'
        /\ reported' \in {reported, reported \cup {e}}
    BY <1>2 DEF Tree!Stat, Tree!MakeDir
  <2>2. TreeType'
    BY <1>1, <2>1 DEF TreeType, Places6
  <2>3. Own(e)'
    BY <1>1, <2>1 DEF Own, Tree!Inside
  <2>4. \A f \in Entries \ {Root} : Parent[f] = e => Family(f, e)'
    BY <1>1, <2>1, ParentApart DEF Family
  <2> QED BY <1>1, <2>1, <2>2, <2>3, <2>4, OwnMove
<1>3. CASE Tree!OpenSource(e)
  <2>1. /\ copyAt[e] \in {"openDir", "openIn"} /\ UNCHANGED <<kind, copy>>
        /\ \/ /\ held' = [held EXCEPT ![e] = 1] /\ reported' = reported
              /\ \/ /\ kind[e] = "dir" /\ copyAt' = [copyAt EXCEPT ![e] = "readDir"]
                    /\ unread' = [unread EXCEPT ![e] = Tree!Inside(e)]
                 \/ /\ kind[e] # "dir" /\ copyAt' = [copyAt EXCEPT ![e] = "openOut"]
                    /\ unread' = unread
           \/ /\ copyAt' = [copyAt EXCEPT ![e] = "done"]
              /\ reported' = reported \cup {e} /\ UNCHANGED <<held, unread>>
    BY <1>3 DEF Tree!OpenSource
  <2>2. Tree!Inside(e) \subseteq Entries
    BY DEF Tree!Inside
  <2>3. TreeType'
    BY <1>1, <2>1, <2>2 DEF TreeType, Places6
  <2>4. Own(e)'
    BY <1>1, <2>1 DEF Own, Tree!Inside
  <2>5. \A f \in Entries \ {Root} : Parent[f] = e => Family(f, e)'
    BY <1>1, <2>1, ParentApart DEF Family, Tree!Inside
  <2> QED BY <1>1, <2>1, <2>3, <2>4, <2>5, OwnMove
<1>4. CASE Tree!CloseDir(e)
  <2>1. /\ copyAt[e] = "readDir" /\ UNCHANGED <<kind, unread, copy, reported>>
        /\ held' = [held EXCEPT ![e] = 0] /\ copyAt' = [copyAt EXCEPT ![e] = "done"]
    BY <1>4 DEF Tree!CloseDir
  <2>2. TreeType'
    BY <1>1, <2>1 DEF TreeType, Places6
  <2>3. Own(e)'
    BY <1>1, <2>1 DEF Own, Tree!Inside
  <2>4. \A f \in Entries \ {Root} : Parent[f] = e => Family(f, e)'
    BY <1>1, <2>1, ParentApart DEF Family
  <2> QED BY <1>1, <2>1, <2>2, <2>3, <2>4, OwnMove
<1>5. CASE Tree!OpenOut(e) \/ Tree!CopyFile(e) \/ Tree!CloseFiles(e)
  <2>1. /\ copyAt[e] \in {"openOut", "copy", "close"} /\ UNCHANGED <<kind, unread>>
        /\ reported' \in {reported, reported \cup {e}}
        /\ \E l \in {"copy", "close", "done"}, h \in 0 .. 2, c \in {copy[e], "partial", "whole"} :
             /\ copyAt' = [copyAt EXCEPT ![e] = l]
             /\ held'[e] = h /\ copy'[e] = c
             /\ held' = [held EXCEPT ![e] = h] \/ held' = held
             /\ copy' = [copy EXCEPT ![e] = c] \/ copy' = copy
             /\ l = "copy" => h = 2
             /\ l = "close" => h # 0 /\ (c = "whole" \/ e \in reported')
             /\ l = "done" => h = 0 /\ (c = "whole" \/ e \in reported')
    BY <1>1, <1>5 DEF Tree!OpenOut, Tree!CopyFile, Tree!CloseFiles, Own
  <2>2. TreeType'
    BY <1>1, <2>1 DEF TreeType, Places6
  <2>3. Own(e)'
    BY <1>1, <2>1 DEF Own, Tree!Inside
  <2>4. \A f \in Entries \ {Root} : Parent[f] = e => Family(f, e)'
    BY <1>1, <2>1, ParentApart DEF Family, Own
  <2> QED BY <1>1, <2>1, <2>2, <2>3, <2>4, OwnMove
<1>6. CASE Tree!ReadDir(e)
  <2>1. PICK f \in unread[e] :
          /\ unread' = [unread EXCEPT ![e] = @ \ {f}]
          /\ \/ copyAt' = [copyAt EXCEPT ![f] = "stat"] /\ reported' = reported
             \/ reported' = reported \cup {f} /\ copyAt' = copyAt
    BY <1>6 DEF Tree!ReadDir
  <2>2. copyAt[e] = "readDir" /\ UNCHANGED <<kind, held, copy>>
    BY <1>6 DEF Tree!ReadDir
  <2>3. f \in Entries \ {Root} /\ Parent[f] = e /\ f # e
    BY <1>1, <2>1, ParentApart DEF Own, Tree!Inside
  <2>4. copyAt[f] = "none"
    BY <1>1, <2>1, <2>3 DEF Family
  <2>5. TreeType'
    BY <1>1, <2>1, <2>2, <2>3 DEF TreeType, Places6
  <2>6. /\ \A g \in Entries \ {e} : unread'[g] = unread[g]
        /\ unread'[e] = unread[e] \ {f}
        /\ \A g \in Entries \ {f} : copyAt'[g] = copyAt[g]
        /\ copyAt'[f] \in {"none", "stat"}
        /\ copyAt'[f] = "none" => f \in reported'
        /\ reported \subseteq reported'
    BY <1>1, <2>1, <2>3, <2>4
  <2>7. \A g \in Entries : Own(g)'
    BY <1>1, <2>2, <2>3, <2>4, <2>6 DEF TreeInv, Own, Tree!Inside
  <2>8. ASSUME NEW g \in Entries \ {Root}
        PROVE  Family(g, Parent[g])'
    <3>1. Parent[g] \in Entries /\ Parent[g] # g /\ Family(g, Parent[g])
      BY ParentApart DEF TreeInv
    <3>2. CASE g = f
      BY <2>2, <2>3, <2>4, <2>6, <3>1, <3>2 DEF Family
    <3>3. CASE g # f /\ Parent[g] = f
      BY <2>2, <2>3, <2>4, <2>6, <3>1, <3>3 DEF Family
    <3>4. CASE g # f /\ Parent[g] # f
      BY <2>2, <2>3, <2>4, <2>6, <3>1, <3>4 DEF Family
    <3> QED BY <3>2, <3>3, <3>4
  <2>9. copyAt'[Root] = "none" => kind[Root] = "dangling"
    <3>1. Root \in Entries
      BY EntriesInTree DEF Tree!IsTree
    <3> QED BY <2>3, <2>6, <3>1 DEF TreeInv
  <2> QED BY <2>2, <2>5, <2>7, <2>8, <2>9 DEF TreeInv, Tree!Inside
<1> QED BY <1>2, <1>3, <1>4, <1>5, <1>6 DEF Tree!cpFunction

(* When all threads have ended, the way up from an entry without a thread  *)
(* would never end, if there were no message on it.                        *)
LEMMA NothingLostHolds == TreeInv => NothingLost
<1> SUFFICES ASSUME TreeInv, Tree!Ended
             PROVE  /\ Tree!Open = 0
                    /\ \A e \in Entries :
                         kind[e] = "file" => copy[e] = "whole" \/ Tree!Told(e)
  BY DEF NothingLost, Tree!NothingLost
<1>1. Root \in Entries /\ Parent \in [Entries \ {Root} -> Entries]
  BY EntriesInTree DEF Tree!IsTree
<1>2. \A e \in Entries : copyAt[e] \in {"none", "done"} /\ held[e] = 0
  BY DEF TreeInv, Own, Tree!Ended
<1>3. Tree!Open = 0
  <2> DEFINE D == {x \in Entries \X (1 .. 2) : x[2] <= held[x[1]]}
  <2>1. D = {}
    BY <1>2
  <2>2. Tree!Open = Cardinality(D)
    BY DEF Tree!Open, Tree!Cardinality, Cardinality
  <2> HIDE DEF D
  <2> QED BY <2>1, <2>2, FS_EmptySet
<1>4. ASSUME NEW e \in Entries, kind[e] = "file", copy[e] # "whole", ~Tree!Told(e)
      PROVE  FALSE
  <2>1. PICK U \in SUBSET Entries :
          e \in U /\ Tree!Upward(U) /\ U \cap (reported \cup Tree!Missed) = {}
    BY <1>4 DEF Tree!Told
  <2> DEFINE V == {f \in U : copyAt[f] = "none"}
  <2>2. e \in V
    BY <1>2, <1>4, <2>1 DEF TreeInv, Own
  <2>3. kind[Root] = "dir"
    <3>1. e # Root
      BY <1>4, <2>2 DEF TreeInv
    <3> QED BY <1>4, <3>1 DEF TreeInv
  <2>4. ASSUME NEW f \in V, f # Root
        PROVE  Parent[f] \in V
    <3>1. f \in Entries \ {Root} /\ Parent[f] \in Entries /\ Parent[f] \in U
      BY <1>1, <2>1, <2>4 DEF Tree!Upward
    <3>2. kind[Parent[f]] = "dir"
      <4>1. f \in Tree!Inside(Parent[f])
        BY <3>1 DEF Tree!Inside
      <4> QED BY <2>3, <3>1, <4>1 DEF TreeInv
    <3>3. Family(f, Parent[f]) /\ copyAt[f] = "none"
      BY <3>1 DEF TreeInv
    <3>4. f \notin reported /\ f \notin unread[Parent[f]] /\ Parent[f] \notin reported
      BY <2>1, <3>1 DEF Tree!Missed
    <3>5. copyAt[Parent[f]] # "done"
      BY <3>2, <3>3, <3>4 DEF Family
    <3> QED BY <1>2, <3>1, <3>5
  <2>5. Root \in V
    <3>1. V \in SUBSET Entries /\ V # {} /\ Tree!Upward(V)
      BY <2>1, <2>2, <2>4 DEF Tree!Upward
    <3> HIDE DEF V
    <3> QED BY <3>1, EntriesInTree DEF Tree!IsTree
  <2>6. kind[Root] = "dangling"
    BY <2>5 DEF TreeInv
  <2> QED BY <2>3, <2>6
<1> QED BY <1>3, <1>4

(* Whatever fails in whichever thread of Lab6, and in any tree: when all   *)
(* have ended each file was copied whole or there was a message, unless    *)
(* readdir_r failed above it, and no descriptor is left open.              *)
THEOREM CopyCorrect == Init /\ [][Next]_vars => []NothingLost
<1>1. Init => TreeInv
  <2> SUFFICES ASSUME Tree!Init PROVE TreeInv
    BY DEF Init
  <2>1. Root \in Entries
    BY EntriesInTree DEF Tree!IsTree
  <2>2. TreeType
    BY DEF Tree!Init, TreeType, Places6, Kinds
  <2>3. /\ \A e \in Entries : Own(e)
        /\ \A e \in Entries \ {Root} : Family(e, Parent[e])
    BY ParentApart DEF Tree!Init, Own, Family
  <2>4. copyAt[Root] = "none" => kind[Root] = "dangling"
    BY <2>1 DEF Tree!Init, Tree!isValidArguments
  <2> QED BY <2>2, <2>3, <2>4 DEF TreeInv, Tree!Init
<1>2. ASSUME TreeInv, [Next]_vars
      PROVE  TreeInv'
  <2>1. CASE \E e \in Entries : cpFunction(e)
    BY <1>2, <2>1, TreeStep DEF cpFunction, Only
  <2>2. CASE UNCHANGED lab6
    BY <1>2, <2>2 DEF lab6, TreeInv, TreeType, Own, Family, Tree!Inside
  <2>3. CASE UNCHANGED vars \/ \E p \in Programs \ {"Lab6"} : Only(p)
    BY <2>2, <2>3 DEF vars, Only
  <2> QED BY <1>2, <2>1, <2>3
          DEF Next, Programs, Turning, Thread, SpuriousWakeup, Worker, Main8, Sigint, Main7,
              PrintLine1, Main1, Main4, Thread4, sigAlarm, Thread7, createDetail,
              createModule, Main22, Lab16, Lab17
<1> QED BY <1>1, <1>2, NothingLostHolds, PTL
-----------------------------------------------------------------------------
(* Lab16 and Lab17: what exchanges and pushes do to the strings of a list. *)
Times(s, v) == {p \in DOMAIN s : s[p] = v}
Swapped(s, a, b) == [s EXCEPT ![a] = s[b], ![b] = s[a]]

(* A string is in a list finitely often.                                   *)
LEMMA FinitelyOften ==
  ASSUME NEW n \in Nat, NEW s, DOMAIN s = 1 .. n, NEW v
  PROVE  IsFiniteSet(Times(s, v)) /\ Cardinality(Times(s, v)) \in Nat
<1>1. IsFiniteSet(1 .. n)
  BY FS_Interval
<1>2. Times(s, v) \in SUBSET (1 .. n)
  BY DEF Times
<1>3. IsFiniteSet(Times(s, v))
  BY <1>1, <1>2, FS_Subset
<1> QED BY <1>3, FS_CardinalityType

(* An exchange leaves each string as often as it was.                      *)
LEMMA SwapTimes ==
  ASSUME NEW n \in Nat, NEW s, DOMAIN s = 1 .. n, NEW a \in 1 .. n, NEW b \in 1 .. n, NEW v
  PROVE  Cardinality(Times(Swapped(s, a, b), v)) = Cardinality(Times(s, v))
<1> DEFINE A == Times(s, v)
           t == Swapped(s, a, b)
           B == Times(t, v)
<1>1. A \subseteq 1 .. n /\ B \subseteq 1 .. n /\ DOMAIN t = 1 .. n
  BY DEF Times, Swapped
<1>2. IsFiniteSet(A) /\ Cardinality(A) \in Nat
  BY FinitelyOften
<1>3. \A p \in 1 .. n : t[p] = IF p = b THEN s[a] ELSE IF p = a THEN s[b] ELSE s[p]
  BY DEF Swapped
<1>4. CASE s[a] = v /\ s[b] # v
  <2>1. /\ a \in A /\ b \notin A \ {a} /\ a # b
        /\ B = (A \ {a}) \cup {b}
    BY <1>1, <1>3, <1>4 DEF Times
  <2>2. IsFiniteSet(A \ {a}) /\ Cardinality(A \ {a}) = Cardinality(A) - 1
    BY <1>2, <2>1, FS_RemoveElement
  <2>3. Cardinality(B) = Cardinality(A \ {a}) + 1
    BY <2>1, <2>2, FS_AddElement
  <2> QED BY <1>2, <2>2, <2>3
<1>5. CASE s[b] = v /\ s[a] # v
  <2>1. /\ b \in A /\ a \notin A \ {b} /\ a # b
        /\ B = (A \ {b}) \cup {a}
    BY <1>1, <1>3, <1>5 DEF Times
  <2>2. IsFiniteSet(A \ {b}) /\ Cardinality(A \ {b}) = Cardinality(A) - 1
    BY <1>2, <2>1, FS_RemoveElement
  <2>3. Cardinality(B) = Cardinality(A \ {b}) + 1
    BY <2>1, <2>2, FS_AddElement
  <2> QED BY <1>2, <2>2, <2>3
<1>6. CASE s[a] = v <=> s[b] = v
  <2>1. A = B
    BY <1>1, <1>3, <1>6 DEF Times
  <2> QED BY <2>1
<1> QED BY <1>4, <1>5, <1>6

(* A string that is added at the end is there once more.                   *)
LEMMA AppendTimes ==
  ASSUME NEW n \in Nat, NEW s, NEW t, NEW x, NEW v,
         DOMAIN s = 1 .. n, DOMAIN t = 1 .. n + 1,
         \A p \in 1 .. n : t[p] = s[p], t[n + 1] = x
  PROVE  /\ Cardinality(Times(t, v)) =
              Cardinality(Times(s, v)) + (IF v = x THEN 1 ELSE 0)
         /\ Cardinality(Times(s, v)) \in Nat
<1> DEFINE A == Times(s, v)
           B == Times(t, v)
<1>1. A \subseteq 1 .. n /\ n + 1 \notin A
  BY DEF Times
<1>2. IsFiniteSet(A) /\ Cardinality(A) \in Nat
  BY FinitelyOften
<1>3. CASE v = x
  <2>1. B = A \cup {n + 1}
    BY <1>3 DEF Times
  <2> QED BY <1>1, <1>2, <1>3, <2>1, FS_AddElement
<1>4. CASE v # x
  <2>1. B = A
    BY <1>4 DEF Times
  <2> QED BY <1>2, <1>4, <2>1
<1> QED BY <1>3, <1>4

(* So is one that is put before the first.                                 *)
LEMMA PrependTimes ==
  ASSUME NEW n \in Nat, NEW s, NEW t, NEW x, NEW v,
         DOMAIN s = 1 .. n, DOMAIN t = 1 .. n + 1,
         \A p \in 1 .. n : t[p + 1] = s[p], t[1] = x
  PROVE  /\ Cardinality(Times(t, v)) =
              Cardinality(Times(s, v)) + (IF v = x THEN 1 ELSE 0)
         /\ Cardinality(Times(s, v)) \in Nat
<1> DEFINE A == Times(s, v)
           C == Times(t, v) \ {1}
<1>1. A \subseteq 1 .. n /\ C \subseteq 2 .. n + 1 /\ 1 \notin C
  BY DEF Times
<1>2. IsFiniteSet(A) /\ Cardinality(A) \in Nat
  BY FinitelyOften
<1>3. \A p \in 1 .. n : p \in A <=> p + 1 \in C
  BY DEF Times
<1>4. ExistsBijection(A, C)
  <2> DEFINE f == [p \in A |-> p + 1]
  <2>1. \A p \in A : f[p] \in C
    BY <1>1, <1>3
  <2>2. \A c \in C : c - 1 \in A /\ f[c - 1] = c
    <3> SUFFICES ASSUME NEW c \in C PROVE c - 1 \in A /\ f[c - 1] = c
      OBVIOUS
    <3>1. c - 1 \in 1 .. n /\ c \in Int
      BY <1>1
    <3>2. (c - 1) + 1 = c
      BY <3>1
    <3>3. c - 1 \in A
      BY <1>3, <3>1, <3>2
    <3> QED BY <3>2, <3>3
  <2>3. \A p, m \in A : f[p] = f[m] => p = m
    BY <1>1
  <2>4. f \in [A -> C]
    BY <2>1
  <2> HIDE DEF f, A, C
  <2>5. f \in Injection(A, C)
    BY <2>3, <2>4 DEF Injection, IsInjective
  <2>6. f \in Surjection(A, C)
    BY <2>2, <2>4 DEF Surjection
  <2> QED BY <2>5, <2>6 DEF ExistsBijection, Bijection
<1>5. IsFiniteSet(C) /\ Cardinality(C) = Cardinality(A)
  <2> HIDE DEF A, C
  <2> QED BY <1>2, <1>4, FS_Bijection
<1>6. CASE v = x
  <2>1. Times(t, v) = C \cup {1}
    BY <1>6 DEF Times
  <2> HIDE DEF C
  <2>2. Cardinality(Times(t, v)) = Cardinality(C) + 1
    BY <1>1, <1>5, <2>1, FS_AddElement
  <2> QED BY <1>2, <1>5, <1>6, <2>2
<1>7. CASE v # x
  <2>1. Times(t, v) = C
    BY <1>7 DEF Times
  <2>2. Cardinality(Times(t, v)) = Cardinality(A)
    BY <1>5, <2>1
  <2>3. Cardinality(A) + (IF v = x THEN 1 ELSE 0) = Cardinality(A)
    BY <1>2, <1>7
  <2> QED BY <1>2, <2>2, <2>3
<1> QED BY <1>6, <1>7

(* Induction up to n, by the well-foundedness of inclusion.                *)
LEMMA UpTo ==
  ASSUME NEW n \in Nat, NEW K, 0 \in K,
         \A m \in 0 .. n - 1 : m \in K => m + 1 \in K
  PROVE  0 .. n \subseteq K
<1> DEFINE Missing == (0 .. n) \ K
           Lower == {0 .. m : m \in Missing}
           R == StrictSubsetOrdering(0 .. n)
<1> SUFFICES ASSUME Missing # {} PROVE FALSE
  OBVIOUS
<1>0. IsFiniteSet(0 .. n)
  BY FS_Interval
<1>1. IsWellFoundedOn(R, SUBSET (0 .. n))
  BY <1>0, FS_StrictSubsetOrderingWellFounded, FS_FiniteSubsetsOfFinite
<1>2. Lower \subseteq SUBSET (0 .. n) /\ Lower # {}
  OBVIOUS
<1>3. \E x \in Lower : \A y \in Lower : <<y, x>> \notin R
  <2> HIDE DEF Lower, R
  <2> QED BY <1>1, <1>2, WFMin
<1>4. PICK m \in Missing : \A y \in Lower : <<y, 0 .. m>> \notin R
  BY <1>3
<1>5. m # 0 /\ m - 1 \in 0 .. n - 1 /\ m = (m - 1) + 1
  OBVIOUS
<1>6. m - 1 \in Missing
  <2>1. m \notin K
    OBVIOUS
  <2> QED BY <1>5, <2>1
<1>7. 0 .. m - 1 \subseteq 0 .. m /\ 0 .. m - 1 # 0 .. m /\ 0 .. m \subseteq 0 .. n
  BY <1>5
<1>8. <<0 .. m - 1, 0 .. m>> \in R
  BY <1>7 DEF StrictSubsetOrdering
<1>9. 0 .. m - 1 \in Lower
  BY <1>6
<1> QED BY <1>4, <1>8, <1>9

(* A loop of n rounds has a result: F gives that of each round.            *)
Loop(n, X, x, F, g) ==
  /\ g \in [0 .. n -> X]
  /\ \A m \in 0 .. n : g[m] = IF m = 0 THEN x ELSE F[<<g[m - 1], m>>]

(* By induction on the rounds the result has been computed for.            *)
LEMMA LoopEnds ==
  ASSUME NEW n \in Nat, NEW X, NEW x \in X, NEW F \in [X \X (1 .. n) -> X]
  PROVE  \E g : Loop(n, X, x, F, g)
<1> DEFINE Rounds(g, m) == \A j \in 1 .. m : g[j] = F[<<g[j - 1], j>>]
           K == {m \in 0 .. n : \E g \in [0 .. n -> X] : g[0] = x /\ Rounds(g, m)}
<1>1. 0 \in K
  <2> DEFINE g == [m \in 0 .. n |-> x]
  <2>1. g \in [0 .. n -> X] /\ g[0] = x /\ Rounds(g, 0)
    OBVIOUS
  <2> HIDE DEF g
  <2> QED BY <2>1
<1>2. ASSUME NEW m \in 0 .. n - 1, m \in K PROVE m + 1 \in K
  <2>1. PICK g \in [0 .. n -> X] : g[0] = x /\ Rounds(g, m)
    BY <1>2
  <2>2. m \in 0 .. n /\ m + 1 \in 1 .. n /\ g[m] \in X
    OBVIOUS
  <2> DEFINE y == F[<<g[m], m + 1>>]
             h == [g EXCEPT ![m + 1] = y]
  <2>3. y \in X
    BY <2>2
  <2> HIDE DEF y
  <2>4. h \in [0 .. n -> X] /\ \A j \in 0 .. n : h[j] = IF j = m + 1 THEN y ELSE g[j]
    BY <2>2, <2>3
  <2> HIDE DEF h
  <2>5. ASSUME NEW j \in 1 .. m + 1 PROVE h[j] = F[<<h[j - 1], j>>]
    <3>1. h[j - 1] = g[j - 1]
      BY <2>4, <2>2
    <3>2. CASE j = m + 1
      <4>1. j - 1 = m /\ j \in 0 .. n
        BY <2>2, <3>2
      <4>2. h[j] = y
        BY <2>4, <3>2, <4>1
      <4> QED BY <3>1, <3>2, <4>1, <4>2 DEF y
    <3>3. CASE j # m + 1
      <4>1. j \in 1 .. m /\ j \in 0 .. n
        BY <3>3
      <4> QED BY <2>1, <2>4, <3>1, <3>3, <4>1
    <3> QED BY <3>2, <3>3
  <2>6. h[0] = x
    BY <2>1, <2>2, <2>4
  <2> QED BY <2>2, <2>4, <2>5, <2>6
<1>3. n \in K
  <2> HIDE DEF K
  <2>1. 0 .. n \subseteq K
    BY <1>1, <1>2, UpTo
  <2> QED BY <2>1
<1>4. PICK g \in [0 .. n -> X] : g[0] = x /\ Rounds(g, n)
  BY <1>3
<1> QED BY <1>4 DEF Loop

(* bubbleStrSort, on lists of n strings.                                   *)
Ranks(n) == [1 .. n -> Nat]
SameTimes(s, t) == \A v : Cardinality(Times(s, v)) = Cardinality(Times(t, v))

(* The first i strings are sorted, and none of the later ones is lower.    *)
Before(s, n, c) == \A a \in 1 .. c, b \in 1 .. n : a < b => s[a] <= s[b]

(* So are the first c - 1, and c has the lowest of those from there to j.  *)
Lowest(s, n, c, j) == Before(s, n, c - 1) /\ \A b \in c + 1 .. j : s[c] <= s[b]

(* A function of the first numbers is a sequence of this length.           *)
LEMMA RanksAreLists ==
  ASSUME NEW n \in Nat, NEW s \in Ranks(n)
  PROVE  s \in Seq(Nat) /\ Len(s) = n /\ DOMAIN s = 1 .. n
BY DEF Ranks

(* One exchange of the inner loop.                                         *)
LEMMA ExchangeKeeps ==
  ASSUME NEW n \in Nat, NEW s \in Ranks(n), NEW c \in 1 .. n, NEW j \in c + 1 .. n
  PROVE  /\ Sorted!Exchange(s, c, j) \in Ranks(n)
         /\ SameTimes(Sorted!Exchange(s, c, j), s)
         /\ Lowest(s, n, c, j - 1) => Lowest(Sorted!Exchange(s, c, j), n, c, j)
<1>1. /\ j \in 1 .. n /\ c # j /\ s[c] \in Nat /\ s[j] \in Nat /\ DOMAIN s = 1 .. n
      /\ \A a \in 1 .. n : s[a] \in Nat
  BY DEF Ranks
<1>2. CASE s[c] > s[j]
  <2> DEFINE t == Swapped(s, c, j)
  <2>1. Sorted!Exchange(s, c, j) = t
    BY <1>2 DEF Sorted!Exchange, Swapped
  <2>2. /\ t \in Ranks(n)
        /\ \A a \in 1 .. n : t[a] = IF a = c THEN s[j] ELSE IF a = j THEN s[c] ELSE s[a]
    BY <1>1 DEF Ranks, Swapped
  <2>3. SameTimes(t, s)
    BY <1>1, SwapTimes DEF SameTimes
  <2> HIDE DEF t
  <2>4. ASSUME Lowest(s, n, c, j - 1), NEW a \in 1 .. c - 1, NEW b \in 1 .. n, a < b
        PROVE  t[a] <= t[b]
    <3>1. a \in 1 .. n /\ t[a] = s[a] /\ a < c /\ a < j
      BY <2>2
    <3>2. s[a] <= s[c] /\ s[a] <= s[j] /\ s[a] <= s[b]
      BY <1>1, <2>4, <3>1 DEF Before, Lowest
    <3> QED BY <2>2, <3>1, <3>2
  <2>5. ASSUME Lowest(s, n, c, j - 1), NEW b \in c + 1 .. j PROVE t[c] <= t[b]
    <3>1. b \in 1 .. n /\ b # c /\ t[c] = s[j]
      BY <1>1, <2>2
    <3>2. CASE b = j
      BY <1>1, <1>2, <2>2, <3>1, <3>2
    <3>3. CASE b # j
      <4>1. b \in c + 1 .. j - 1 /\ t[b] = s[b]
        BY <2>2, <3>1, <3>3
      <4>2. s[c] <= s[b] /\ s[b] \in Nat
        BY <1>1, <2>5, <3>1, <4>1 DEF Lowest
      <4> QED BY <1>1, <1>2, <3>1, <4>1, <4>2
    <3> QED BY <3>2, <3>3
  <2> QED BY <2>1, <2>2, <2>3, <2>4, <2>5 DEF Before, Lowest
<1>3. CASE ~(s[c] > s[j])
  <2>1. Sorted!Exchange(s, c, j) = s
    BY <1>3 DEF Sorted!Exchange
  <2>2. ASSUME Lowest(s, n, c, j - 1), NEW b \in c + 1 .. j PROVE s[c] <= s[b]
    <3>1. CASE b = j
      BY <1>1, <1>3, <3>1
    <3>2. CASE b # j
      <4>1. b \in c + 1 .. j - 1
        BY <3>2
      <4> QED BY <2>2, <4>1 DEF Lowest
    <3> QED BY <3>1, <3>2
  <2> QED BY <2>1, <2>2 DEF SameTimes, Lowest
<1> QED BY <1>2, <1>3

(* The inner loop brings the lowest of the later strings to node i.        *)
LEMMA NestedKeeps ==
  ASSUME NEW n \in Nat, NEW s \in Ranks(n), NEW c \in 1 .. n
  PROVE  /\ Sorted!Nested(s, c) \in Ranks(n)
         /\ SameTimes(Sorted!Nested(s, c), s)
         /\ Before(s, n, c - 1) => Before(Sorted!Nested(s, c), n, c)
<1> DEFINE Body(g) == [j \in 0 .. n |-> IF j <= c THEN s
                                        ELSE Sorted!Exchange(g[j - 1], c, j)]
           after == CHOOSE g : g = Body(g)
<1>1. Len(s) = n
  BY RanksAreLists
<1>2. Sorted!Nested(s, c) = after[n]
  BY <1>1 DEF Sorted!Nested
<1>3. \E g : g = Body(g)
  <2> DEFINE F == [p \in Ranks(n) \X (1 .. n) |->
                     IF p[2] <= c THEN s ELSE Sorted!Exchange(p[1], c, p[2])]
  <2>1. \A t \in Ranks(n), j \in 1 .. n : Sorted!Exchange(t, c, j) \in Ranks(n)
    BY DEF Sorted!Exchange, Ranks
  <2>2. F \in [Ranks(n) \X (1 .. n) -> Ranks(n)]
    BY <2>1
  <2>3. \A t \in Ranks(n), j \in 1 .. n :
          F[<<t, j>>] = IF j <= c THEN s ELSE Sorted!Exchange(t, c, j)
    OBVIOUS
  <2> HIDE DEF F
  <2> DEFINE X == Ranks(n)
  <2>8. PICK g : Loop(n, X, s, F, g)
    <3>1. F \in [X \X (1 .. n) -> X] /\ s \in X
      BY <2>2
    <3> HIDE DEF X
    <3> QED BY <3>1, LoopEnds
  <2>4. /\ g \in [0 .. n -> Ranks(n)]
        /\ \A m \in 0 .. n : g[m] = IF m = 0 THEN s ELSE F[<<g[m - 1], m>>]
    BY <2>8 DEF Loop
  <2>5. ASSUME NEW m \in 0 .. n
        PROVE  g[m] = IF m <= c THEN s ELSE Sorted!Exchange(g[m - 1], c, m)
    <3>1. CASE m = 0
      <4>1. g[m] = s
        BY <2>4, <3>1
      <4>2. m <= c
        BY <3>1
      <4> QED BY <4>1, <4>2
    <3>2. CASE m # 0
      <4>0. m \in 1 .. n /\ m - 1 \in 0 .. n
        BY <3>2
      <4>1. g[m - 1] \in Ranks(n)
        BY <2>4, <4>0
      <4> QED BY <2>3, <2>4, <3>2, <4>0, <4>1
    <3> QED BY <3>1, <3>2
  <2>6. g = Body(g)
    <3>1. g = [m \in 0 .. n |-> g[m]]
      BY <2>4
    <3> QED BY <2>5, <3>1
  <2> QED BY <2>6
<1>4. after = Body(after)
  <2> HIDE DEF Body
  <2> QED BY <1>3
<1> HIDE DEF after
<1>5. \A j \in 0 .. n : after[j] = IF j <= c THEN s ELSE Sorted!Exchange(after[j - 1], c, j)
  BY <1>4
<1> HIDE DEF Body
<1> DEFINE Good(t, j) == /\ t \in Ranks(n) /\ SameTimes(t, s)
                         /\ Before(s, n, c - 1) => Lowest(t, n, c, j)
           K == {j \in 0 .. n : Good(after[j], j)}
<1>6. 0 \in K
  BY <1>5 DEF SameTimes, Lowest
<1>7. ASSUME NEW j \in 0 .. n - 1, j \in K PROVE j + 1 \in K
  <2>1. j + 1 \in 0 .. n /\ Good(after[j], j) /\ (j + 1) - 1 = j
    BY <1>7
  <2>2. CASE j + 1 <= c
    <3>1. after[j + 1] = s
      BY <1>5, <2>1, <2>2
    <3> QED BY <2>1, <2>2, <3>1 DEF SameTimes, Lowest
  <2>3. CASE j + 1 > c
    <3>1. j + 1 \in c + 1 .. n
      BY <2>3
    <3>2. after[j + 1] = Sorted!Exchange(after[j], c, j + 1)
      BY <1>5, <2>1, <2>3
    <3> DEFINE t == after[j]
    <3>3. /\ t \in Ranks(n) /\ SameTimes(t, s)
          /\ Before(s, n, c - 1) => Lowest(t, n, c, (j + 1) - 1)
      BY <2>1
    <3> HIDE DEF t
    <3> DEFINE u == Sorted!Exchange(t, c, j + 1)
    <3>4. /\ u \in Ranks(n) /\ SameTimes(u, t)
          /\ Lowest(t, n, c, (j + 1) - 1) => Lowest(u, n, c, j + 1)
      BY <3>1, <3>3, ExchangeKeeps
    <3>5. SameTimes(u, s)
      BY <3>3, <3>4 DEF SameTimes
    <3>6. after[j + 1] = u
      BY <3>2 DEF t
    <3> HIDE DEF u
    <3> QED BY <2>1, <3>3, <3>4, <3>5, <3>6
  <2> QED BY <2>2, <2>3
<1>8. n \in K
  <2> HIDE DEF K
  <2>1. 0 .. n \subseteq K
    BY <1>6, <1>7, UpTo
  <2> QED BY <2>1
<1>9. Good(after[n], n)
  BY <1>8
<1>10. Before(s, n, c - 1) => Before(after[n], n, c)
  BY <1>9 DEF Before, Lowest
<1> QED BY <1>2, <1>9, <1>10

(* A sort keeps every string and leaves the list sorted.                   *)
LEMMA SortSorts ==
  ASSUME NEW n \in Nat, NEW s \in Ranks(n)
  PROVE  /\ Sorted!bubbleStrSort(s) \in Ranks(n)
         /\ SameTimes(Sorted!bubbleStrSort(s), s)
         /\ Before(Sorted!bubbleStrSort(s), n, n)
<1> DEFINE Body(g) == [m \in 0 .. n |-> IF m = 0 THEN s ELSE Sorted!Nested(g[m - 1], m)]
           after == CHOOSE g : g = Body(g)
<1>1. Len(s) = n
  BY RanksAreLists
<1>2. Sorted!bubbleStrSort(s) = after[n]
  BY <1>1 DEF Sorted!bubbleStrSort
<1>3. \E g : g = Body(g)
  <2> DEFINE X == Ranks(n)
             F == [p \in X \X (1 .. n) |-> Sorted!Nested(p[1], p[2])]
  <2>1. \A t \in X, m \in 1 .. n : Sorted!Nested(t, m) \in X
    BY NestedKeeps
  <2>2. F \in [X \X (1 .. n) -> X] /\ s \in X
    BY <2>1
  <2>3. \A t \in X, m \in 1 .. n : F[<<t, m>>] = Sorted!Nested(t, m)
    OBVIOUS
  <2> HIDE DEF F, X
  <2>4. PICK g : Loop(n, X, s, F, g)
    BY <2>2, LoopEnds
  <2>5. /\ g \in [0 .. n -> X]
        /\ \A m \in 0 .. n : g[m] = IF m = 0 THEN s ELSE F[<<g[m - 1], m>>]
    BY <2>4 DEF Loop
  <2>6. ASSUME NEW m \in 0 .. n
        PROVE  g[m] = IF m = 0 THEN s ELSE Sorted!Nested(g[m - 1], m)
    <3>1. CASE m = 0
      BY <2>5, <3>1
    <3>2. CASE m # 0
      <4>1. m \in 1 .. n /\ m - 1 \in 0 .. n
        BY <3>2
      <4>2. g[m - 1] \in X
        BY <2>5, <4>1
      <4> QED BY <2>3, <2>5, <3>2, <4>1, <4>2
    <3> QED BY <3>1, <3>2
  <2>7. g = Body(g)
    <3>1. g = [m \in 0 .. n |-> g[m]]
      BY <2>5
    <3> QED BY <2>6, <3>1
  <2> QED BY <2>7
<1>4. after = Body(after)
  <2> HIDE DEF Body
  <2> QED BY <1>3
<1> HIDE DEF after
<1>5. \A m \in 0 .. n : after[m] = IF m = 0 THEN s ELSE Sorted!Nested(after[m - 1], m)
  BY <1>4
<1> HIDE DEF Body
<1> DEFINE Good(t, m) == t \in Ranks(n) /\ SameTimes(t, s) /\ Before(t, n, m)
           K == {m \in 0 .. n : Good(after[m], m)}
<1>6. 0 \in K
  BY <1>5 DEF SameTimes, Before
<1>7. ASSUME NEW m \in 0 .. n - 1, m \in K PROVE m + 1 \in K
  <2>1. m + 1 \in 1 .. n /\ m + 1 \in 0 .. n /\ (m + 1) - 1 = m /\ m + 1 # 0
    OBVIOUS
  <2>2. after[m + 1] = Sorted!Nested(after[m], m + 1)
    BY <1>5, <2>1
  <2> DEFINE t == after[m]
             u == Sorted!Nested(t, m + 1)
  <2>3. t \in Ranks(n) /\ SameTimes(t, s) /\ Before(t, n, (m + 1) - 1)
    BY <1>7, <2>1
  <2>4. after[m + 1] = u
    BY <2>2
  <2> HIDE DEF t
  <2>5. u \in Ranks(n) /\ SameTimes(u, t) /\ Before(u, n, m + 1)
    BY <2>1, <2>3, NestedKeeps
  <2> HIDE DEF u
  <2>6. SameTimes(u, s)
    BY <2>3, <2>5 DEF SameTimes
  <2> QED BY <2>1, <2>4, <2>5, <2>6
<1>8. n \in K
  <2> HIDE DEF K
  <2>1. 0 .. n \subseteq K
    BY <1>6, <1>7, UpTo
  <2> QED BY <2>1
<1> QED BY <1>2, <1>8

(* A prefix, in terms of its elements.                                     *)
LEMMA PrefixIs ==
  ASSUME NEW s \in Seq(Nat), NEW t \in Seq(Nat)
  PROVE  Sorted!IsPrefix(s, t) <=>
           Len(s) <= Len(t) /\ \A p \in 1 .. Len(s) : s[p] = t[p]
<1>0. /\ Len(s) \in Nat /\ Len(t) \in Nat
      /\ \A p \in 1 .. Len(t) : t[p] \in Nat
      /\ \A p \in 1 .. Len(s) : s[p] \in Nat
  BY LenProperties, ElementOfSeq
<1> SUFFICES ASSUME Len(s) <= Len(t)
             PROVE  SubSeq(s, 1, Len(s)) = SubSeq(t, 1, Len(s))
                      <=> \A p \in 1 .. Len(s) : s[p] = t[p]
  BY DEF Sorted!IsPrefix
<1> DEFINE n == Len(s)
           u == SubSeq(t, 1, n)
<1>1. SubSeq(s, 1, n) = s
  BY SubSeqFull
<1>2. /\ u \in Seq(Nat) /\ Len(u) = n
      /\ \A p \in 1 .. n : u[p] = t[p]
  <2>1. \A p \in 1 .. n : t[p] \in Nat
    BY <1>0
  <2>2. /\ SubSeq(t, 1, n) \in Seq(Nat)
        /\ Len(SubSeq(t, 1, n)) = IF 1 <= n THEN n - 1 + 1 ELSE 0
        /\ \A p \in 1 .. n - 1 + 1 : SubSeq(t, 1, n)[p] = t[1 + p - 1]
    BY <1>0, <2>1, SubSeqProperties
  <2>3. n - 1 + 1 = n /\ (IF 1 <= n THEN n - 1 + 1 ELSE 0) = n
    BY <1>0
  <2>4. \A p \in 1 .. n : 1 + p - 1 = p
    OBVIOUS
  <2> QED BY <2>2, <2>3, <2>4
<1> HIDE DEF u
<1>3. ASSUME \A p \in 1 .. n : s[p] = t[p] PROVE s = u
  BY <1>2, <1>3, SeqEqual
<1> QED BY <1>1, <1>2, <1>3 DEF u

(* Where nothing is printed.                                               *)
LEMMA EmptyIsPrefix ==
  ASSUME NEW s, s = <<>>, NEW t \in Seq(Nat)
  PROVE  Sorted!IsPrefix(s, t)
<1>1. s \in Seq(Nat) /\ Len(s) = 0
  BY EmptySeq
<1>2. Len(t) \in Nat
  BY LenProperties
<1>3. 1 .. Len(s) = {} /\ Len(s) <= Len(t)
  BY <1>1, <1>2
<1> QED BY <1>1, <1>3, PrefixIs

(* The strings of the list, counted as in Times.                           *)
LEMMA SameStringsIs ==
  /\ \A s : Sorted!SameStrings(s) <=>
             \A v \in Lines \cup {0} : Cardinality(Times(s, v)) = pushed[v]
  /\ \A s : Sorted!SameStrings(s)' <=>
             \A v \in Lines \cup {0} : Cardinality(Times(s, v)) = pushed'[v]
<1>1. ASSUME NEW s, NEW v
      PROVE  Sorted!Cardinality(Sorted!Times(s, v)) = Cardinality(Times(s, v))
  <2>1. Sorted!Times(s, v) = Times(s, v)
    BY DEF Times, Sorted!Times
  <2> QED BY <2>1 DEF Sorted!Cardinality, Cardinality
<1>2. ASSUME NEW s
      PROVE  Sorted!SameStrings(s) <=>
               \A v \in Lines \cup {0} : Cardinality(Times(s, v)) = pushed[v]
  BY <1>1 DEF Sorted!SameStrings, Sorted!Empty
<1>3. ASSUME NEW s
      PROVE  Sorted!SameStrings(s)' <=>
               \A v \in Lines \cup {0} : Cardinality(Times(s, v)) = pushed'[v]
  BY <1>1 DEF Sorted!SameStrings, Sorted!Empty
<1> QED BY <1>2, <1>3

(* Lab16: only who holds listMutex is in the list.                         *)
ListInv ==
  /\ list \in Seq(Nat) /\ printed16 \in Seq(Nat)
  /\ pushed \in [Lines \cup {0} -> Nat] /\ line \in Lines \cup {0}
  /\ IF mainAt = "print" THEN listMutex = "main" ELSE printed16 = <<>>
  /\ sorterAt \in {"alarm", "sorted", "wait"} => listMutex = "sorter"
  /\ Sorted!ListIntact

(* A push: the sorter holds the mutex at no place where the list is sorted.*)
LEMMA PushKeeps ==
  ASSUME ListInv, Sorted!Push
  PROVE  ListInv'
<1> DEFINE n == Len(list)
<1>1. /\ mainAt = "lockToPush" /\ listMutex = Nobody /\ line \in Nat
      /\ list' = <<line>> \o list /\ pushed' = [pushed EXCEPT ![line] = @ + 1]
      /\ mainAt' = "read" /\ line' = 0
      /\ UNCHANGED <<listMutex, sorterAt, alarm, printed16>>
  BY StringsRanked DEF ListInv, Sorted!Push, Sorted!push, Sorted!Empty
<1>2. printed16 = <<>> /\ sorterAt # "sorted" /\ sorterAt \notin {"alarm", "wait"}
  BY <1>1, NobodyIsNoThread DEF ListInv
<1>3. n \in Nat /\ DOMAIN list = 1 .. n
  BY LenProperties DEF ListInv
<1>4. /\ list' \in Seq(Nat) /\ Len(list') = n + 1 /\ DOMAIN list' = 1 .. n + 1
      /\ list'[1] = line /\ \A p \in 1 .. n : list'[p + 1] = list[p]
  <2>1. <<line>> \in Seq(Nat) /\ Len(<<line>>) = 1 /\ <<line>>[1] = line
    BY <1>1
  <2> DEFINE one == <<line>>
  <2> HIDE DEF one
  <2>2. one \in Seq(Nat) /\ Len(one) = 1 /\ one[1] = line /\ list \in Seq(Nat)
    BY <2>1 DEF one, ListInv
  <2>3. /\ one \o list \in Seq(Nat) /\ Len(one \o list) = Len(one) + n
        /\ \A p \in 1 .. Len(one) + n :
             (one \o list)[p] = IF p <= Len(one) THEN one[p] ELSE list[p - Len(one)]
    BY <2>2, ConcatProperties
  <2>4. list' = one \o list
    BY <1>1 DEF one
  <2>5. list' \in Seq(Nat) /\ Len(list') = n + 1
    BY <1>3, <2>2, <2>3, <2>4
  <2>6. list'[1] = line /\ \A p \in 1 .. n : list'[p + 1] = list[p]
    <3>1. 1 \in 1 .. Len(one) + n /\ 1 <= Len(one)
      BY <1>3, <2>2
    <3>2. ASSUME NEW p \in 1 .. n PROVE list'[p + 1] = list[p]
      <4>1. p + 1 \in 1 .. Len(one) + n /\ ~(p + 1 <= Len(one)) /\ (p + 1) - Len(one) = p
        BY <1>3, <2>2
      <4> QED BY <2>3, <2>4, <4>1
    <3> QED BY <2>2, <2>3, <2>4, <3>1, <3>2
  <2> QED BY <2>5, <2>6, LenProperties
<1>5. Sorted!SameStrings(list)'
  <2> SUFFICES ASSUME NEW v \in Lines \cup {0}
               PROVE  Cardinality(Times(list', v)) = pushed'[v]
    BY SameStringsIs
  <2>1. Cardinality(Times(list, v)) = pushed[v]
    BY SameStringsIs DEF ListInv, Sorted!ListIntact
  <2>2. Cardinality(Times(list', v)) = pushed[v] + (IF v = line THEN 1 ELSE 0)
    BY <1>3, <1>4, <2>1, PrependTimes
  <2>3. pushed'[v] = IF v = line THEN pushed[v] + 1 ELSE pushed[v]
    BY <1>1 DEF ListInv
  <2>4. pushed[v] \in Nat
    BY DEF ListInv
  <2> QED BY <2>2, <2>3, <2>4
<1>6. Sorted!IsPrefix(printed16', list')
  BY <1>1, <1>2, <1>4, EmptyIsPrefix
<1>7. pushed' \in [Lines \cup {0} -> Nat]
  BY <1>1 DEF ListInv
<1>8. Sorted!ListIntact'
  BY <1>1, <1>2, <1>5, <1>6 DEF Sorted!ListIntact
<1> QED BY <1>1, <1>2, <1>4, <1>7, <1>8 DEF ListInv

(* A sort: nobody is in the middle of a print.                             *)
LEMMA SortKeeps ==
  ASSUME ListInv, Sorted!Sort
  PROVE  ListInv'
<1> DEFINE n == Len(list)
<1>1. /\ sorterAt = "awake" /\ listMutex = Nobody /\ listMutex' = "sorter"
      /\ list' = Sorted!bubbleStrSort(list) /\ sorterAt' = "sorted"
      /\ UNCHANGED <<pushed, mainAt, alarm, line, printed16>>
  BY DEF Sorted!Sort, Sorted!Lock
<1>2. mainAt # "print" /\ printed16 = <<>>
  BY <1>1, NobodyIsNoThread DEF ListInv
<1>3. n \in Nat /\ list \in Ranks(n)
  BY LenProperties DEF ListInv, Ranks
<1>4. list' \in Ranks(n) /\ SameTimes(list', list) /\ Before(list', n, n)
  BY <1>1, <1>3, SortSorts
<1>5. list' \in Seq(Nat) /\ Len(list') = n
  BY <1>3, <1>4, RanksAreLists
<1>6. Sorted!SameStrings(list)'
  BY <1>1, <1>4, SameStringsIs DEF ListInv, Sorted!ListIntact, SameTimes
<1>7. Sorted!IsPrefix(printed16', list')
  BY <1>1, <1>2, <1>5, EmptyIsPrefix
<1>8. \A p \in 1 .. Len(list') - 1 : list'[p] <= list'[p + 1]
  BY <1>3, <1>4, <1>5 DEF Before
<1>9. Sorted!ListIntact'
  BY <1>6, <1>7, <1>8 DEF Sorted!ListIntact
<1> QED BY <1>1, <1>2, <1>5, <1>9 DEF ListInv

(* The next string is printed, or the print ends.                          *)
LEMMA PrintKeeps ==
  ASSUME ListInv, Sorted!PrintNode
  PROVE  ListInv'
<1>1. /\ mainAt = "print" /\ listMutex = "main"
      /\ UNCHANGED <<list, pushed, sorterAt, alarm, line>>
      /\ \/ /\ Len(printed16) < Len(list)
            /\ printed16' = Append(printed16, list[Len(printed16) + 1])
            /\ UNCHANGED <<mainAt, listMutex>>
         \/ printed16' = <<>> /\ mainAt' = "read" /\ listMutex' = Nobody
  BY DEF Sorted!PrintNode, Sorted!Unlock, ListInv
<1>2. sorterAt \notin {"alarm", "sorted", "wait"}
  BY <1>1 DEF ListInv
<1>3. Sorted!SameStrings(list)'
  BY <1>1, SameStringsIs DEF ListInv, Sorted!ListIntact
<1>4. printed16' \in Seq(Nat) /\ Sorted!IsPrefix(printed16', list)
  <2>1. CASE printed16' = <<>>
    BY <2>1, EmptyIsPrefix, EmptySeq DEF ListInv
  <2>2. CASE /\ Len(printed16) < Len(list)
             /\ printed16' = Append(printed16, list[Len(printed16) + 1])
    <3> DEFINE m == Len(printed16)
               x == list[m + 1]
    <3>1. m \in Nat /\ Len(list) \in Nat /\ m + 1 \in 1 .. Len(list)
      BY <2>2, LenProperties DEF ListInv
    <3>2. x \in Nat
      BY <3>1, ElementOfSeq DEF ListInv
    <3>3. m <= Len(list) /\ \A p \in 1 .. m : printed16[p] = list[p]
      BY PrefixIs DEF ListInv, Sorted!ListIntact
    <3>4. /\ printed16' \in Seq(Nat) /\ Len(printed16') = m + 1
          /\ \A p \in 1 .. m : printed16'[p] = printed16[p]
          /\ printed16'[m + 1] = x
      <4> HIDE DEF x
      <4>1. printed16' = Append(printed16, x) /\ printed16 \in Seq(Nat)
        BY <2>2 DEF x, ListInv
      <4> QED BY <3>2, <4>1, AppendProperties
    <3>5. ASSUME NEW p \in 1 .. m + 1 PROVE printed16'[p] = list[p]
      <4>1. CASE p = m + 1
        BY <3>4, <4>1
      <4>2. CASE p # m + 1
        <5>1. p \in 1 .. m
          BY <3>1, <4>2
        <5> QED BY <3>3, <3>4, <5>1
      <4> QED BY <4>1, <4>2
    <3>6. Len(printed16') <= Len(list)
      BY <3>1, <3>4
    <3> QED BY <3>4, <3>5, <3>6, PrefixIs DEF ListInv
  <2> QED BY <1>1, <2>1, <2>2
<1>5. Sorted!ListIntact'
  BY <1>1, <1>2, <1>3, <1>4 DEF Sorted!ListIntact
<1>6. IF mainAt' = "print" THEN listMutex' = "main" ELSE printed16' = <<>>
  BY <1>1
<1> QED BY <1>1, <1>2, <1>4, <1>5, <1>6 DEF ListInv

(* The other steps of Lab16 leave the strings as they are.                 *)
LEMMA ListStep ==
  ASSUME ListInv,
         Sorted!Main \/ Sorted!Sorter \/ Sorted!Alarm \/ Sorted!SpuriousWakeup
  PROVE  ListInv'
<1>1. ASSUME UNCHANGED <<list, pushed, printed16>>, line' \in Lines \cup {0},
             IF mainAt' = "print" THEN listMutex' = "main" ELSE printed16 = <<>>,
             sorterAt' \in {"alarm", "sorted", "wait"} => listMutex' = "sorter",
             sorterAt' = "sorted" => sorterAt = "sorted"
      PROVE  ListInv'
  <2>1. Sorted!SameStrings(list)'
    BY <1>1, SameStringsIs DEF ListInv, Sorted!ListIntact
  <2>2. Sorted!ListIntact'
    BY <1>1, <2>1 DEF ListInv, Sorted!ListIntact
  <2> QED BY <1>1, <2>2 DEF ListInv
<1> USE NobodyIsNoThread DEF ListInv
<1>2. CASE Sorted!Read
  BY <1>1, <1>2 DEF Sorted!Read
<1>3. CASE Sorted!StartPrint
  BY <1>1, <1>3 DEF Sorted!StartPrint, Sorted!Lock
<1>4. CASE Sorted!SorterLock
  BY <1>1, <1>4 DEF Sorted!SorterLock, Sorted!Lock
<1>5. CASE Sorted!SetAlarm
  BY <1>1, <1>5 DEF Sorted!SetAlarm
<1>6. CASE Sorted!SorterWait
  BY <1>1, <1>6 DEF Sorted!SorterWait, Sorted!Unlock
<1>7. CASE Sorted!Alarm
  BY <1>1, <1>7 DEF Sorted!Alarm
<1>8. CASE Sorted!SpuriousWakeup
  BY <1>1, <1>8 DEF Sorted!SpuriousWakeup
<1> QED BY <1>2, <1>3, <1>4, <1>5, <1>6, <1>7, <1>8, PushKeeps, SortKeeps, PrintKeeps
        DEF Sorted!Main, Sorted!Sorter

(* Lab16's variables stay in a step of another program.                    *)
LEMMA ListsStay ==
  ASSUME ListInv,
         UNCHANGED <<list, pushed, listMutex, mainAt, sorterAt, alarm, line, printed16>>
  PROVE  ListInv'
<1>1. Sorted!SameStrings(list)'
  BY SameStringsIs DEF ListInv, Sorted!ListIntact
<1> QED BY <1>1 DEF ListInv, Sorted!ListIntact

(* The list begins with one empty string.                                  *)
LEMMA ListStart ==
  ASSUME Sorted!Init
  PROVE  ListInv
<1>1. /\ list = <<0>> /\ pushed = [v \in Lines \cup {0} |-> IF v = 0 THEN 1 ELSE 0]
      /\ mainAt = "read" /\ sorterAt = "lock" /\ line = 0 /\ printed16 = <<>>
  BY DEF Sorted!Init, Sorted!Empty
<1>2. list \in Seq(Nat) /\ Len(list) = 1 /\ DOMAIN list = {1} /\ list[1] = 0
  BY <1>1
<1>3. Sorted!SameStrings(list)
  <2>1. ASSUME NEW v \in Lines \cup {0} PROVE Cardinality(Times(list, v)) = pushed[v]
    <3>1. Times(list, v) = IF v = 0 THEN {1} ELSE {}
      BY <1>2 DEF Times
    <3>2. Cardinality({1}) = 1 /\ Cardinality({}) = 0
      BY FS_EmptySet, FS_Singleton
    <3> QED BY <1>1, <3>1, <3>2
  <2> QED BY <2>1, SameStringsIs
<1>4. Sorted!IsPrefix(printed16, list)
  BY <1>1, <1>2, EmptyIsPrefix
<1>5. Sorted!ListIntact
  BY <1>1, <1>3, <1>4 DEF Sorted!ListIntact
<1>6. pushed \in [Lines \cup {0} -> Nat] /\ printed16 \in Seq(Nat)
  BY <1>1
<1> QED BY <1>1, <1>2, <1>5, <1>6 DEF ListInv

(* Lab17: the strings, with the one an exchange holds back in its node.    *)
Content == IF sorter17 = "exchange" THEN [str EXCEPT ![listStr] = tmp] ELSE str

(* The nodes the sorter has left are sorted and no later string is lower;  *)
(* and its node has the lowest of the strings it has been compared with.   *)
Passed ==
  /\ listStr \in 1 .. first
  /\ sorter17 # "node" => listStr >= 2
  /\ \A p \in listStr + 1 .. first : \A m \in 1 .. p - 1 : Content[p] <= Content[m]
  /\ sorter17 \in {"compare", "exchange"} => nestedNode \in 0 .. listStr - 1
  /\ sorter17 = "compare" =>
       \A m \in nestedNode + 1 .. listStr - 1 : Content[listStr] <= Content[m]
  /\ sorter17 = "exchange" =>
       /\ nestedNode >= 1
       /\ \A m \in nestedNode .. listStr - 1 : Content[listStr] <= Content[m]

NodesInv ==
  /\ str \in Seq(Nat) /\ Len(str) >= 1 /\ tmp \in Nat
  /\ pushed17 \in [Lines \cup {0} -> Nat]
  /\ first \in 0 .. Len(str)
  /\ \A v \in Lines \cup {0} : Cardinality(Times(Content, v)) = pushed17[v]
  /\ IF sorter17 \in Nodes!InList THEN Passed
     ELSE \A p \in 2 .. first : str[p] <= str[p - 1]

(* The strings in the sorter's hands are as many as in the nodes.          *)
LEMMA ContentIs ==
  ASSUME NodesInv
  PROVE  /\ Len(str) \in Nat /\ DOMAIN str = 1 .. Len(str) /\ first <= Len(str)
         /\ Content \in [1 .. Len(str) -> Nat] /\ DOMAIN Content = 1 .. Len(str)
         /\ sorter17 # "exchange" => Content = str
         /\ \A p \in 1 .. Len(str) : str[p] \in Nat
<1>1. Len(str) \in Nat /\ DOMAIN str = 1 .. Len(str)
  BY LenProperties DEF NodesInv
<1>2. \A p \in 1 .. Len(str) : str[p] \in Nat
  BY <1>1, ElementOfSeq DEF NodesInv
<1>3. str \in [1 .. Len(str) -> Nat]
  BY LenProperties DEF NodesInv
<1>4. Content \in [1 .. Len(str) -> Nat]
  <2>1. tmp \in Nat
    BY DEF NodesInv
  <2> QED BY <1>3, <2>1 DEF Content
<1>5. sorter17 # "exchange" => Content = str
  BY DEF Content
<1>6. first <= Len(str) /\ DOMAIN Content = 1 .. Len(str)
  BY <1>1, <1>4 DEF NodesInv
<1> QED BY <1>1, <1>2, <1>4, <1>5, <1>6

(* The invariant has what the run checks.                                  *)
LEMMA NodesIntactIs ==
  ASSUME NodesInv
  PROVE  Nodes!NodesIntact
<1>1. ASSUME NEW s, NEW v
      PROVE  Nodes!Cardinality(Nodes!Times(s, v)) = Cardinality(Times(s, v))
  <2>1. Nodes!Times(s, v) = Times(s, v)
    BY DEF Times, Nodes!Times
  <2> QED BY <2>1 DEF Nodes!Cardinality, Cardinality
<1>2. Nodes!SameStrings(Content)
  BY <1>1 DEF NodesInv, Nodes!SameStrings
<1>3. sorter17 = "alarm" => \A p \in 2 .. first : str[p] <= str[p - 1]
  BY DEF NodesInv, Nodes!InList
<1> QED BY <1>2, <1>3 DEF Nodes!NodesIntact, Content

(* A push adds a node before all that the sorter goes through.             *)
LEMMA NewNodeKeeps ==
  ASSUME NodesInv, NEW x \in Lines, str' = Append(str, x),
         pushed17' = [pushed17 EXCEPT ![x] = @ + 1],
         UNCHANGED <<sorter17, listStr, nestedNode, tmp, first>>
  PROVE  NodesInv'
<1> DEFINE n == Len(str)
<1>1. /\ n \in Nat /\ DOMAIN str = 1 .. n /\ first \in 0 .. n
      /\ Content \in [1 .. n -> Nat] /\ DOMAIN Content = 1 .. n
  BY ContentIs DEF NodesInv
<1>2. x \in Nat /\ str \in Seq(Nat)
  BY StringsRanked DEF NodesInv
<1>3. /\ str' \in Seq(Nat) /\ Len(str') = n + 1
      /\ \A p \in 1 .. n : str'[p] = str[p]
      /\ str'[n + 1] = x
  BY <1>2, AppendProperties
<1>4. DOMAIN str' = 1 .. n + 1
  BY <1>3, LenProperties
<1>5. sorter17 \in Nodes!InList => listStr \in 1 .. first
  BY DEF NodesInv, Passed
<1>6. /\ DOMAIN Content' = 1 .. n + 1
      /\ \A p \in 1 .. n : Content'[p] = Content[p]
      /\ Content'[n + 1] = x
  <2>1. CASE sorter17 = "exchange"
    <3>1. listStr \in 1 .. n /\ listStr # n + 1
      BY <1>1, <1>5, <2>1 DEF Nodes!InList
    <3>2. /\ Content' = [str' EXCEPT ![listStr] = tmp]
          /\ Content = [str EXCEPT ![listStr] = tmp]
      BY <2>1 DEF Content
    <3>3. /\ DOMAIN Content' = 1 .. n + 1
          /\ \A p \in 1 .. n + 1 : Content'[p] = IF p = listStr THEN tmp ELSE str'[p]
      BY <1>4, <3>2
    <3>4. \A p \in 1 .. n : Content[p] = IF p = listStr THEN tmp ELSE str[p]
      BY <1>1, <3>2
    <3>5. \A p \in 1 .. n : p \in 1 .. n + 1
      BY <1>1
    <3>6. n + 1 \in 1 .. n + 1
      BY <1>1
    <3> QED BY <1>3, <3>1, <3>3, <3>4, <3>5, <3>6
  <2>2. CASE sorter17 # "exchange"
    <3>1. Content' = str' /\ Content = str
      BY <2>2 DEF Content
    <3> QED BY <1>3, <1>4, <3>1
  <2> QED BY <2>1, <2>2
<1>7. ASSUME NEW v \in Lines \cup {0}
      PROVE  Cardinality(Times(Content', v)) = pushed17'[v]
  <2>1. /\ Cardinality(Times(Content, v)) = pushed17[v]
        /\ pushed17[v] \in Nat
    BY DEF NodesInv
  <2> DEFINE s == Content
             t == Content'
  <2>2. /\ DOMAIN s = 1 .. n /\ DOMAIN t = 1 .. n + 1
        /\ \A p \in 1 .. n : t[p] = s[p]
        /\ t[n + 1] = x
    BY <1>1, <1>6
  <2>3. n \in Nat
    BY <1>1
  <2> HIDE DEF s, t, n
  <2>4. Cardinality(Times(t, v)) = Cardinality(Times(s, v)) + (IF v = x THEN 1 ELSE 0)
    BY <2>2, <2>3, AppendTimes
  <2>5. pushed17'[v] = IF v = x THEN pushed17[v] + 1 ELSE pushed17[v]
    BY DEF NodesInv
  <2> QED BY <2>1, <2>4, <2>5 DEF s, t
<1>8. pushed17' \in [Lines \cup {0} -> Nat]
  BY DEF NodesInv
<1>9. ASSUME sorter17 \in Nodes!InList PROVE Passed'
  <2>1. Passed
    BY <1>9 DEF NodesInv
  <2>2. \A p \in 1 .. first : p \in 1 .. n
    BY <1>1
  <2>3. listStr \in 1 .. first
    BY <2>1 DEF Passed
  <2>4. ASSUME NEW p \in listStr + 1 .. first, NEW m \in 1 .. p - 1
        PROVE  Content'[p] <= Content'[m]
    <3>1. p \in 1 .. n /\ m \in 1 .. n
      BY <1>1, <2>3
    <3>2. Content[p] <= Content[m]
      BY <2>1 DEF Passed
    <3> QED BY <1>6, <3>1, <3>2
  <2>5. ASSUME NEW m \in 1 .. listStr - 1, Content[listStr] <= Content[m]
        PROVE  Content'[listStr] <= Content'[m]
    <3>1. m \in 1 .. n /\ listStr \in 1 .. n
      BY <1>1, <2>3
    <3> QED BY <1>6, <2>5, <3>1
  <2>6. ASSUME sorter17 = "compare", NEW m \in nestedNode + 1 .. listStr - 1
        PROVE  Content'[listStr] <= Content'[m]
    <3>1. m \in 1 .. listStr - 1 /\ Content[listStr] <= Content[m]
      BY <2>1, <2>3, <2>6 DEF Passed
    <3> QED BY <2>5, <3>1
  <2>7. ASSUME sorter17 = "exchange", NEW m \in nestedNode .. listStr - 1
        PROVE  Content'[listStr] <= Content'[m]
    <3>1. m \in 1 .. listStr - 1 /\ Content[listStr] <= Content[m]
      BY <2>1, <2>3, <2>7 DEF Passed
    <3> QED BY <2>5, <3>1
  <2> QED BY <2>1, <2>4, <2>6, <2>7 DEF Passed
<1>10. ASSUME sorter17 \notin Nodes!InList
       PROVE  \A p \in 2 .. first : str'[p] <= str'[p - 1]
  <2>1. ASSUME NEW p \in 2 .. first PROVE str'[p] <= str'[p - 1]
    <3>1. p \in 1 .. n /\ p - 1 \in 1 .. n
      BY <1>1
    <3>2. str[p] <= str[p - 1]
      BY <1>10 DEF NodesInv
    <3> QED BY <1>3, <3>1, <3>2
  <2> QED BY <2>1
<1>11. first' \in 0 .. Len(str') /\ Len(str') >= 1 /\ tmp' \in Nat
  BY <1>1, <1>3 DEF NodesInv
<1> QED BY <1>3, <1>7, <1>8, <1>9, <1>10, <1>11 DEF NodesInv, Nodes!InList

(* A comparison that finds a lower string has the sorter hold it back.     *)
LEMMA HoldKeeps ==
  ASSUME NodesInv, sorter17 = "compare", nestedNode # 0,
         str[listStr] > str[nestedNode], tmp' = str[nestedNode],
         str' = [str EXCEPT ![nestedNode] = str[listStr]], sorter17' = "exchange",
         UNCHANGED <<pushed17, listStr, nestedNode, first>>
  PROVE  NodesInv'
<1> DEFINE n == Len(str)
<1>1. n \in Nat /\ str \in [1 .. n -> Nat] /\ Content = str /\ first \in 0 .. n
  BY ContentIs DEF NodesInv
<1>2. Passed /\ listStr \in 1 .. n /\ nestedNode \in 1 .. listStr - 1 /\ nestedNode \in 1 .. n
  <2>1. Passed
    BY DEF NodesInv, Nodes!InList
  <2> QED BY <1>1, <2>1 DEF Passed, NodesInv
<1>3. str[listStr] \in Nat /\ str[nestedNode] \in Nat /\ tmp' \in Nat
  BY <1>1, <1>2
<1>4. str' \in [1 .. n -> Nat] /\ str' \in Seq(Nat) /\ Len(str') = n
  <2>1. str' \in [1 .. n -> Nat]
    BY <1>1, <1>3
  <2> QED BY <1>1, <2>1
<1> DEFINE s == Content
           t == Content'
<1>5. t = Swapped(s, listStr, nestedNode)
  <2>1. t = [str' EXCEPT ![listStr] = tmp']
    BY DEF Content
  <2> QED BY <1>1, <1>2, <2>1 DEF Swapped
<1>6. \A p \in 1 .. n : t[p] = IF p = nestedNode THEN s[listStr]
                               ELSE IF p = listStr THEN s[nestedNode] ELSE s[p]
  BY <1>1, <1>2, <1>5 DEF Swapped
<1>7. s \in [1 .. n -> Nat] /\ DOMAIN s = 1 .. n /\ s[listStr] > s[nestedNode]
  BY <1>1
<1>8. ASSUME NEW v \in Lines \cup {0} PROVE Cardinality(Times(t, v)) = pushed17'[v]
  <2>1. Cardinality(Times(s, v)) = pushed17[v]
    BY DEF NodesInv
  <2> HIDE DEF s, t
  <2>2. Cardinality(Times(Swapped(s, listStr, nestedNode), v)) = Cardinality(Times(s, v))
    BY <1>1, <1>2, <1>7, SwapTimes
  <2>3. pushed17' = pushed17
    OBVIOUS
  <2> QED BY <1>5, <2>1, <2>2, <2>3
<1>9. /\ \A p \in listStr + 1 .. first : \A m \in 1 .. p - 1 : s[p] <= s[m]
      /\ \A m \in nestedNode + 1 .. listStr - 1 : s[listStr] <= s[m]
  BY <1>2 DEF Passed
<1> HIDE DEF s, t
<1>10. ASSUME NEW p \in listStr + 1 .. first, NEW m \in 1 .. p - 1 PROVE t[p] <= t[m]
  <2>0. p \in 1 .. n /\ m \in 1 .. n /\ p # listStr /\ p # nestedNode
    BY <1>1, <1>2
  <2>1. p \in 1 .. n /\ m \in 1 .. n /\ t[p] = s[p]
    BY <1>6, <2>0
  <2>2. listStr \in 1 .. p - 1 /\ nestedNode \in 1 .. p - 1
    BY <1>1, <1>2
  <2>3. s[p] <= s[m] /\ s[p] <= s[listStr] /\ s[p] <= s[nestedNode]
    BY <1>9, <2>2
  <2> QED BY <1>6, <2>1, <2>3
<1>11. ASSUME NEW m \in nestedNode .. listStr - 1 PROVE t[listStr] <= t[m]
  <2>1. m \in 1 .. n /\ t[listStr] = s[nestedNode]
    BY <1>1, <1>2, <1>6
  <2>2. s[m] \in Nat /\ s[listStr] \in Nat /\ s[nestedNode] \in Nat
    BY <1>2, <1>7, <2>1
  <2>3. CASE m = nestedNode
    BY <1>6, <1>7, <2>1, <2>2, <2>3
  <2>4. CASE m # nestedNode
    <3>1. m \in nestedNode + 1 .. listStr - 1 /\ m # listStr
      BY <1>2, <2>4
    <3>2. s[listStr] <= s[m] /\ t[m] = s[m]
      BY <1>6, <1>9, <2>1, <2>4, <3>1
    <3> QED BY <1>7, <2>1, <2>2, <3>2
  <2> QED BY <2>3, <2>4
<1>12. Passed'
  BY <1>2, <1>10, <1>11 DEF Passed, t
<1> QED BY <1>3, <1>4, <1>8, <1>12 DEF NodesInv, Nodes!InList, t

(* Writing it into the sorter's node ends the exchange.                    *)
LEMMA WriteKeeps ==
  ASSUME NodesInv, Nodes!Exchange, UNCHANGED pushed17
  PROVE  NodesInv'
<1> DEFINE n == Len(str)
<1>1. /\ sorter17 = "exchange" /\ str' = [str EXCEPT ![listStr] = tmp] /\ tmp' = 0
      /\ nestedNode' = nestedNode - 1 /\ sorter17' = "compare"
      /\ UNCHANGED <<pushed17, listStr, first>>
  BY DEF Nodes!Exchange
<1>2. /\ n \in Nat /\ Content \in [1 .. n -> Nat] /\ first <= n
      /\ Content = str' /\ Content' = str'
  BY <1>1, ContentIs DEF Content
<1>3. Passed
  BY <1>1 DEF NodesInv, Nodes!InList
<1>4. str' \in Seq(Nat) /\ Len(str') = n
  BY <1>2
<1>5. nestedNode \in 1 .. listStr - 1 /\ nestedNode' \in 0 .. listStr - 1
  BY <1>1, <1>3 DEF Passed, NodesInv
<1>6. nestedNode' + 1 = nestedNode
  BY <1>1, <1>5
<1>7. Passed'
  BY <1>1, <1>2, <1>3, <1>5, <1>6 DEF Passed
<1>8. \A v \in Lines \cup {0} : Cardinality(Times(Content', v)) = pushed17'[v]
  BY <1>1, <1>2 DEF NodesInv
<1> QED BY <1>1, <1>4, <1>7, <1>8 DEF NodesInv, Nodes!InList

(* What the other steps do: they leave the strings where they are.         *)
LEMMA StringsStay ==
  ASSUME NodesInv, UNCHANGED <<str, pushed17, tmp>>,
         sorter17 = "exchange" <=> sorter17' = "exchange",
         sorter17' = "exchange" => UNCHANGED listStr,
         first' \in 0 .. Len(str),
         IF sorter17' \in Nodes!InList THEN Passed'
         ELSE \A p \in 2 .. first' : str[p] <= str[p - 1]
  PROVE  NodesInv'
<1>1. Content' = Content
  BY DEF Content
<1>2. \A v \in Lines \cup {0} : Cardinality(Times(Content', v)) = pushed17'[v]
  BY <1>1 DEF NodesInv
<1> QED BY <1>2 DEF NodesInv

(* Every step of the sorter.                                               *)
LEMMA SorterKeeps ==
  ASSUME NodesInv, Nodes!Sorter
  PROVE  NodesInv'
<1> DEFINE n == Len(str)
<1>1. UNCHANGED pushed17
  BY DEF Nodes!Sorter, Nodes!mainVars
<1>2. n \in Nat /\ first \in 0 .. n /\ \A p \in 1 .. n : str[p] \in Nat
  BY ContentIs DEF NodesInv
<1>3. sorter17 # "exchange" => Content = str
  BY DEF Content
<1>4. CASE Nodes!SetAlarm \/ Nodes!SorterWait
  <2>1. /\ sorter17 \notin Nodes!InList /\ sorter17' \notin Nodes!InList
        /\ UNCHANGED <<str, tmp, first>>
    BY <1>4 DEF Nodes!SetAlarm, Nodes!SorterWait, Nodes!InList
  <2> QED BY <1>1, <1>2, <2>1, StringsStay DEF NodesInv, Nodes!InList
<1>5. CASE Nodes!SortHead
  <2>1. /\ sorter17 = "awake" /\ sorter17' = "node" /\ UNCHANGED <<str, tmp>>
        /\ listStr' = n /\ first' = n
    BY <1>5 DEF Nodes!SortHead, Nodes!head
  <2>2. n >= 1 /\ first' \in 0 .. n /\ listStr' \in 1 .. first'
    BY <1>2, <2>1 DEF NodesInv
  <2>3. listStr' + 1 .. first' = {}
    BY <1>2, <2>1
  <2>4. Passed'
    BY <2>1, <2>2, <2>3 DEF Passed
  <2> QED BY <1>1, <2>1, <2>2, <2>4, StringsStay DEF Nodes!InList
<1>6. CASE Nodes!LockNode
  <2>1. /\ sorter17 = "node" /\ UNCHANGED <<str, listStr, nestedNode, tmp, first>>
        /\ IF listStr = 1 THEN sorter17' = "alarm" ELSE sorter17' = "next"
    BY <1>6 DEF Nodes!LockNode
  <2>2. Passed /\ Content = str /\ Content' = str
    BY <2>1 DEF NodesInv, Nodes!InList, Content
  <2>3. CASE listStr = 1
    <3>1. ASSUME NEW p \in 2 .. first PROVE str[p] <= str[p - 1]
      <4>1. p \in listStr + 1 .. first /\ p - 1 \in 1 .. p - 1
        BY <1>2, <2>3
      <4> QED BY <2>2, <4>1 DEF Passed
    <3> QED BY <1>1, <1>2, <2>1, <2>3, <3>1, StringsStay DEF Nodes!InList
  <2>4. CASE listStr # 1
    <3>1. listStr >= 2
      BY <1>2, <2>2, <2>4 DEF Passed
    <3>2. Passed'
      BY <2>1, <2>2, <2>4, <3>1 DEF Passed
    <3> QED BY <1>1, <1>2, <2>1, <2>4, <3>2, StringsStay DEF Nodes!InList
  <2> QED BY <2>3, <2>4
<1>7. CASE Nodes!LockNext
  <2>1. /\ sorter17 = "next" /\ sorter17' = "compare" /\ nestedNode' = listStr - 1
        /\ UNCHANGED <<str, listStr, tmp, first>>
    BY <1>7 DEF Nodes!LockNext
  <2>2. Passed /\ Content = str /\ Content' = str
    BY <2>1 DEF NodesInv, Nodes!InList, Content
  <2>3. listStr \in Int /\ listStr >= 2
    BY <1>2, <2>1, <2>2 DEF Passed
  <2>4. nestedNode' + 1 .. listStr - 1 = {} /\ nestedNode' \in 0 .. listStr - 1
    BY <2>1, <2>3
  <2>5. Passed'
    BY <2>1, <2>2, <2>3, <2>4 DEF Passed
  <2> QED BY <1>1, <1>2, <2>1, <2>5, StringsStay DEF Nodes!InList
<1>8. CASE Nodes!Compare
  <2>1. /\ sorter17 = "compare" /\ nestedNode # 0
        /\ UNCHANGED <<mutex17, listStr, first, alarm17, installed>>
    BY <1>8 DEF Nodes!Compare
  <2>2. CASE str[listStr] > str[nestedNode]
    BY <1>1, <1>8, <2>2, HoldKeeps DEF Nodes!Compare
  <2>3. CASE ~(str[listStr] > str[nestedNode])
    <3>1. nestedNode' = nestedNode - 1 /\ UNCHANGED <<str, sorter17, tmp>>
      BY <1>8, <2>3 DEF Nodes!Compare
    <3>2. Passed /\ Content = str /\ Content' = str
      BY <2>1, <3>1 DEF NodesInv, Nodes!InList, Content
    <3>3. listStr \in 1 .. n /\ nestedNode \in 1 .. listStr - 1 /\ nestedNode \in 1 .. n
      BY <1>2, <2>1, <3>2 DEF Passed
    <3>4. str[listStr] <= str[nestedNode]
      BY <1>2, <2>3, <3>3
    <3>5. \A m \in nestedNode' + 1 .. listStr - 1 :
            m = nestedNode \/ m \in nestedNode + 1 .. listStr - 1
      BY <3>1, <3>3
    <3>6. \A m \in nestedNode' + 1 .. listStr - 1 : str[listStr] <= str[m]
      BY <2>1, <3>2, <3>4, <3>5 DEF Passed
    <3>7. nestedNode' \in 0 .. listStr - 1
      BY <3>1, <3>3
    <3>8. Passed'
      BY <2>1, <3>1, <3>2, <3>6, <3>7 DEF Passed
    <3> QED BY <1>1, <1>2, <2>1, <3>1, <3>8, StringsStay DEF Nodes!InList
  <2> QED BY <2>2, <2>3
<1>9. CASE Nodes!Exchange
  BY <1>1, <1>9, WriteKeeps
<1>10. CASE Nodes!UnlockNode
  <2>1. /\ sorter17 = "compare" /\ sorter17' = "node" /\ nestedNode = 0
        /\ listStr' = listStr - 1 /\ UNCHANGED <<str, nestedNode, tmp, first>>
    BY <1>10 DEF Nodes!UnlockNode
  <2>2. Passed /\ Content = str /\ Content' = str
    BY <2>1 DEF NodesInv, Nodes!InList, Content
  <2>3. listStr \in 2 .. first /\ listStr' \in 1 .. first
    BY <1>2, <2>1, <2>2 DEF Passed
  <2>4. ASSUME NEW p \in listStr' + 1 .. first, NEW m \in 1 .. p - 1
        PROVE  str[p] <= str[m]
    <3>1. CASE p = listStr
      <4>1. m \in nestedNode + 1 .. listStr - 1
        BY <2>1, <3>1
      <4> QED BY <2>1, <2>2, <3>1, <4>1 DEF Passed
    <3>2. CASE p # listStr
      <4>1. p \in listStr + 1 .. first
        BY <2>1, <2>3, <3>2
      <4> QED BY <2>2, <4>1 DEF Passed
    <3> QED BY <3>1, <3>2
  <2>5. Passed'
    BY <2>1, <2>2, <2>3, <2>4 DEF Passed
  <2> QED BY <1>1, <1>2, <2>1, <2>5, StringsStay DEF Nodes!InList
<1> QED BY <1>4, <1>5, <1>6, <1>7, <1>8, <1>9, <1>10 DEF Nodes!Sorter

(* Main, a signal and the alarm leave what the sorter does as it is.       *)
LEMMA NodesStep ==
  ASSUME NodesInv, Nodes!Next
  PROVE  NodesInv'
<1>1. CASE Nodes!Push /\ UNCHANGED Nodes!sorterVars
  <2>1. PICK x \in Lines : /\ str' = Append(str, x)
                           /\ pushed17' = [pushed17 EXCEPT ![x] = @ + 1]
    BY <1>1 DEF Nodes!Push
  <2> QED BY <1>1, <2>1, NewNodeKeeps DEF Nodes!sorterVars
<1>2. CASE UNCHANGED <<str, pushed17, Nodes!sorterVars>>
  BY <1>2 DEF NodesInv, Passed, Content, Nodes!sorterVars
<1>3. CASE Nodes!Wakeup
  <2>1. /\ UNCHANGED <<str, pushed17, listStr, nestedNode, tmp, first>>
        /\ sorter17' = IF sorter17 = "asleep" THEN "awake" ELSE sorter17
    BY <1>3 DEF Nodes!Wakeup, Nodes!mainVars
  <2> QED BY <2>1 DEF NodesInv, Passed, Content, Nodes!InList
<1>4. CASE Nodes!Main
  BY <1>1, <1>2, <1>4 DEF Nodes!Main, Nodes!Test, Nodes!Read, Nodes!PrintNode, Nodes!FreeNode
<1>5. CASE Nodes!Sigint
  BY <1>2, <1>5 DEF Nodes!Sigint, Nodes!mainVars
<1> QED BY <1>3, <1>4, <1>5, SorterKeeps DEF Nodes!Next

(* The list begins with one empty string.                                  *)
LEMMA NodesStart ==
  ASSUME Nodes!Init
  PROVE  NodesInv
<1>1. /\ str = <<0>> /\ pushed17 = [v \in Lines \cup {0} |-> IF v = 0 THEN 1 ELSE 0]
      /\ sorter17 = "alarm" /\ tmp = 0 /\ first = 0
  BY DEF Nodes!Init
<1>2. str \in Seq(Nat) /\ Len(str) = 1 /\ DOMAIN str = {1} /\ str[1] = 0 /\ Content = str
  BY <1>1 DEF Content
<1>3. ASSUME NEW v \in Lines \cup {0} PROVE Cardinality(Times(Content, v)) = pushed17[v]
  <2>1. Times(str, v) = IF v = 0 THEN {1} ELSE {}
    BY <1>2 DEF Times
  <2>2. Cardinality({1}) = 1 /\ Cardinality({}) = 0
    BY FS_EmptySet, FS_Singleton
  <2> QED BY <1>1, <1>2, <2>1, <2>2
<1>4. pushed17 \in [Lines \cup {0} -> Nat] /\ 2 .. first = {}
  BY <1>1
<1> QED BY <1>1, <1>2, <1>3, <1>4 DEF NodesInv, Nodes!InList

(* Pushes, sorts and prints in any order lose and double no string, what   *)
(* is printed of Lab16's list is the list as it is at one time, and a pass *)
(* of a sorter leaves what it went through sorted, for any lines and any   *)
(* number of pushes.                                                       *)
THEOREM ListsCorrect == Init /\ [][Next]_vars => []ListIntact
<1> DEFINE Lists == ListInv /\ NodesInv
<1>1. Init => Lists
  BY ListStart, NodesStart DEF Init
<1>2. ASSUME Lists, [Next]_vars
      PROVE  Lists'
  <2>1. CASE Lab16
    <3>1. UNCHANGED lab17
      BY <2>1 DEF Lab16, Only
    <3>2. NodesInv'
      BY <1>2, <3>1 DEF lab17, NodesInv, Passed, Content
    <3> QED BY <1>2, <2>1, <3>2, ListStep DEF Lab16
  <2>2. CASE Lab17
    <3>1. UNCHANGED lab16
      BY <2>2 DEF Lab17, Only
    <3>2. ListInv'
      BY <1>2, <3>1, ListsStay DEF lab16
    <3> QED BY <1>2, <2>2, <3>2, NodesStep DEF Lab17
  <2>3. CASE UNCHANGED lab16 /\ UNCHANGED lab17
    <3>1. NodesInv'
      BY <1>2, <2>3 DEF lab17, NodesInv, Passed, Content
    <3>2. ListInv'
      BY <1>2, <2>3, ListsStay DEF lab16
    <3> QED BY <3>1, <3>2
  <2>4. CASE UNCHANGED vars \/ \E p \in Programs \ {"Lab16", "Lab17"} : Only(p)
    BY <2>3, <2>4 DEF vars, Only
  <2> QED BY <1>2, <2>1, <2>2, <2>4
          DEF Next, Programs, Turning, Thread, SpuriousWakeup, Worker, Main8, Sigint, Main7,
              PrintLine1, Main1, Main4, Thread4, sigAlarm, Thread7, createDetail,
              createModule, Main22, cpFunction
<1>3. Lists => ListIntact
  BY NodesIntactIs DEF ListInv, ListIntact
<1> QED BY <1>1, <1>2, <1>3, PTL
=============================================================================
