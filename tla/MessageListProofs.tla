------------------------- MODULE MessageListProofs -------------------------
(***************************************************************************)
(* What one put and one get do to the linked list, for every set of nodes  *)
(* and every number of linked messages: the list stays the linked form of  *)
(* the sequence that a FIFO would hold.                                    *)
(***************************************************************************)
EXTENDS MessageList, FiniteSetTheorems, TLAPS

(* mymsginit: the empty list represents the empty sequence.                *)
LEMMA EmptyLinked ==
  ASSUME NEW S
  PROVE  EmptyList(S) \in Lists(S) /\ Linked(EmptyList(S), <<>>)
BY DEF EmptyList, Lists, Linked, Ends, Chained, NoRepeat

(* What holds at n and, with i + 1, at i, holds from 1 to n.  The sets      *)
(* i .. n of the places it fails at would have a least one, as finite sets *)
(* do under inclusion.                                                     *)
LEMMA DownTo1 ==
  ASSUME NEW n \in Nat, NEW K, n \in K,
         \A i \in 1 .. n - 1 : i + 1 \in K => i \in K
  PROVE  1 .. n \subseteq K
<1> DEFINE Upper == {i .. n : i \in (1 .. n) \ K}
           R == StrictSubsetOrdering(1 .. n)
<1> SUFFICES ASSUME (1 .. n) \ K # {} PROVE FALSE
  OBVIOUS
<1>1. IsFiniteSet(1 .. n)
  BY FS_Interval
<1>2. IsWellFoundedOn(R, SUBSET (1 .. n))
  BY <1>1, FS_StrictSubsetOrderingWellFounded, FS_FiniteSubsetsOfFinite
<1>3. Upper \subseteq SUBSET (1 .. n) /\ Upper # {}
  OBVIOUS
<1>4. \E x \in Upper : \A y \in Upper : <<y, x>> \notin R
  <2> HIDE DEF Upper, R
  <2> QED BY <1>2, <1>3, WFMin
<1>5. PICK i \in (1 .. n) \ K : \A y \in Upper : <<y, i .. n>> \notin R
  BY <1>4
<1>6. i \in 1 .. n - 1 /\ i + 1 \in (1 .. n) \ K
  <2>1. i # n
    BY <1>5
  <2> QED BY <1>5, <2>1
<1>7. /\ (i + 1) .. n \in Upper
      /\ (i + 1) .. n \subseteq i .. n
      /\ i \in i .. n /\ i \notin (i + 1) .. n
  BY <1>6
<1>8. <<(i + 1) .. n, i .. n>> \in R
  BY <1>3, <1>6, <1>7 DEF StrictSubsetOrdering
<1> QED BY <1>5, <1>7, <1>8

(* A walk over the list of a queue meets the linked messages and no other. *)
LEMMA WalkedLinked ==
  ASSUME NEW S, Nil \notin S,
         NEW l \in Lists(S), NEW s \in Seq(S), Linked(l, s)
  PROVE  Walked(l) = {s[i] : i \in 1 .. Len(s)}
<1> DEFINE R == {s[i] : i \in 1 .. Len(s)}
           n == Len(s)
<1>1. DOMAIN l.next = S /\ R \in SUBSET S
  BY DEF Lists
<1>2. n \in Nat /\ (s = <<>> <=> n = 0)
  OBVIOUS
<1>3. l.head \in R \cup {Nil}
  BY <1>2 DEF Linked, Ends
<1>4. ASSUME NEW i \in 1 .. n PROVE l.next[s[i]] \in R \cup {Nil}
  <2>1. CASE i = 1
    BY <2>1, <1>2 DEF Linked, Ends
  <2>2. CASE i # 1
    <3>1. i - 1 \in 1 .. n - 1 /\ i - 1 \in 1 .. n /\ (i - 1) + 1 = i
      BY <2>2, <1>2
    <3>2. l.next[s[(i - 1) + 1]] = s[i - 1]
      BY <3>1 DEF Linked, Chained
    <3> QED BY <3>1, <3>2
  <2> QED BY <2>1, <2>2
<1>5. Walked(l) \subseteq R
  <2>1. \A x \in R : l.next[x] \in R \cup {Nil}
    BY <1>4
  <2> HIDE DEF R
  <2> QED BY <1>1, <1>3, <2>1 DEF Walked
<1>6. ASSUME NEW T \in SUBSET S, l.head \in T \cup {Nil},
             \A x \in T : l.next[x] \in T \cup {Nil}
      PROVE  R \subseteq T
  <2> DEFINE K == {i \in 1 .. n : s[i] \in T}
  <2>1. CASE s = <<>>
    BY <2>1, <1>2
  <2>2. CASE s # <<>>
    <3>1. n \in K
      BY <2>2, <1>2, <1>6 DEF Linked, Ends
    <3>2. ASSUME NEW i \in 1 .. n - 1, i + 1 \in K PROVE i \in K
      <4>1. l.next[s[i + 1]] = s[i] /\ i \in 1 .. n /\ s[i] \in S
        BY <3>2 DEF Linked, Chained
      <4> QED BY <4>1, <3>2, <1>6
    <3>3. 1 .. n \subseteq K
      <4> HIDE DEF K, n
      <4> QED BY <1>2, <3>1, <3>2, DownTo1
    <3> QED BY <3>3
  <2> QED BY <2>1, <2>2
<1> QED BY <1>1, <1>5, <1>6 DEF Walked

(* Linking a node that is not in the list appends it to the sequence.      *)
LEMMA PushLinked ==
  ASSUME NEW S, Nil \notin S,
         NEW l \in Lists(S), NEW s \in Seq(S), Linked(l, s),
         NEW c \in S, \A i \in 1 .. Len(s) : s[i] # c
  PROVE  PushHead(l, c) \in Lists(S) /\ Linked(PushHead(l, c), Append(s, c))
<1> DEFINE k == PushHead(l, c)
           t == Append(s, c)
           n == Len(s)
<1>1. /\ n \in Nat
      /\ t \in Seq(S)
      /\ Len(t) = n + 1
      /\ t[n + 1] = c
      /\ \A i \in 1 .. n : t[i] = s[i] /\ s[i] \in S
  OBVIOUS
<1>2. /\ l.head \in S \cup {Nil}
      /\ l.tail \in S \cup {Nil}
      /\ l.next \in [S -> S \cup {Nil}]
      /\ l.prev \in [S -> S \cup {Nil}]
  BY DEF Lists
<1>3. /\ k.head = c
      /\ k.tail = IF l.head = Nil THEN c ELSE l.tail
      /\ k.next = [l.next EXCEPT ![c] = l.head]
      /\ k.prev = [x \in S |-> IF x = c THEN Nil
                               ELSE IF x = l.head THEN c ELSE l.prev[x]]
  BY <1>2 DEF PushHead
<1>4. k \in Lists(S)
  BY <1>2 DEF PushHead, Lists
<1>5. s = <<>> <=> n = 0
  OBVIOUS
<1>6. s # <<>> => l.head = s[n] /\ l.head # Nil /\ l.head # c /\ l.tail = s[1]
  BY <1>1, <1>5 DEF Linked, Ends
<1>7. s = <<>> => l.head = Nil
  BY DEF Linked, Ends
<1>8. NoRepeat(t)
  <2> SUFFICES ASSUME NEW i \in 1 .. n + 1, NEW j \in 1 .. n + 1, t[i] = t[j]
               PROVE  i = j
    BY <1>1 DEF NoRepeat
  <2>1. CASE i = n + 1 \/ j = n + 1
    BY <2>1, <1>1
  <2>2. CASE i # n + 1 /\ j # n + 1
    <3>1. i \in 1 .. n /\ j \in 1 .. n
      BY <2>2, <1>1
    <3> QED BY <3>1, <1>1 DEF Linked, NoRepeat
  <2> QED BY <2>1, <2>2
<1>9. Chained(k, t)
  <2> SUFFICES ASSUME NEW i \in 1 .. n
               PROVE  k.prev[t[i]] = t[i + 1] /\ k.next[t[i + 1]] = t[i]
    BY <1>1 DEF Chained
  <2>1. t[i] = s[i] /\ s[i] \in S /\ s[i] # c /\ s # <<>>
    BY <1>1, <1>5
  <2>2. CASE i = n
    <3>1. t[i + 1] = c /\ s[i] = l.head
      BY <1>1, <1>6, <2>1, <2>2
    <3> QED BY <1>2, <1>3, <2>1, <3>1
  <2>3. CASE i # n
    <3>1. /\ i \in 1 .. n - 1
          /\ i + 1 \in 1 .. n
      BY <2>3, <1>1
    <3>2. /\ t[i + 1] = s[i + 1]
          /\ s[i + 1] \in S
          /\ s[i + 1] # c
      BY <3>1, <1>1
    <3>3. s[i] # l.head
      <4>1. n \in 1 .. n
        BY <1>1, <2>1, <1>5
      <4> QED BY <4>1, <1>6, <2>1, <2>3 DEF Linked, NoRepeat
    <3>4. l.prev[s[i]] = s[i + 1] /\ l.next[s[i + 1]] = s[i]
      BY <3>1 DEF Linked, Chained
    <3> QED BY <1>2, <1>3, <2>1, <3>2, <3>3, <3>4
  <2> QED BY <2>2, <2>3
<1>10. Ends(k, t)
  <2>1. t # <<>> /\ k.head = t[Len(t)] /\ k.prev[t[Len(t)]] = Nil
    BY <1>1, <1>3
  <2>2. k.tail = t[1] /\ k.next[t[1]] = Nil
    <3>1. CASE s = <<>>
      BY <3>1, <1>1, <1>2, <1>3, <1>5, <1>7
    <3>2. CASE s # <<>>
      <4>1. 1 \in 1 .. n /\ t[1] = s[1] /\ s[1] \in S /\ s[1] # c
        BY <3>2, <1>1, <1>5
      <4>2. l.next[s[1]] = Nil
        BY <3>2 DEF Linked, Ends
      <4> QED BY <3>2, <4>1, <4>2, <1>2, <1>3, <1>6
    <3> QED BY <3>1, <3>2
  <2> QED BY <2>1, <2>2 DEF Ends
<1> QED BY <1>4, <1>8, <1>9, <1>10 DEF Linked

(* Unlinking the tail removes the oldest message and hands out that one.   *)
LEMMA PopLinked ==
  ASSUME NEW S, Nil \notin S,
         NEW l \in Lists(S), NEW s \in Seq(S), Linked(l, s), s # <<>>
  PROVE  /\ l.tail = Head(s)
         /\ PopTail(l) \in Lists(S)
         /\ Linked(PopTail(l), Tail(s))
<1> DEFINE k == PopTail(l)
           t == Tail(s)
           n == Len(s)
<1>1. /\ n \in Nat \ {0}
      /\ t \in Seq(S)
      /\ Len(t) = n - 1
      /\ \A i \in 1 .. n - 1 : t[i] = s[i + 1]
      /\ \A i \in 1 .. n : s[i] \in S
      /\ 1 \in 1 .. n /\ n \in 1 .. n
  OBVIOUS
<1>0. n = 1 <=> t = <<>>
  <2>1. \A x \in Seq(S) : Len(x) = 0 <=> x = <<>>
    OBVIOUS
  <2>2. Len(t) = 0 <=> t = <<>>
    BY <2>1, <1>1
  <2> QED BY <2>2, <1>1
<1>2. /\ l.head \in S \cup {Nil}
      /\ l.tail \in S \cup {Nil}
      /\ l.next \in [S -> S \cup {Nil}]
      /\ l.prev \in [S -> S \cup {Nil}]
  BY DEF Lists
<1>3. l.tail = s[1] /\ l.head = s[n] /\ l.prev[s[n]] = Nil
  BY DEF Linked, Ends
<1>4. l.tail = Head(s)
  BY <1>3
<1>5. CASE n = 1
  <2>1. l.head = l.tail /\ t = <<>>
    BY <1>5, <1>0, <1>3
  <2>2. k = [l EXCEPT !.head = Nil, !.tail = Nil]
    BY <2>1 DEF PopTail
  <2>3. k \in Lists(S) /\ k.head = Nil /\ k.tail = Nil
    BY <2>2, <1>2 DEF Lists
  <2>4. Linked(k, <<>>)
    BY <2>3 DEF Linked, Ends, Chained, NoRepeat
  <2> QED BY <1>4, <2>1, <2>3, <2>4
<1>6. CASE n # 1
  <2> DEFINE q == s[2]
  <2>1. 2 \in 1 .. n /\ 1 \in 1 .. n - 1 /\ n \in Nat /\ n > 1
    BY <1>6, <1>1
  <2>2. l.head # l.tail
    BY <1>1, <1>3, <1>6 DEF Linked, NoRepeat
  <2>3. l.prev[l.tail] = q /\ q \in S
    BY <2>1, <1>1, <1>3 DEF Linked, Chained
  <2>4. k = [l EXCEPT !.tail = q, !.next = [l.next EXCEPT ![q] = Nil]]
    BY <2>2, <2>3 DEF PopTail
  <2>5. /\ k \in Lists(S)
        /\ k.head = l.head /\ k.tail = q /\ k.prev = l.prev
        /\ k.next = [l.next EXCEPT ![q] = Nil]
    <3>1. DOMAIN l = {"head", "tail", "next", "prev"}
      BY DEF Lists
    <3>2. [l.next EXCEPT ![q] = Nil] \in [S -> S \cup {Nil}]
      BY <1>2
    <3>3. k = [head |-> l.head, tail |-> q, prev |-> l.prev,
               next |-> [l.next EXCEPT ![q] = Nil]]
      BY <2>4, <3>1 DEF Lists
    <3> HIDE DEF k, q
    <3> QED BY <3>2, <3>3, <2>3, <1>2 DEF Lists
  <2>6. /\ t # <<>>
        /\ t[1] = q
        /\ t[Len(t)] = s[n]
    <3>1. t # <<>>
      BY <1>0, <1>6
    <3>2. 1 \in 1 .. n - 1 /\ n - 1 \in 1 .. n - 1 /\ (n - 1) + 1 = n
      BY <2>1
    <3> QED BY <1>1, <3>1, <3>2
  <2>7. Ends(k, t)
    BY <2>3, <2>5, <2>6, <1>2, <1>3 DEF Ends
  <2>8. NoRepeat(t)
    <3> SUFFICES ASSUME NEW i \in 1 .. n - 1, NEW j \in 1 .. n - 1, t[i] = t[j]
                 PROVE  i = j
      BY <1>1 DEF NoRepeat
    <3>1. i + 1 \in 1 .. n /\ j + 1 \in 1 .. n /\ s[i + 1] = s[j + 1]
      BY <1>1
    <3>2. i + 1 = j + 1
      BY <3>1 DEF Linked, NoRepeat
    <3> QED BY <3>2
  <2>9. Chained(k, t)
    <3> SUFFICES ASSUME NEW i \in 1 .. n - 2
                 PROVE  k.prev[t[i]] = t[i + 1] /\ k.next[t[i + 1]] = t[i]
      BY <1>1, <2>1 DEF Chained
    <3>1. i + 1 \in 1 .. n - 1 /\ i \in 1 .. n - 1 /\ i + 2 \in 1 .. n
      BY <2>1
    <3>2. t[i] = s[i + 1] /\ t[i + 1] = s[(i + 1) + 1]
      BY <3>1, <1>1
    <3>3. l.prev[s[i + 1]] = s[(i + 1) + 1] /\ l.next[s[(i + 1) + 1]] = s[i + 1]
      BY <3>1 DEF Linked, Chained
    <3>4. s[(i + 1) + 1] # q /\ s[(i + 1) + 1] \in S
      <4>1. (i + 1) + 1 \in 1 .. n /\ (i + 1) + 1 # 2
        BY <2>1
      <4> QED BY <4>1, <2>1, <1>1 DEF Linked, NoRepeat
    <3> QED BY <3>2, <3>3, <3>4, <2>5, <1>2
  <2> QED BY <1>4, <2>5, <2>7, <2>8, <2>9 DEF Linked
<1> QED BY <1>5, <1>6
=============================================================================
