---------------------------- MODULE RelayProofs -----------------------------
(***************************************************************************)
(* The relay of Lab25, for any set of cells, any limits and any traffic:   *)
(* the list stays a list, the descriptors are the connections', each       *)
(* direction is relayed in order, and a broken connection is silent.       *)
(*                                                                         *)
(* No property stands alone.  The order of the bytes needs the fd sets to  *)
(* say which buffers are empty (Fresh), for the connections the walk has   *)
(* yet to serve (Walk): those are closed under next, and none of them      *)
(* leads back to where the walk stands.  That a set bit means the          *)
(* connection it was set for needs the descriptors to differ (Owned), and  *)
(* a cell that is used again needs to be as new (Blank).                   *)
(***************************************************************************)
EXTENDS Relay, FiniteSetTheorems, FunctionTheorems, TLAPS

(* s lists the cells of L, from head along nx and back along pv.           *)
Threaded(head, L, nx, pv, n, s) ==
  /\ s \in [1 .. n -> L]
  /\ \A i, j \in 1 .. n : s[i] = s[j] => i = j
  /\ \A c \in L : \E i \in 1 .. n : s[i] = c
  /\ head = IF n = 0 THEN Nil ELSE s[1]
  /\ \A i \in 1 .. n : /\ nx[s[i]] = IF i = n THEN Nil ELSE s[i + 1]
                       /\ pv[s[i]] = IF i = 1 THEN Nil ELSE s[i - 1]

List(head, L, nx, pv) == \E n \in Nat : \E s : Threaded(head, L, nx, pv, n, s)

(* ListSound, of any pointers.                                             *)
Sound(head, L, nx, pv) ==
  \E s \in [1 .. Cardinality(L) -> L] :
    /\ \A i, j \in DOMAIN s : s[i] = s[j] => i = j
    /\ head = IF L = {} THEN Nil ELSE s[1]
    /\ \A i \in DOMAIN s :
         /\ nx[s[i]] = IF i = Cardinality(L) THEN Nil ELSE s[i + 1]
         /\ pv[s[i]] = IF i = 1 THEN Nil ELSE s[i - 1]

(* Of the relay's own pointers Sound is ListSound, before and after a step. *)
LEMMA SoundIs ==
  /\ ListSound <=> Sound(connections, live, next, prev)
  /\ ListSound' <=> Sound(connections', live', next', prev')
BY DEF ListSound, Sound

(* ListSound counts the list's cells: its sequence reaches them all.       *)
LEMMA ListFromSound ==
  ASSUME IsFiniteSet(live), ListSound
  PROVE  List(connections, live, next, prev)
<1> DEFINE n == Cardinality(live)
<1>1. n \in Nat
  BY FS_CardinalityType
<1>2. PICK s \in [1 .. n -> live] :
        /\ \A i, j \in DOMAIN s : s[i] = s[j] => i = j
        /\ connections = IF live = {} THEN Nil ELSE s[1]
        /\ \A i \in DOMAIN s :
             /\ next[s[i]] = IF i = n THEN Nil ELSE s[i + 1]
             /\ prev[s[i]] = IF i = 1 THEN Nil ELSE s[i - 1]
  BY DEF ListSound
<1>3. Cardinality(1 .. n) = n
  BY <1>1, FS_Interval
<1>4. s \in Injection(1 .. n, live)
  BY <1>2 DEF Injection, IsInjective
<1>5. s \in Surjection(1 .. n, live)
  BY <1>3, <1>4, FS_Injection
<1>6. \A c \in live : \E i \in 1 .. n : s[i] = c
  BY <1>5 DEF Surjection
<1>7. n = 0 <=> live = {}
  BY FS_EmptySet
<1>8. DOMAIN s = 1 .. n
  BY <1>2
<1>9. Threaded(connections, live, next, prev, n, s)
  BY <1>2, <1>6, <1>7, <1>8 DEF Threaded
<1> QED BY <1>1, <1>9 DEF List

(* What the sequence has more than ListSound asks for is its length.       *)
LEMMA SoundFromList ==
  ASSUME NEW head, NEW L, NEW nx, NEW pv, List(head, L, nx, pv)
  PROVE  IsFiniteSet(L) /\ Sound(head, L, nx, pv)
<1>0. PICK n \in Nat : \E s : Threaded(head, L, nx, pv, n, s)
  BY DEF List
<1>1. PICK s : Threaded(head, L, nx, pv, n, s)
  BY <1>0
<1>2. s \in Bijection(1 .. n, L)
  BY <1>1, Fun_IsBij DEF Threaded
<1>3. ExistsBijection(1 .. n, L)
  BY <1>2 DEF ExistsBijection
<1>4. IsFiniteSet(L) /\ Cardinality(L) = n
  BY <1>3, FS_NatBijection, FS_CountingElements
<1>5. n = 0 <=> L = {}
  BY <1>4, FS_EmptySet
<1>6. s \in [1 .. n -> L] /\ DOMAIN s = 1 .. n
  BY <1>1 DEF Threaded
<1>7. /\ \A i, j \in DOMAIN s : s[i] = s[j] => i = j
      /\ head = IF L = {} THEN Nil ELSE s[1]
      /\ \A i \in DOMAIN s :
           /\ nx[s[i]] = IF i = Cardinality(L) THEN Nil ELSE s[i + 1]
           /\ pv[s[i]] = IF i = 1 THEN Nil ELSE s[i - 1]
  BY <1>1, <1>4, <1>5, <1>6 DEF Threaded
<1> QED BY <1>4, <1>6, <1>7 DEF Sound

(* What the walks need to know of the list.                                *)
LEMMA ListFacts ==
  ASSUME NEW head, NEW L, NEW nx, NEW pv, List(head, L, nx, pv), Nil \notin L
  PROVE  /\ head = Nil <=> L = {}
         /\ head \in L \cup {Nil}
         /\ \A c \in L : /\ nx[c] \in L \cup {Nil} /\ pv[c] \in L \cup {Nil}
                         /\ nx[c] # head /\ nx[c] # c
         /\ \A b, c \in L : nx[b] = nx[c] /\ nx[b] # Nil => b = c
<1>0. PICK n \in Nat : \E s : Threaded(head, L, nx, pv, n, s)
  BY DEF List
<1>1. PICK s : Threaded(head, L, nx, pv, n, s)
  BY <1>0
<1>2. /\ \A i \in 1 .. n : /\ s[i] \in L
                           /\ nx[s[i]] = IF i = n THEN Nil ELSE s[i + 1]
                           /\ pv[s[i]] = IF i = 1 THEN Nil ELSE s[i - 1]
      /\ \A i, j \in 1 .. n : s[i] = s[j] => i = j
      /\ \A c \in L : \E i \in 1 .. n : s[i] = c
      /\ head = IF n = 0 THEN Nil ELSE s[1]
  BY <1>1 DEF Threaded
<1>3. \A i \in 1 .. n : /\ i # n => i + 1 \in 1 .. n /\ i + 1 # 1 /\ i + 1 # i
                        /\ i # 1 => i - 1 \in 1 .. n
  OBVIOUS
<1>4. head = Nil <=> L = {}
  <2>1. n # 0 => 1 \in 1 .. n
    OBVIOUS
  <2> QED BY <1>2, <2>1
<1>5. ASSUME NEW c \in L
      PROVE  /\ nx[c] \in L \cup {Nil} /\ pv[c] \in L \cup {Nil}
             /\ nx[c] # head /\ nx[c] # c
  <2>1. PICK i \in 1 .. n : s[i] = c
    BY <1>2
  <2>2. n # 0 /\ 1 \in 1 .. n
    BY <2>1
  <2>3. head = s[1]
    BY <1>2, <2>2
  <2>4. CASE i = n
    BY <1>2, <1>3, <2>1, <2>2, <2>3, <2>4
  <2>5. CASE i # n
    BY <1>2, <1>3, <2>1, <2>2, <2>3, <2>5
  <2> QED BY <2>4, <2>5
<1>6. ASSUME NEW b \in L, NEW c \in L, nx[b] = nx[c], nx[b] # Nil
      PROVE  b = c
  <2>1. PICK i \in 1 .. n, j \in 1 .. n : s[i] = b /\ s[j] = c
    BY <1>2
  <2>2. nx[b] = s[i + 1] /\ nx[c] = s[j + 1] /\ i # n /\ j # n
    BY <1>2, <1>6, <2>1
  <2>3. i + 1 \in 1 .. n /\ j + 1 \in 1 .. n /\ s[i + 1] = s[j + 1]
    BY <1>3, <1>6, <2>2
  <2>4. i + 1 = j + 1
    BY <1>2, <2>3
  <2> QED BY <2>1, <2>4
<1>7. head \in L \cup {Nil}
  <2>1. n # 0 => 1 \in 1 .. n
    OBVIOUS
  <2> QED BY <1>2, <2>1
<1> QED BY <1>4, <1>5, <1>6, <1>7

(* connection_drop takes one cell out, wherever it stands.                 *)
LEMMA Unlinked ==
  ASSUME NEW head, NEW L, NEW nx, NEW pv, List(head, L, nx, pv), Nil \notin L,
         NEW X, L \subseteq X, NEW c \in L
  PROVE  List(IF c = head THEN nx[c] ELSE head, L \ {c},
              [x \in X |-> IF c # head /\ x = pv[c]
                           THEN nx[c] ELSE IF x = c THEN Nil ELSE nx[x]],
              [x \in X |-> IF nx[c] # Nil /\ x = nx[c]
                           THEN pv[c] ELSE IF x = c THEN Nil ELSE pv[x]])
<1>0. PICK n \in Nat : \E s : Threaded(head, L, nx, pv, n, s)
  BY DEF List
<1>1. PICK s : Threaded(head, L, nx, pv, n, s)
  BY <1>0
<1>2. PICK k \in 1 .. n : s[k] = c
  BY <1>1 DEF Threaded
<1> DEFINE t == [i \in 1 .. n - 1 |-> IF i < k THEN s[i] ELSE s[i + 1]]
           head2 == IF c = head THEN nx[c] ELSE head
           nx2 == [x \in X |-> IF c # head /\ x = pv[c]
                               THEN nx[c] ELSE IF x = c THEN Nil ELSE nx[x]]
           pv2 == [x \in X |-> IF nx[c] # Nil /\ x = nx[c]
                               THEN pv[c] ELSE IF x = c THEN Nil ELSE pv[x]]
<1>3. n - 1 \in Nat
  BY <1>2
<1>4. t \in [1 .. n - 1 -> L \ {c}]
  BY <1>1, <1>2 DEF Threaded
<1>5. \A i, j \in 1 .. n - 1 : t[i] = t[j] => i = j
  <2> SUFFICES ASSUME NEW i \in 1 .. n - 1, NEW j \in 1 .. n - 1, t[i] = t[j]
               PROVE  i = j
    OBVIOUS
  <2> DEFINE to(x) == IF x < k THEN x ELSE x + 1
  <2>1. to(i) \in 1 .. n /\ to(j) \in 1 .. n /\ s[to(i)] = s[to(j)]
    OBVIOUS
  <2>2. to(i) = to(j)
    BY <1>1, <2>1 DEF Threaded
  <2> QED BY <1>2, <2>2
<1>6. \A x \in L \ {c} : \E i \in 1 .. n - 1 : t[i] = x
  <2> SUFFICES ASSUME NEW x \in L \ {c} PROVE \E i \in 1 .. n - 1 : t[i] = x
    OBVIOUS
  <2>1. PICK i \in 1 .. n : s[i] = x
    BY <1>1 DEF Threaded
  <2>2. CASE i < k
    BY <1>2, <2>1, <2>2
  <2>3. CASE i > k
    <3>1. i - 1 \in 1 .. n - 1 /\ t[i - 1] = x
      BY <1>2, <2>1, <2>3
    <3> QED BY <3>1
  <2> QED BY <1>2, <2>1, <2>2, <2>3
<1>7. /\ \A i \in 1 .. n : /\ s[i] \in L
                           /\ nx[s[i]] = IF i = n THEN Nil ELSE s[i + 1]
                           /\ pv[s[i]] = IF i = 1 THEN Nil ELSE s[i - 1]
      /\ \A i, j \in 1 .. n : s[i] = s[j] => i = j
      /\ head = s[1] /\ 1 \in 1 .. n
  BY <1>1, <1>2 DEF Threaded
<1>8. /\ c = head <=> k = 1
      /\ k # 1 => k - 1 \in 1 .. n /\ pv[c] = s[k - 1]
      /\ k = 1 => pv[c] = Nil
      /\ k # n => k + 1 \in 1 .. n /\ nx[c] = s[k + 1] /\ nx[c] # Nil
      /\ k = n => nx[c] = Nil
  <2>1. /\ k # 1 => k - 1 \in 1 .. n
        /\ k # n => k + 1 \in 1 .. n
    BY <1>2
  <2>2. /\ nx[c] = IF k = n THEN Nil ELSE s[k + 1]
        /\ pv[c] = IF k = 1 THEN Nil ELSE s[k - 1]
        /\ c = head <=> k = 1
    BY <1>2, <1>7
  <2> QED BY <1>7, <2>1, <2>2
<1>9. \A i \in 1 .. n - 1 : t[i] = IF i < k THEN s[i] ELSE s[i + 1]
  OBVIOUS
<1>10. \A x \in L \ {c} :
         /\ nx2[x] = IF c # head /\ x = pv[c] THEN nx[c] ELSE nx[x]
         /\ pv2[x] = IF nx[c] # Nil /\ x = nx[c] THEN pv[c] ELSE pv[x]
  OBVIOUS
<1>11. head2 = IF n - 1 = 0 THEN Nil ELSE t[1]
  <2> HIDE DEF t
  <2>1. n - 1 # 0 => t[1] = IF 1 < k THEN s[1] ELSE s[2]
    BY <1>2, <1>9
  <2>2. n - 1 = 0 <=> n = 1
    BY <1>2
  <2> QED BY <1>2, <1>7, <1>8, <2>1, <2>2
<1>12. ASSUME NEW i \in 1 .. n - 1
       PROVE  /\ nx2[t[i]] = IF i = n - 1 THEN Nil ELSE t[i + 1]
              /\ pv2[t[i]] = IF i = 1 THEN Nil ELSE t[i - 1]
  <2> HIDE DEF t, nx2, pv2
  <2>1. t[i] \in L \ {c}
    BY <1>4
  <2>2. /\ i \in 1 .. n /\ i + 1 \in 1 .. n
        /\ i # n - 1 => i + 1 \in 1 .. n - 1 /\ (i + 1) + 1 = i + 2 /\ i + 1 # n
        /\ i # 1 => i - 1 \in 1 .. n - 1 /\ (i - 1) + 1 = i
        /\ i = n - 1 <=> i + 1 = n
        /\ i + 1 # 1 /\ (i + 1) - 1 = i
    OBVIOUS
  <2>3. /\ i # n - 1 => t[i + 1] = IF i + 1 < k THEN s[i + 1] ELSE s[i + 2]
        /\ i # 1 => t[i - 1] = IF i - 1 < k THEN s[i - 1] ELSE s[i]
    BY <1>9, <2>2
  <2>4. /\ nx[s[i]] = s[i + 1]
        /\ pv[s[i]] = IF i = 1 THEN Nil ELSE s[i - 1]
        /\ nx[s[i + 1]] = IF i = n - 1 THEN Nil ELSE s[i + 2]
        /\ pv[s[i + 1]] = s[i]
    <3>1. nx[s[i]] = s[i + 1]
      BY <1>7, <2>2
    <3>2. nx[s[i + 1]] = IF i + 1 = n THEN Nil ELSE s[(i + 1) + 1]
      BY <1>7, <2>2
    <3>3. pv[s[i + 1]] = s[(i + 1) - 1]
      BY <1>7, <2>2
    <3> QED BY <1>7, <2>2, <3>1, <3>2, <3>3
  <2>5. CASE i < k
    <3>1. t[i] = s[i]
      BY <1>9, <2>5
    <3>2. (c # head /\ s[i] = pv[c]) <=> i + 1 = k
      BY <1>2, <1>7, <1>8, <2>2, <2>5
    <3>3. ~(nx[c] # Nil /\ s[i] = nx[c])
      BY <1>2, <1>7, <1>8, <2>2, <2>5
    <3>4. nx2[t[i]] = IF i + 1 = k THEN nx[c] ELSE nx[s[i]]
      BY <1>10, <2>1, <3>1, <3>2
    <3>5. pv2[t[i]] = pv[s[i]]
      BY <1>10, <2>1, <3>1, <3>3
    <3>6. nx2[t[i]] = IF i = n - 1 THEN Nil ELSE t[i + 1]
      <4>1. CASE i + 1 = k
        <5>1. k = n => i = n - 1
          BY <4>1, <2>2
        <5>2. k # n => i # n - 1 /\ t[i + 1] = s[k + 1]
          BY <1>2, <2>2, <2>3, <4>1
        <5> QED BY <1>8, <2>2, <3>4, <4>1, <5>1, <5>2
      <4>2. CASE i + 1 # k
        <5>1. i + 1 < k /\ i # n - 1
          BY <1>2, <2>2, <2>5, <4>2
        <5> QED BY <2>3, <2>4, <3>4, <4>2, <5>1
      <4> QED BY <4>1, <4>2
    <3>7. pv2[t[i]] = IF i = 1 THEN Nil ELSE t[i - 1]
      <4>1. i # 1 => i - 1 < k
        BY <1>2, <2>5
      <4> QED BY <2>3, <2>4, <3>5, <4>1
    <3> QED BY <3>6, <3>7
  <2>6. CASE i >= k
    <3>1. t[i] = s[i + 1]
      BY <1>2, <1>9, <2>6
    <3>2. ~(c # head /\ s[i + 1] = pv[c])
      BY <1>2, <1>7, <1>8, <2>2, <2>6
    <3>3. (nx[c] # Nil /\ s[i + 1] = nx[c]) <=> i = k
      BY <1>2, <1>7, <1>8, <2>2, <2>6
    <3>4. nx2[t[i]] = nx[s[i + 1]]
      BY <1>10, <2>1, <3>1, <3>2
    <3>5. pv2[t[i]] = IF i = k THEN pv[c] ELSE pv[s[i + 1]]
      BY <1>10, <2>1, <3>1, <3>3
    <3>6. nx2[t[i]] = IF i = n - 1 THEN Nil ELSE t[i + 1]
      <4>1. ~(i + 1 < k)
        BY <1>2, <2>6
      <4> QED BY <2>3, <2>4, <3>4, <4>1
    <3>7. pv2[t[i]] = IF i = 1 THEN Nil ELSE t[i - 1]
      <4>1. CASE i = k
        <5>1. k # 1 => i - 1 < k
          BY <1>2, <4>1
        <5> QED BY <1>8, <2>3, <3>5, <4>1, <5>1
      <4>2. CASE i # k
        <5>1. i # 1 /\ ~(i - 1 < k)
          BY <1>2, <2>6, <4>2
        <5> QED BY <2>3, <2>4, <3>5, <4>2, <5>1
      <4> QED BY <4>1, <4>2
    <3> QED BY <3>6, <3>7
  <2>7. i < k \/ i >= k
    BY <1>2
  <2> QED BY <2>5, <2>6, <2>7
<1>13. List(head2, L \ {c}, nx2, pv2)
  <2> HIDE DEF t, head2, nx2, pv2
  <2>1. Threaded(head2, L \ {c}, nx2, pv2, n - 1, t)
    BY <1>4, <1>5, <1>6, <1>11, <1>12 DEF Threaded
  <2> QED BY <1>3, <2>1 DEF List
<1> QED BY <1>13

(* connection_create puts one cell in front.                               *)
LEMMA Prepended ==
  ASSUME NEW head, NEW L, NEW nx, NEW pv, List(head, L, nx, pv),
         L \subseteq Cells, NEW c \in Cells \ L, DOMAIN nx = Cells
  PROVE  List(c, L \cup {c}, [nx EXCEPT ![c] = head],
              [x \in Cells |-> IF x = c THEN Nil
                               ELSE IF x = head THEN c ELSE pv[x]])
<1>0. PICK n \in Nat : \E s : Threaded(head, L, nx, pv, n, s)
  BY DEF List
<1>1. PICK s : Threaded(head, L, nx, pv, n, s)
  BY <1>0
<1> DEFINE t == [i \in 1 .. n + 1 |-> IF i = 1 THEN c ELSE s[i - 1]]
           nx2 == [nx EXCEPT ![c] = head]
           pv2 == [x \in Cells |-> IF x = c THEN Nil
                                   ELSE IF x = head THEN c ELSE pv[x]]
<1>2. t \in [1 .. n + 1 -> L \cup {c}]
  BY <1>1 DEF Threaded
<1>3. \A i, j \in 1 .. n + 1 : t[i] = t[j] => i = j
  BY <1>1 DEF Threaded
<1>4. \A x \in L \cup {c} : \E i \in 1 .. n + 1 : t[i] = x
  <2> SUFFICES ASSUME NEW x \in L \cup {c} PROVE \E i \in 1 .. n + 1 : t[i] = x
    OBVIOUS
  <2>1. CASE x = c
    BY <2>1
  <2>2. CASE x # c
    <3>1. PICK i \in 1 .. n : s[i] = x
      BY <1>1, <2>2 DEF Threaded
    <3>2. i + 1 \in 1 .. n + 1 /\ t[i + 1] = x
      BY <3>1
    <3> QED BY <3>2
  <2> QED BY <2>1, <2>2
<1>5. /\ \A i \in 1 .. n : /\ s[i] \in L
                           /\ nx[s[i]] = IF i = n THEN Nil ELSE s[i + 1]
                           /\ pv[s[i]] = IF i = 1 THEN Nil ELSE s[i - 1]
      /\ \A i, j \in 1 .. n : s[i] = s[j] => i = j
      /\ head = IF n = 0 THEN Nil ELSE s[1]
  BY <1>1 DEF Threaded
<1>6. \A i \in 1 .. n + 1 : t[i] = IF i = 1 THEN c ELSE s[i - 1]
  OBVIOUS
<1>7. /\ nx2[c] = head /\ pv2[c] = Nil
      /\ \A x \in L : /\ nx2[x] = nx[x]
                      /\ pv2[x] = IF x = head THEN c ELSE pv[x]
  OBVIOUS
<1>8. ASSUME NEW i \in 1 .. n + 1
      PROVE  /\ nx2[t[i]] = IF i = n + 1 THEN Nil ELSE t[i + 1]
             /\ pv2[t[i]] = IF i = 1 THEN Nil ELSE t[i - 1]
  <2> HIDE DEF t, nx2, pv2
  <2>1. /\ i < n + 1 => i + 1 \in 1 .. n + 1 /\ (i + 1) - 1 = i /\ i + 1 # 1
        /\ i > 1 => i - 1 \in 1 .. n /\ i - 1 \in 1 .. n + 1 /\ (i - 1) + 1 = i
    OBVIOUS
  <2>2. i < n + 1 => t[i + 1] = s[i]
    BY <1>6, <2>1
  <2>3. CASE i = 1
    BY <1>5, <1>6, <1>7, <2>2, <2>3
  <2>4. CASE i > 1
    <3>1. t[i] = s[i - 1] /\ s[i - 1] \in L
      BY <1>5, <1>6, <2>1, <2>4
    <3>2. nx2[t[i]] = IF i = n + 1 THEN Nil ELSE t[i + 1]
      <4>1. nx[s[i - 1]] = IF i - 1 = n THEN Nil ELSE s[(i - 1) + 1]
        BY <1>5, <2>1, <2>4
      <4>2. i - 1 = n <=> i = n + 1
        OBVIOUS
      <4> QED BY <1>7, <2>1, <2>2, <2>4, <3>1, <4>1, <4>2
    <3>3. pv2[t[i]] = t[i - 1]
      <4>1. s[i - 1] = head <=> i = 2
        BY <1>5, <2>1, <2>4
      <4>2. t[i - 1] = IF i = 2 THEN c ELSE s[i - 2]
        BY <1>6, <2>1, <2>4
      <4>3. pv[s[i - 1]] = IF i = 2 THEN Nil ELSE s[i - 2]
        <5>1. (i - 1) - 1 = i - 2 /\ (i - 1 = 1 <=> i = 2)
          OBVIOUS
        <5>2. pv[s[i - 1]] = IF i - 1 = 1 THEN Nil ELSE s[(i - 1) - 1]
          BY <1>5, <2>1, <2>4
        <5> QED BY <5>1, <5>2
      <4> QED BY <1>7, <3>1, <4>1, <4>2, <4>3
    <3> QED BY <2>4, <3>2, <3>3
  <2> QED BY <2>3, <2>4
<1>9. c = t[1] /\ n + 1 \in Nat /\ n + 1 # 0
  OBVIOUS
<1>10. List(c, L \cup {c}, nx2, pv2)
  <2> HIDE DEF t, nx2, pv2
  <2>1. Threaded(c, L \cup {c}, nx2, pv2, n + 1, t)
    BY <1>2, <1>3, <1>4, <1>8, <1>9 DEF Threaded
  <2> QED BY <1>9, <2>1 DEF List
<1> QED BY <1>10
-----------------------------------------------------------------------------
(* Numbers that are not all in a set have a least that is not.             *)
LEMMA LeastOutside ==
  ASSUME NEW n \in Nat, NEW K, (1 .. n) \ K # {}
  PROVE  \E i \in (1 .. n) \ K : \A m \in 1 .. i - 1 : m \in K
<1> DEFINE Lower == {1 .. i : i \in (1 .. n) \ K}
           R == StrictSubsetOrdering(1 .. n)
<1>1. IsFiniteSet(1 .. n)
  BY FS_Interval
<1>2. IsWellFoundedOn(R, SUBSET (1 .. n))
  BY <1>1, FS_StrictSubsetOrderingWellFounded, FS_FiniteSubsetsOfFinite
<1>3. Lower \subseteq SUBSET (1 .. n) /\ Lower # {}
  OBVIOUS
<1>4. \E x \in Lower : \A y \in Lower : <<y, x>> \notin R
  <2> HIDE DEF Lower, R
  <2> QED BY <1>2, <1>3, WFMin
<1>5. PICK i \in (1 .. n) \ K : \A y \in Lower : <<y, 1 .. i>> \notin R
  BY <1>4
<1>6. ASSUME NEW m \in 1 .. i - 1, m \notin K PROVE FALSE
  <2>1. /\ 1 .. m \in Lower
        /\ 1 .. m \subseteq 1 .. i
        /\ i \in 1 .. i /\ i \notin 1 .. m
    BY <1>5, <1>6
  <2>2. <<1 .. m, 1 .. i>> \in R
    BY <1>3, <1>5, <2>1 DEF StrictSubsetOrdering
  <2> QED BY <1>5, <2>1, <2>2
<1> QED BY <1>5, <1>6

(* The kernel's lowest free number exists: the numbers in use do not cover *)
(* one more than there are.                                                *)
LEMMA LowestFree ==
  ASSUME NEW used, IsFiniteSet(used)
  PROVE  Lowest(used) \in Nat \ {0} /\ Lowest(used) \notin used
<1> DEFINE N == Cardinality(used) + 1
<1>1. Cardinality(used) \in Nat /\ N \in Nat
  BY FS_CardinalityType
<1>2. Cardinality(1 .. N) = N
  BY <1>1, FS_Interval
<1>3. ASSUME 1 .. N \subseteq used PROVE FALSE
  <2>1. Cardinality(1 .. N) <= Cardinality(used)
    BY <1>3, FS_Subset
  <2> QED BY <1>1, <1>2, <2>1
<1>4. PICK i \in (1 .. N) \ used : \A m \in 1 .. i - 1 : m \in used
  <2> HIDE DEF N
  <2> QED BY <1>1, <1>3, LeastOutside
<1>5. Lowest(used) \in 1 .. N /\ Lowest(used) \notin used
  BY <1>4 DEF Lowest
<1> QED BY <1>1, <1>5
-----------------------------------------------------------------------------
Places == {"mask", "select", "serve", "accept", "exit", "spin"}

Types ==
  /\ pc \in Places
  /\ iter \in live \cup {Nil}
  /\ live \subseteq Cells /\ IsFiniteSet(live)
  /\ next \in [Cells -> Cells \cup {Nil}]
  /\ prev \in [Cells -> Cells \cup {Nil}]
  /\ fd \in [Cells -> [Directions -> Nat]]
  /\ IsFiniteSet(open)
  /\ count \in [Cells -> [Directions -> Int]]
  /\ got \in [Cells -> [Directions -> Nat]]
  /\ sent \in [Cells -> [Directions -> Nat]]
  /\ delivered \in [Cells -> [Directions -> Seq(Int)]]
  /\ peer \in [Cells -> [Directions -> {"open", "closed", "reset"}]]
  /\ is_broken \in [Cells -> BOOLEAN]

(* A cell that may be allocated is as a new connection's.                  *)
Blank ==
  \A c \in Cells \ live : \A d \in Directions :
    /\ count[c][d] = 0 /\ got[c][d] = 0 /\ sent[c][d] = 0
    /\ delivered[c][d] = <<>> /\ peer[c][d] = "open"
    /\ ~is_broken[c]

Owned ==
  /\ DescriptorsOwned
  /\ \A c \in live, d \in Directions : fd[c][d] # Frontend

(* What one direction may look like, from its buffer's count, what was     *)
(* received, what the peer sent, whether it still may, and what went on.   *)
Passed(n) == [k \in 1 .. n |-> k]
Stream(n, g, s, p, out) ==
  /\ g <= s
  /\ p = "reset" => s = g
  /\ \/ n > 0 /\ n = g /\ out = Passed(g - 1)
     \/ n = 0 /\ out = Passed(g)
     \/ n = Garbage /\ p = "closed" /\ s = g /\ out = Passed(g)
     \/ n = 0 /\ p = "closed" /\ s = g /\ out = Append(Passed(g), Garbage)
Streams ==
  \A c \in live, d \in Directions :
    Stream(count[c][d], got[c][d], sent[c][d], peer[c][d], delivered[c][d])

(* The fd sets tell the truth about a connection that was not served yet.  *)
Fresh(c) ==
  \A d \in Directions :
    /\ Reads(c, d) => count[c][d] = 0 /\ ~is_broken[c]
    /\ Writes(c, d) => count[c][d] # 0 /\ ~is_broken[c]

(* T: what the second walk has before it.                                  *)
Walk(T) ==
  /\ iter = Nil => T = {}
  /\ iter # Nil => iter \in T
  /\ \A c \in T : next[c] \in T \cup {Nil} /\ next[c] # iter
  /\ \A c \in T : Fresh(c)

Watched ==
  /\ pc \in {"mask", "select"} => \A c \in live : Fresh(c)
  /\ pc = "serve" => \E T \in SUBSET live : Walk(T)

IInv ==
  /\ Types
  /\ ListSound
  /\ Blank
  /\ Owned
  /\ Streams
  /\ Watched

(* What ListSound says, in the form the lemmas use.                        *)
LEMMA ListIs ==
  ASSUME IInv
  PROVE  List(connections, live, next, prev) /\ Nil \notin live
BY ListFromSound, RelayAssumption DEF IInv, Types

(* The relay starts with an empty list and the listener.                   *)
LEMMA InitInv == Init => IInv
<1> SUFFICES ASSUME Init PROVE IInv
  OBVIOUS
<1>1. Types
  <2>1. IsFiniteSet({}) /\ IsFiniteSet({Frontend})
    BY FS_EmptySet, FS_Singleton
  <2> QED BY <2>1 DEF Init, Types, Places, Frontend
<1>2. ListSound
  <2> DEFINE s == [i \in 1 .. 0 |-> i]
  <2>1. Threaded(Nil, {}, next, prev, 0, s)
    BY DEF Threaded
  <2>2. List(connections, live, next, prev)
    BY <2>1 DEF Init, List
  <2> QED BY <2>2, SoundFromList, SoundIs
<1>3. Blank
  BY DEF Init, Blank
<1>4. Owned
  BY DEF Init, Owned, DescriptorsOwned
<1>5. Streams /\ Watched
  BY DEF Init, Streams, Watched
<1> QED BY <1>1, <1>2, <1>3, <1>4, <1>5 DEF IInv
-----------------------------------------------------------------------------
(* When a round begins the sets hold the listener only.                    *)
LEMMA RoundIsFresh ==
  ASSUME Owned', readfds' = {Frontend}, writefds' = {}
  PROVE  \A c \in live' : Fresh(c)'
BY DEF Owned, Fresh, Reads, Writes, Source, Target, Directions, Other

(* Steps that touch neither the connections nor the fd sets.               *)
LEMMA QuietInv ==
  ASSUME IInv,
         UNCHANGED <<iter, list, count, is_broken, readfds, writefds, peer, sent, history>>,
         \/ pc' = pc
         \/ pc = "mask" /\ pc' = "select"
         \/ pc = "serve" /\ pc' = "accept"
  PROVE  IInv'
<1> USE DEF list, history
<1>1. Types'
  BY DEF IInv, Types, Places
<1>2. ListSound' /\ Owned'
  BY SoundIs DEF IInv, Owned, DescriptorsOwned
<1>3. Blank' /\ Streams'
  BY DEF IInv, Blank, Streams
<1>4. \A c : Fresh(c)' <=> Fresh(c)
  BY DEF Fresh, Reads, Writes, Source, Target
<1>5. \A T : Walk(T)' <=> Walk(T)
  BY <1>4 DEF Walk
<1>6. Watched'
  <2>1. pc' \in {"mask", "select"} => \A c \in live' : Fresh(c)'
    BY <1>4 DEF IInv, Watched
  <2>2. ASSUME pc' = "serve" PROVE \E T \in SUBSET live' : Walk(T)'
    <3>1. PICK T \in SUBSET live : Walk(T)
      BY <2>2 DEF IInv, Watched
    <3> QED BY <1>5, <3>1
  <2> QED BY <2>1, <2>2 DEF Watched
<1> QED BY <1>1, <1>2, <1>3, <1>6 DEF IInv

(* The signal handler closes the listening socket.                         *)
LEMMA DisposeInv ==
  ASSUME IInv, Dispose
  PROVE  IInv'
<1> USE DEF Dispose, Connection, peers, history
<1>1. Types'
  <2>1. IsFiniteSet(open \ {Frontend})
    BY FS_RemoveElement DEF IInv, Types
  <2> QED BY <2>1 DEF IInv, Types, Places
<1>2. ListSound' /\ Owned'
  BY SoundIs DEF IInv, Owned, DescriptorsOwned
<1>3. Blank' /\ Streams'
  BY DEF IInv, Blank, Streams
<1>4. \A c : Fresh(c)' <=> Fresh(c)
  BY DEF Fresh, Reads, Writes, Source, Target
<1>5. \A T : Walk(T)' <=> Walk(T)
  BY <1>4 DEF Walk
<1>6. Watched'
  <2>1. pc' \in {"mask", "select"} => \A c \in live' : Fresh(c)'
    BY <1>4 DEF IInv, Watched
  <2>2. ASSUME pc' = "serve" PROVE \E T \in SUBSET live' : Walk(T)'
    <3>1. PICK T \in SUBSET live : Walk(T)
      BY <2>2 DEF IInv, Watched
    <3> QED BY <1>5, <3>1
  <2> QED BY <2>1, <2>2 DEF Watched
<1> QED BY <1>1, <1>2, <1>3, <1>6 DEF IInv

(* Changing one direction of one cell.                                     *)
LEMMA OneChanged ==
  ASSUME NEW S, NEW f \in [Cells -> [Directions -> S]],
         NEW c \in Cells, NEW d \in Directions, NEW v \in S
  PROVE  /\ [f EXCEPT ![c][d] = v] \in [Cells -> [Directions -> S]]
         /\ \A b \in Cells, e \in Directions :
              [f EXCEPT ![c][d] = v][b][e] = IF b = c /\ e = d THEN v ELSE f[b][e]
OBVIOUS

(* The other ends send, close or reset one direction of one connection.    *)
LEMMA PeerInv ==
  ASSUME IInv, Peer
  PROVE  IInv'
<1> USE DEF list, history
<1>1. PICK c \in live, d \in Directions :
        PeerSends(c, d) \/ PeerCloses(c, d) \/ PeerResets(c, d)
  BY DEF Peer
<1> DEFINE Peers == {"open", "closed", "reset"}
<1>2. /\ c \in Cells /\ live' = live
      /\ peer \in [Cells -> [Directions -> Peers]]
      /\ sent \in [Cells -> [Directions -> Nat]]
      /\ got[c][d] \in Nat /\ sent[c][d] \in Nat
  BY DEF IInv, Types, Peer
<1>3. /\ peer' \in [Cells -> [Directions -> Peers]]
      /\ sent' \in [Cells -> [Directions -> Nat]]
      /\ \A b \in Cells, e \in Directions :
           b # c \/ e # d => peer'[b][e] = peer[b][e] /\ sent'[b][e] = sent[b][e]
      /\ peer[c][d] = "open"
      /\ \/ peer'[c][d] = "open" /\ sent'[c][d] = sent[c][d] + 1
         \/ peer'[c][d] = "closed" /\ sent'[c][d] = sent[c][d]
         \/ peer'[c][d] = "reset" /\ sent'[c][d] = got[c][d]
  <2> HIDE DEF Peers
  <2>1. CASE PeerSends(c, d)
    <3>1. sent' = [sent EXCEPT ![c][d] = sent[c][d] + 1] /\ sent[c][d] + 1 \in Nat
      BY <1>2, <2>1 DEF PeerSends
    <3> QED BY <1>2, <2>1, <3>1, OneChanged DEF PeerSends
  <2>2. CASE PeerCloses(c, d)
    <3>1. peer' = [peer EXCEPT ![c][d] = "closed"] /\ "closed" \in Peers
      BY <2>2 DEF PeerCloses, Peers
    <3> QED BY <1>2, <2>2, <3>1, OneChanged DEF PeerCloses
  <2>3. CASE PeerResets(c, d)
    <3>1. /\ peer' = [peer EXCEPT ![c][d] = "reset"] /\ "reset" \in Peers
          /\ sent' = [sent EXCEPT ![c][d] = got[c][d]]
      BY <2>3 DEF PeerResets, Peers
    <3> QED BY <1>2, <2>3, <3>1, OneChanged DEF PeerResets
  <2> QED BY <1>1, <2>1, <2>2, <2>3
<1>4. Types'
  BY <1>3 DEF IInv, Types, Places, Peer
<1>5. ListSound' /\ Owned'
  BY SoundIs DEF Peer, IInv, Owned, DescriptorsOwned
<1>6. UNCHANGED <<count, got, delivered, is_broken>>
  BY DEF Peer
<1>7. Blank'
  <2> SUFFICES ASSUME NEW b \in Cells \ live, NEW e \in Directions
               PROVE  /\ count[b][e] = 0 /\ got[b][e] = 0 /\ sent'[b][e] = 0
                      /\ delivered[b][e] = <<>> /\ peer'[b][e] = "open"
                      /\ ~is_broken[b]
    BY <1>2, <1>6 DEF Blank
  <2>1. b \in Cells /\ b # c
    OBVIOUS
  <2>2. sent'[b][e] = sent[b][e] /\ peer'[b][e] = peer[b][e]
    BY <1>3, <2>1
  <2>3. /\ count[b][e] = 0 /\ got[b][e] = 0 /\ sent[b][e] = 0
        /\ delivered[b][e] = <<>> /\ peer[b][e] = "open"
        /\ ~is_broken[b]
    BY DEF IInv, Blank
  <2> QED BY <2>2, <2>3
<1>8. Streams'
  <2>1. Stream(count[c][d], got[c][d], sent'[c][d], peer'[c][d], delivered[c][d])
    <3>1. /\ got[c][d] \in Nat /\ sent[c][d] \in Nat
          /\ Stream(count[c][d], got[c][d], sent[c][d], peer[c][d], delivered[c][d])
      BY <1>2 DEF IInv, Types, Streams
    <3> QED BY <1>3, <3>1 DEF Stream
  <2> QED BY <1>2, <1>3, <1>6, <2>1 DEF IInv, Types, Streams
<1>9. \A b : Fresh(b)' <=> Fresh(b)
  BY DEF Fresh, Reads, Writes, Source, Target, Peer
<1>10. \A T : Walk(T)' <=> Walk(T)
  BY <1>9 DEF Walk, Peer
<1>11. Watched'
  <2>1. pc' \in {"mask", "select"} => \A b \in live' : Fresh(b)'
    BY <1>9 DEF IInv, Watched, Peer
  <2>2. ASSUME pc' = "serve" PROVE \E T \in SUBSET live' : Walk(T)'
    <3>1. PICK T \in SUBSET live : Walk(T)
      BY <2>2 DEF IInv, Watched, Peer
    <3> QED BY <1>2, <1>10, <3>1
  <2> QED BY <2>1, <2>2 DEF Watched
<1> QED BY <1>4, <1>5, <1>7, <1>8, <1>11 DEF IInv

(* select leaves only bits that were set; the second walk starts with the  *)
(* whole list before it, and another round with empty sets.                *)
LEMMA SelectInv ==
  ASSUME IInv, Select
  PROVE  IInv'
<1> USE DEF list, peers, history
<1>1. /\ connections \in live \cup {Nil} /\ Nil \notin live
      /\ connections = Nil <=> live = {}
      /\ \A c \in live : next[c] \in live \cup {Nil} /\ next[c] # connections
  BY ListIs, ListFacts
<1>2. live' = live /\ connections' = connections /\ next' = next
  BY DEF Select
<1>3. pc' \in Places /\ iter' \in live' \cup {Nil}
  BY <1>1, <1>2 DEF Select, IInv, Types, Places, NextRound
<1>4. Types'
  BY <1>3 DEF IInv, Types, Select
<1>5. ListSound' /\ Owned'
  BY SoundIs DEF Select, IInv, Owned, DescriptorsOwned
<1>6. Blank' /\ Streams'
  BY DEF Select, IInv, Blank, Streams
<1>7. Watched'
  <2>1. CASE pc' = "exit"
    BY <2>1 DEF Watched
  <2>2. CASE NextRound
    BY <1>5, <2>2, RoundIsFresh DEF NextRound, Watched
  <2>3. CASE pc' = "serve" /\ iter' = connections
             /\ readfds' \subseteq readfds /\ writefds' \subseteq writefds
    <3>1. UNCHANGED <<fd, count, is_broken>> /\ pc = "select"
      BY DEF Select
    <3>2. \A c \in live : Fresh(c)'
      <4>1. \A c \in live : Fresh(c)
        BY <3>1 DEF IInv, Watched
      <4> QED BY <2>3, <3>1, <4>1 DEF Fresh, Reads, Writes, Source, Target
    <3>3. Walk(live)'
      BY <1>1, <1>2, <2>3, <3>2 DEF Walk
    <3> QED BY <1>2, <2>3, <3>3 DEF Watched
  <2> QED BY <2>1, <2>2, <2>3 DEF Select
<1> QED BY <1>4, <1>5, <1>6, <1>7 DEF IInv

(* The first walk sets the bits of one connection.                         *)
LEMMA MaskWatchInv ==
  ASSUME IInv, MaskWatch
  PROVE  IInv'
<1> USE DEF list, peers, history
<1>1. \A c \in live : next[c] \in live \cup {Nil}
  BY ListIs, ListFacts
<1>2. UNCHANGED <<live, connections, next, fd, count, is_broken>>
      /\ pc = "mask" /\ iter \in live /\ ~is_broken[iter]
  BY DEF MaskWatch, IInv, Types
<1>3. pc' \in Places /\ iter' \in live' \cup {Nil}
  BY <1>1, <1>2 DEF MaskWatch, IInv, Types, Places
<1>4. Types'
  BY <1>3 DEF IInv, Types, MaskWatch
<1>5. ListSound' /\ Owned'
  BY SoundIs DEF MaskWatch, IInv, Owned, DescriptorsOwned
<1>6. Blank' /\ Streams'
  BY DEF MaskWatch, IInv, Blank, Streams
<1>7. Watched'
  <2>1. CASE pc' = "exit"
    BY <2>1 DEF Watched
  <2>2. CASE /\ pc' = pc
             /\ readfds' = readfds \cup ToRead(iter)
             /\ writefds' = writefds \cup ToWrite(iter)
    <3>1. ASSUME NEW c \in live, NEW d \in Directions
          PROVE  /\ Reads(c, d)' => count[c][d] = 0 /\ ~is_broken[c]
                 /\ Writes(c, d)' => count[c][d] # 0 /\ ~is_broken[c]
      <4>1. Fresh(c)
        BY <1>2 DEF IInv, Watched
      <4>2. \A b \in live, e, f \in Directions :
              fd[c][f] = fd[b][e] => c = b /\ f = e
        BY DEF IInv, Owned, DescriptorsOwned
      <4>3. ASSUME fd[c][d] \in ToRead(iter) PROVE count[c][d] = 0 /\ ~is_broken[c]
        BY <1>2, <4>2, <4>3 DEF ToRead, Source
      <4>4. ASSUME fd[c][Other(d)] \in ToWrite(iter)
            PROVE  count[c][d] # 0 /\ ~is_broken[c]
        <5>1. PICK e \in Directions :
                count[iter][e] # 0 /\ fd[c][Other(d)] = fd[iter][Other(e)]
          BY <4>4 DEF ToWrite, Target
        <5>2. Other(d) \in Directions /\ Other(e) \in Directions
          BY DEF Other, Directions
        <5>3. c = iter /\ Other(d) = Other(e)
          BY <1>2, <4>2, <5>1, <5>2
        <5>4. d = e
          BY <5>3 DEF Other, Directions
        <5> QED BY <1>2, <5>1, <5>3, <5>4
      <4> QED BY <1>2, <2>2, <4>1, <4>3, <4>4
              DEF Fresh, Reads, Writes, Source, Target
    <3> QED BY <1>2, <2>2, <3>1 DEF Watched, Fresh
  <2> QED BY <2>1, <2>2 DEF MaskWatch
<1> QED BY <1>4, <1>5, <1>6, <1>7 DEF IInv

(* The first walk drops a connection: its cell is blank again, and the     *)
(* walk goes on where the freed node's next points, or stops.              *)
LEMMA MaskDropInv ==
  ASSUME IInv, MaskDrop
  PROVE  IInv'
<1> DEFINE L == live \ {iter}
<1>1. /\ pc = "mask" /\ pc' = pc /\ iter \in live /\ iter \in Cells
      /\ live' = L /\ L \subseteq Cells
      /\ UNCHANGED <<readfds, writefds>>
  BY DEF MaskDrop, IInv, Types
<1>2. /\ \A c \in live : next[c] \in live \cup {Nil} /\ next[c] # c
      /\ List(connections, live, next, prev) /\ Nil \notin live
  BY ListIs, ListFacts
<1>3. /\ count' = [count EXCEPT ![iter] = [d \in Directions |-> 0]]
      /\ got' = [got EXCEPT ![iter] = [d \in Directions |-> 0]]
      /\ sent' = [sent EXCEPT ![iter] = [d \in Directions |-> 0]]
      /\ delivered' = [delivered EXCEPT ![iter] = [d \in Directions |-> <<>>]]
      /\ peer' = [peer EXCEPT ![iter] = [d \in Directions |-> "open"]]
      /\ is_broken' = [is_broken EXCEPT ![iter] = FALSE]
      /\ fd' = [fd EXCEPT ![iter] = [d \in Directions |-> Frontend]]
  BY DEF MaskDrop
<1>4. \A c \in Cells \ {iter} :
        UNCHANGED <<count[c], got[c], sent[c], delivered[c], peer[c], is_broken[c],
                    fd[c]>>
  BY <1>3 DEF IInv, Types
<1>5. \A d \in Directions :
        /\ count'[iter][d] = 0 /\ got'[iter][d] = 0 /\ sent'[iter][d] = 0
        /\ delivered'[iter][d] = <<>> /\ peer'[iter][d] = "open"
        /\ ~is_broken'[iter]
  BY <1>1, <1>3 DEF IInv, Types
<1>6. Types'
  <2>1. IsFiniteSet(L) /\ IsFiniteSet(open')
    BY FS_RemoveElement, FS_Subset DEF IInv, Types, MaskDrop
  <2>2. iter' \in L \cup {Nil}
    BY <1>1, <1>2 DEF MaskDrop
  <2>3. next' \in [Cells -> Cells \cup {Nil}] /\ prev' \in [Cells -> Cells \cup {Nil}]
    <3>1. next[iter] \in Cells \cup {Nil} /\ prev[iter] \in Cells \cup {Nil}
      BY <1>1 DEF IInv, Types
    <3> QED BY <3>1 DEF IInv, Types, MaskDrop, Unlink
  <2>4. ASSUME NEW S, NEW f \in [Cells -> [Directions -> S]], NEW v \in S
        PROVE  [f EXCEPT ![iter] = [d \in Directions |-> v]]
                 \in [Cells -> [Directions -> S]]
    OBVIOUS
  <2>5. /\ fd' \in [Cells -> [Directions -> Nat]]
        /\ count' \in [Cells -> [Directions -> Int]]
        /\ got' \in [Cells -> [Directions -> Nat]]
        /\ sent' \in [Cells -> [Directions -> Nat]]
    <3>1. Frontend \in Nat /\ 0 \in Nat /\ 0 \in Int
      BY DEF Frontend
    <3>2. /\ fd \in [Cells -> [Directions -> Nat]]
          /\ count \in [Cells -> [Directions -> Int]]
          /\ got \in [Cells -> [Directions -> Nat]]
          /\ sent \in [Cells -> [Directions -> Nat]]
      BY DEF IInv, Types
    <3> QED BY <1>3, <2>4, <3>1, <3>2
  <2>6. /\ delivered' \in [Cells -> [Directions -> Seq(Int)]]
        /\ peer' \in [Cells -> [Directions -> {"open", "closed", "reset"}]]
        /\ is_broken' \in [Cells -> BOOLEAN]
    <3>1. <<>> \in Seq(Int)
      OBVIOUS
    <3>2. /\ delivered \in [Cells -> [Directions -> Seq(Int)]]
          /\ peer \in [Cells -> [Directions -> {"open", "closed", "reset"}]]
          /\ is_broken \in [Cells -> BOOLEAN]
      BY DEF IInv, Types
    <3>3. delivered' \in [Cells -> [Directions -> Seq(Int)]]
      BY <1>3, <2>4, <3>1, <3>2
    <3>4. peer' \in [Cells -> [Directions -> {"open", "closed", "reset"}]]
      BY <1>3, <2>4, <3>2
    <3>5. is_broken' \in [Cells -> BOOLEAN]
      BY <1>3, <3>2
    <3> QED BY <3>3, <3>4, <3>5
  <2>7. pc' \in Places /\ live' \subseteq Cells /\ IsFiniteSet(live')
    BY <1>1, <2>1 DEF IInv, Types
  <2>8. iter' \in live' \cup {Nil}
    BY <1>1, <2>2
  <2> QED BY <2>1, <2>3, <2>5, <2>6, <2>7, <2>8 DEF Types
<1>7. ListSound'
  <2>1. live \subseteq Cells
    BY DEF IInv, Types
  <2> DEFINE head2 == IF iter = connections THEN next[iter] ELSE connections
             next2 == [x \in Cells |-> IF iter # connections /\ x = prev[iter]
                                       THEN next[iter]
                                       ELSE IF x = iter THEN Nil ELSE next[x]]
             prev2 == [x \in Cells |-> IF next[iter] # Nil /\ x = next[iter]
                                       THEN prev[iter]
                                       ELSE IF x = iter THEN Nil ELSE prev[x]]
  <2>2. List(head2, L, next2, prev2)
    <3> HIDE DEF L
    <3> QED BY <1>1, <1>2, <2>1, Unlinked DEF L
  <2>3. connections' = head2 /\ next' = next2 /\ prev' = prev2
    BY DEF MaskDrop, Unlink
  <2>4. List(connections', live', next', prev')
    <3> HIDE DEF L, head2, next2, prev2
    <3> QED BY <1>1, <2>2, <2>3
  <2> QED BY <2>4, SoundFromList, SoundIs
<1>8. Blank'
  BY <1>1, <1>4, <1>5 DEF IInv, Blank
<1>9. Owned'
  <2>1. /\ open \ {Frontend} = {fd[c][d] : c \in live, d \in Directions}
        /\ \A c, b \in live : \A d, e \in Directions :
             fd[c][d] = fd[b][e] => c = b /\ d = e
        /\ \A c \in live, d \in Directions : fd[c][d] # Frontend
    BY DEF IInv, Owned, DescriptorsOwned
  <2>2. open' = open \ {fd[iter][d] : d \in Directions}
    BY DEF MaskDrop, Closed, Source, Directions
  <2>3. \A c \in L : fd'[c] = fd[c] /\ c \in live
    BY <1>1, <1>4
  <2>4. open' \ {Frontend} = {fd'[c][d] : c \in L, d \in Directions}
    <3>1. ASSUME NEW n \in open' \ {Frontend}
          PROVE  n \in {fd'[c][d] : c \in L, d \in Directions}
      <4>1. PICK c \in live, d \in Directions : n = fd[c][d]
        BY <2>1, <2>2
      <4>2. c \in L
        BY <2>2, <4>1
      <4> QED BY <2>3, <4>1, <4>2
    <3>2. ASSUME NEW c \in L, NEW d \in Directions
          PROVE  fd'[c][d] \in open' \ {Frontend}
      BY <1>1, <2>1, <2>2, <2>3
    <3> QED BY <3>1, <3>2
  <2>5. \A c, b \in L : \A d, e \in Directions :
          fd'[c][d] = fd'[b][e] => c = b /\ d = e
    BY <2>1, <2>3
  <2>6. \A c \in L, d \in Directions : fd'[c][d] # Frontend
    BY <2>1, <2>3
  <2> QED BY <1>1, <2>4, <2>5, <2>6 DEF Owned, DescriptorsOwned
<1>10. Streams'
  BY <1>1, <1>4 DEF IInv, Streams
<1>11. Watched'
  <2>1. \A c \in live : Fresh(c)
    BY <1>1 DEF IInv, Watched
  <2>2. \A c \in L : Fresh(c)'
    BY <1>1, <1>4, <2>1 DEF Fresh, Reads, Writes, Source, Target
  <2> QED BY <1>1, <2>2 DEF Watched
<1> QED BY <1>6, <1>7, <1>8, <1>9, <1>10, <1>11 DEF IInv

(* Changing one cell.                                                      *)
LEMMA CellChanged ==
  ASSUME NEW S, NEW f \in [Cells -> [Directions -> S]],
         NEW c \in Cells, NEW row \in [Directions -> S]
  PROVE  /\ [f EXCEPT ![c] = row] \in [Cells -> [Directions -> S]]
         /\ [f EXCEPT ![c] = row][c] = row
         /\ \A b \in Cells \ {c} : [f EXCEPT ![c] = row][b] = f[b]
OBVIOUS

(* What was sent on grows by the chunk that was in the buffer.             *)
LEMMA PassedGrows ==
  ASSUME NEW g \in Nat, g > 0
  PROVE  Append(Passed(g - 1), g) = Passed(g)
<1>1. Passed(g - 1) \in Seq(Int) /\ Len(Passed(g - 1)) = g - 1
  BY DEF Passed
<1>2. Append(Passed(g - 1), g) = [k \in 1 .. (g - 1) + 1 |->
                                    IF k <= g - 1 THEN Passed(g - 1)[k] ELSE g]
  BY <1>1
<1>3. (g - 1) + 1 = g
  OBVIOUS
<1>4. \A k \in 1 .. g : (IF k <= g - 1 THEN Passed(g - 1)[k] ELSE g) = k
  BY DEF Passed
<1> QED BY <1>2, <1>3, <1>4 DEF Passed

(* What serving a connection does to each of its directions, and that it   *)
(* does nothing to the others.                                             *)
Served(reads, sends) ==
  \A d \in Directions :
    /\ count'[iter][d] = IF d \in sends THEN 0
                         ELSE IF d \in reads THEN Received(iter, d)
                         ELSE count[iter][d]
    /\ got'[iter][d] = IF d \in reads /\ Received(iter, d) > 0
                       THEN Received(iter, d) ELSE got[iter][d]
    /\ peer'[iter][d] = IF d \in reads /\ peer[iter][d] = "reset" THEN "closed"
                        ELSE peer[iter][d]
    /\ delivered'[iter][d] = IF d \in sends
                             THEN Append(delivered[iter][d], count[iter][d])
                             ELSE delivered[iter][d]

(* For that one, reads and sends are bits that select set.                 *)
LEMMA ServeEffect ==
  ASSUME Types, Nil \notin live, Serve
  PROVE  /\ count' \in [Cells -> [Directions -> Int]]
         /\ got' \in [Cells -> [Directions -> Nat]]
         /\ peer' \in [Cells -> [Directions -> {"open", "closed", "reset"}]]
         /\ delivered' \in [Cells -> [Directions -> Seq(Int)]]
         /\ is_broken' \in [Cells -> BOOLEAN]
         /\ \A c \in Cells \ {iter} :
              UNCHANGED <<count[c], got[c], peer[c], delivered[c], is_broken[c]>>
         /\ \E reads, sends \in SUBSET Directions :
              /\ \A d \in reads : Reads(iter, d)
              /\ \A d \in sends : Writes(iter, d)
              /\ Served(reads, sends)
<1>1. PICK ok \in [Directions -> BOOLEAN] :
        LET upFails == Writes(iter, "up") /\ ~ok["up"]
            fails == upFails \/ (Writes(iter, "down") /\ ~ok["down"])
            done == IF upFails THEN {"up"} ELSE Directions
            reads == {d \in done : Reads(iter, d)}
            sends == {d \in done : Writes(iter, d) /\ ok[d]}
        IN  /\ count' = [count EXCEPT ![iter] = [d \in Directions |->
                           IF d \in sends THEN 0
                           ELSE IF d \in reads THEN Received(iter, d) ELSE @[d]]]
            /\ got' = [got EXCEPT ![iter] = [d \in Directions |->
                         IF d \in reads /\ Received(iter, d) > 0
                         THEN Received(iter, d) ELSE @[d]]]
            /\ peer' = [peer EXCEPT ![iter] = [d \in Directions |->
                          IF d \in reads /\ @[d] = "reset" THEN "closed" ELSE @[d]]]
            /\ delivered' = [delivered EXCEPT ![iter] = [d \in Directions |->
                               IF d \in sends THEN Append(@[d], count[iter][d])
                               ELSE @[d]]]
            /\ is_broken' = [is_broken EXCEPT ![iter] = @ \/ fails]
            /\ age' = [age EXCEPT ![iter] =
                         IF ~fails /\ Updated(iter, ok) THEN 0 ELSE @]
  BY DEF Serve
<1> DEFINE upFails == Writes(iter, "up") /\ ~ok["up"]
           fails == upFails \/ (Writes(iter, "down") /\ ~ok["down"])
           done == IF upFails THEN {"up"} ELSE Directions
           reads == {d \in done : Reads(iter, d)}
           sends == {d \in done : Writes(iter, d) /\ ok[d]}
           count2 == [d \in Directions |->
                        IF d \in sends THEN 0
                        ELSE IF d \in reads THEN Received(iter, d)
                        ELSE count[iter][d]]
           got2 == [d \in Directions |->
                      IF d \in reads /\ Received(iter, d) > 0
                      THEN Received(iter, d) ELSE got[iter][d]]
           peer2 == [d \in Directions |->
                       IF d \in reads /\ peer[iter][d] = "reset" THEN "closed"
                       ELSE peer[iter][d]]
           delivered2 == [d \in Directions |->
                            IF d \in sends
                            THEN Append(delivered[iter][d], count[iter][d])
                            ELSE delivered[iter][d]]
<1>2. /\ reads \in SUBSET Directions /\ sends \in SUBSET Directions
      /\ \A d \in reads : Reads(iter, d)
      /\ \A d \in sends : Writes(iter, d)
  BY DEF Directions
<1>3. /\ iter \in Cells
      /\ count \in [Cells -> [Directions -> Int]]
      /\ got \in [Cells -> [Directions -> Nat]]
      /\ peer \in [Cells -> [Directions -> {"open", "closed", "reset"}]]
      /\ delivered \in [Cells -> [Directions -> Seq(Int)]]
      /\ is_broken \in [Cells -> BOOLEAN]
  BY DEF Types, Serve
<1>4. /\ count' = [count EXCEPT ![iter] = count2]
      /\ got' = [got EXCEPT ![iter] = got2]
      /\ peer' = [peer EXCEPT ![iter] = peer2]
      /\ delivered' = [delivered EXCEPT ![iter] = delivered2]
      /\ is_broken' = [is_broken EXCEPT ![iter] = is_broken[iter] \/ fails]
  BY <1>1
<1> HIDE DEF upFails, fails, done, reads, sends
<1>5. count2 \in [Directions -> Int] /\ got2 \in [Directions -> Nat]
  <2>1. \A d \in Directions : /\ count[iter][d] \in Int /\ got[iter][d] \in Nat
                              /\ Received(iter, d) \in Int
    BY <1>3 DEF Received, Garbage
  <2> QED BY <2>1
<1>6. /\ peer2 \in [Directions -> {"open", "closed", "reset"}]
      /\ delivered2 \in [Directions -> Seq(Int)]
  <2>1. \A d \in Directions :
          /\ peer[iter][d] \in {"open", "closed", "reset"}
          /\ delivered[iter][d] \in Seq(Int) /\ count[iter][d] \in Int
    BY <1>3
  <2> QED BY <2>1
<1>7. Served(reads, sends)
  <2>1. /\ count'[iter] = count2 /\ got'[iter] = got2
        /\ peer'[iter] = peer2 /\ delivered'[iter] = delivered2
    <3> HIDE DEF count2, got2, peer2, delivered2
    <3> QED BY <1>3, <1>4, <1>5, <1>6, CellChanged
  <2> QED BY <2>1 DEF Served
<1> HIDE DEF count2, got2, peer2, delivered2
<1>8. count' \in [Cells -> [Directions -> Int]]
  BY <1>3, <1>4, <1>5, CellChanged
<1>9. got' \in [Cells -> [Directions -> Nat]]
  BY <1>3, <1>4, <1>5, CellChanged
<1>10. peer' \in [Cells -> [Directions -> {"open", "closed", "reset"}]]
  BY <1>3, <1>4, <1>6, CellChanged
<1>11. delivered' \in [Cells -> [Directions -> Seq(Int)]]
  BY <1>3, <1>4, <1>6, CellChanged
<1>12. is_broken' \in [Cells -> BOOLEAN]
  <2>1. (is_broken[iter] \/ fails) \in BOOLEAN
    OBVIOUS
  <2> QED BY <1>3, <1>4, <2>1
<1>13. \A c \in Cells \ {iter} :
         UNCHANGED <<count[c], got[c], peer[c], delivered[c], is_broken[c]>>
  BY <1>3, <1>4
<1> QED BY <1>2, <1>7, <1>8, <1>9, <1>10, <1>11, <1>12, <1>13

(* Serving moves each direction of one connection one chunk on at most;    *)
(* what the walk has left is what it had, without that connection.         *)
LEMMA ServeInv ==
  ASSUME IInv, Serve
  PROVE  IInv'
<1> USE DEF list
<1>1. /\ pc = "serve" /\ pc' = pc /\ iter \in live /\ iter \in Cells
      /\ iter' = next[iter]
      /\ UNCHANGED <<connections, live, next, prev, fd, open, readfds, writefds, sent>>
  BY DEF Serve, IInv, Types
<1>2. /\ \A c \in live : next[c] \in live \cup {Nil} /\ next[c] # c
      /\ \A b, c \in live : next[b] = next[c] /\ next[b] # Nil => b = c
      /\ Nil \notin live
  BY ListIs, ListFacts
<1>3. /\ count' \in [Cells -> [Directions -> Int]]
      /\ got' \in [Cells -> [Directions -> Nat]]
      /\ peer' \in [Cells -> [Directions -> {"open", "closed", "reset"}]]
      /\ delivered' \in [Cells -> [Directions -> Seq(Int)]]
      /\ is_broken' \in [Cells -> BOOLEAN]
      /\ \A c \in Cells \ {iter} :
           UNCHANGED <<count[c], got[c], peer[c], delivered[c], is_broken[c]>>
  BY <1>2, ServeEffect DEF IInv
<1>4. PICK reads, sends \in SUBSET Directions :
        /\ \A d \in reads : Reads(iter, d)
        /\ \A d \in sends : Writes(iter, d)
        /\ Served(reads, sends)
  BY <1>2, ServeEffect DEF IInv
<1>5. PICK T \in SUBSET live : Walk(T)
  BY <1>1 DEF IInv, Watched
<1>6. \A d \in Directions : /\ d \in reads => count[iter][d] = 0
                            /\ d \in sends => count[iter][d] # 0
  <2>1. Fresh(iter)
    BY <1>1, <1>2, <1>5 DEF Walk
  <2> QED BY <1>4, <2>1 DEF Fresh
<1>7. Types'
  <2>1. iter' \in live' \cup {Nil}
    BY <1>1, <1>2
  <2> QED BY <1>1, <1>3, <2>1 DEF IInv, Types
<1>8. ListSound' /\ Owned'
  BY <1>1, SoundIs DEF IInv, Owned, DescriptorsOwned
<1>9. Blank'
  <2> SUFFICES ASSUME NEW c \in Cells \ live, NEW d \in Directions
               PROVE  /\ count'[c][d] = 0 /\ got'[c][d] = 0 /\ sent'[c][d] = 0
                      /\ delivered'[c][d] = <<>> /\ peer'[c][d] = "open"
                      /\ ~is_broken'[c]
    BY <1>1 DEF Blank
  <2>1. /\ count[c][d] = 0 /\ got[c][d] = 0 /\ sent[c][d] = 0
        /\ delivered[c][d] = <<>> /\ peer[c][d] = "open"
        /\ ~is_broken[c]
    BY DEF IInv, Blank
  <2>2. c \in Cells \ {iter}
    BY <1>1
  <2> QED BY <1>1, <1>3, <2>1, <2>2
<1>10. Streams'
  <2>1. ASSUME NEW d \in Directions
        PROVE  Stream(count'[iter][d], got'[iter][d], sent'[iter][d], peer'[iter][d],
                      delivered'[iter][d])
    <3> DEFINE n == count[iter][d]
               g == got[iter][d]
               s == sent[iter][d]
               p == peer[iter][d]
               out == delivered[iter][d]
    <3>1. /\ n \in Int /\ g \in Nat /\ s \in Nat
          /\ Stream(n, g, s, p, out) /\ sent'[iter][d] = s
      BY <1>1 DEF IInv, Types, Streams
    <3>2. /\ count'[iter][d] = IF d \in sends THEN 0
                               ELSE IF d \in reads THEN Received(iter, d) ELSE n
          /\ got'[iter][d] = IF d \in reads /\ Received(iter, d) > 0
                             THEN Received(iter, d) ELSE g
          /\ peer'[iter][d] = IF d \in reads /\ p = "reset" THEN "closed" ELSE p
          /\ delivered'[iter][d] = IF d \in sends THEN Append(out, n) ELSE out
      BY <1>4 DEF Served
    <3>3. /\ d \in reads => n = 0
          /\ d \in sends => n # 0
      BY <1>6
    <3>4. Received(iter, d) = IF p = "reset" THEN Garbage
                              ELSE IF g < s THEN g + 1 ELSE 0
      BY DEF Received
    <3> HIDE DEF n, g, s, p, out
    <3>5. CASE d \in sends
      <4>1. /\ count'[iter][d] = 0 /\ got'[iter][d] = g /\ peer'[iter][d] = p
            /\ delivered'[iter][d] = Append(out, n) /\ n # 0
        BY <3>2, <3>3, <3>5
      <4>2. CASE n > 0 /\ n = g /\ out = Passed(g - 1)
        BY <3>1, <4>1, <4>2, PassedGrows DEF Stream
      <4>3. CASE n = Garbage /\ p = "closed" /\ s = g /\ out = Passed(g)
        BY <3>1, <4>1, <4>3 DEF Stream
      <4> QED BY <3>1, <4>1, <4>2, <4>3 DEF Stream
    <3>6. CASE d \in reads /\ d \notin sends
      <4>1. n = 0 /\ delivered'[iter][d] = out /\ count'[iter][d] = Received(iter, d)
        BY <3>2, <3>3, <3>6
      <4>2. CASE p = "reset"
        <5>1. count'[iter][d] = Garbage /\ got'[iter][d] = g /\ peer'[iter][d] = "closed"
          BY <3>2, <3>4, <3>6, <4>1, <4>2 DEF Garbage
        <5>2. out = Passed(g) /\ s = g
          BY <3>1, <4>1, <4>2 DEF Stream, Garbage
        <5> QED BY <3>1, <4>1, <5>1, <5>2 DEF Stream
      <4>3. CASE p # "reset" /\ g < s
        <5>1. /\ count'[iter][d] = g + 1 /\ got'[iter][d] = g + 1
              /\ peer'[iter][d] = p
          BY <3>1, <3>2, <3>4, <3>6, <4>1, <4>3
        <5>2. out = Passed(g) /\ (g + 1) - 1 = g /\ g + 1 > 0 /\ g + 1 <= s
          BY <3>1, <4>1, <4>3 DEF Stream, Garbage
        <5> QED BY <3>1, <4>1, <4>3, <5>1, <5>2 DEF Stream
      <4>4. CASE p # "reset" /\ ~(g < s)
        <5>1. /\ count'[iter][d] = 0 /\ got'[iter][d] = g
              /\ peer'[iter][d] = p
          BY <3>1, <3>2, <3>4, <3>6, <4>1, <4>4
        <5> QED BY <3>1, <4>1, <5>1
      <4> QED BY <4>2, <4>3, <4>4
    <3>7. CASE d \notin reads /\ d \notin sends
      BY <3>1, <3>2, <3>7
    <3> QED BY <3>5, <3>6, <3>7
  <2>2. ASSUME NEW c \in live \ {iter}, NEW d \in Directions
        PROVE  Stream(count'[c][d], got'[c][d], sent'[c][d], peer'[c][d],
                      delivered'[c][d])
    <3>1. c \in Cells \ {iter}
      BY DEF IInv, Types
    <3> QED BY <1>1, <1>3, <3>1 DEF IInv, Streams
  <2> QED BY <1>1, <2>1, <2>2 DEF Streams
<1>11. Watched'
  <2>0. PICK U \in SUBSET live : U = IF iter' = Nil THEN {} ELSE T \ {iter}
    BY <1>5
  <2>1. iter' = Nil => U = {}
    BY <2>0
  <2>2. iter' # Nil => iter' \in U
    BY <2>0, <1>1, <1>2, <1>5 DEF Walk
  <2>3. ASSUME NEW c \in U
        PROVE  next'[c] \in U \cup {Nil} /\ next'[c] # iter'
    <3>1. c \in T /\ c # iter /\ c \in live /\ iter' # Nil
      BY <1>5, <2>0
    <3>2. next[c] \in T \cup {Nil} /\ next[c] # iter
      BY <1>5, <3>1 DEF Walk
    <3>3. next[c] # next[iter]
      BY <1>1, <1>2, <3>1
    <3> QED BY <1>1, <2>0, <3>1, <3>2, <3>3
  <2>4. ASSUME NEW c \in U
        PROVE  Fresh(c)'
    <3>1. Fresh(c) /\ c \in Cells \ {iter}
      BY <1>5, <2>0 DEF Walk, IInv, Types
    <3>2. count'[c] = count[c] /\ is_broken'[c] = is_broken[c]
      BY <1>3, <3>1
    <3> QED BY <1>1, <3>1, <3>2 DEF Fresh, Reads, Writes, Source, Target
  <2>5. Walk(U)'
    <3>1. \A c \in U : next'[c] \in U \cup {Nil} /\ next'[c] # iter' /\ Fresh(c)'
      BY <2>3, <2>4
    <3> QED BY <2>1, <2>2, <3>1 DEF Walk
  <2> QED BY <1>1, <2>5 DEF Watched
<1> QED BY <1>7, <1>8, <1>9, <1>10, <1>11 DEF IInv

(* A new connection: in front of the list, with two descriptors that       *)
(* nothing has, in a cell that is blank; and another round.                *)
LEMMA CreateInv ==
  ASSUME IInv, NEW c \in Cells \ live,
         Create(c, Lowest(open), Lowest(open \cup {Lowest(open)})), NextRound,
         UNCHANGED <<count, is_broken, peer, sent, history>>
  PROVE  IInv'
<1> USE DEF history
<1> DEFINE client == Lowest(open)
           backend == Lowest(open \cup {client})
           row == [up |-> client, down |-> backend]
<1>1. /\ client \in Nat \ {0} /\ client \notin open
      /\ backend \in Nat \ {0} /\ backend \notin open /\ backend # client
      /\ IsFiniteSet(open \cup {client, backend})
  <2>1. IsFiniteSet(open)
    BY DEF IInv, Types
  <2>2. client \in Nat \ {0} /\ client \notin open
    BY <2>1, LowestFree
  <2>3. IsFiniteSet(open \cup {client})
    BY <2>1, FS_AddElement
  <2>4. backend \in Nat \ {0} /\ backend \notin open \cup {client}
    BY <2>3, LowestFree
  <2>5. IsFiniteSet((open \cup {client}) \cup {backend})
    BY <2>3, FS_AddElement
  <2>6. (open \cup {client}) \cup {backend} = open \cup {client, backend}
    OBVIOUS
  <2> QED BY <2>2, <2>4, <2>5, <2>6
<1>2. /\ live' = live \cup {c} /\ connections' = c
      /\ next' = [next EXCEPT ![c] = connections]
      /\ prev' = [x \in Cells |-> IF x = c THEN Nil
                                  ELSE IF x = connections THEN c ELSE prev[x]]
      /\ fd' = [fd EXCEPT ![c] = row]
      /\ open' = open \cup {client, backend}
  BY DEF Create
<1>3. pc' = "mask" /\ iter' = c /\ readfds' = {Frontend} /\ writefds' = {}
  BY <1>2 DEF NextRound
<1>4. /\ List(connections, live, next, prev) /\ Nil \notin live
      /\ connections \in live \cup {Nil}
      /\ live \subseteq Cells /\ Nil \notin Cells /\ IsFiniteSet(live)
      /\ fd \in [Cells -> [Directions -> Nat]]
      /\ next \in [Cells -> Cells \cup {Nil}]
      /\ prev \in [Cells -> Cells \cup {Nil}]
  BY ListIs, ListFacts, RelayAssumption DEF IInv, Types
<1> HIDE DEF client, backend
<1>5. row \in [Directions -> Nat] /\ row["up"] = client /\ row["down"] = backend
  BY <1>1 DEF Directions
<1> HIDE DEF row
<1>6. /\ fd' \in [Cells -> [Directions -> Nat]] /\ fd'[c] = row
      /\ \A b \in live : fd'[b] = fd[b]
  <2>1. \A b \in live : b \in Cells \ {c}
    BY <1>4
  <2> QED BY <1>2, <1>4, <1>5, <2>1, CellChanged
<1>7. Types'
  <2>1. IsFiniteSet(live')
    BY <1>2, <1>4, FS_AddElement
  <2>2. /\ next' \in [Cells -> Cells \cup {Nil}]
        /\ prev' \in [Cells -> Cells \cup {Nil}]
    <3>1. connections \in Cells \cup {Nil}
      BY <1>4
    <3> QED BY <1>2, <1>4, <3>1
  <2>3. /\ pc' \in Places /\ iter' \in live' \cup {Nil} /\ live' \subseteq Cells
        /\ IsFiniteSet(open')
    BY <1>1, <1>2, <1>3, <1>4 DEF Places
  <2> QED BY <1>6, <2>1, <2>2, <2>3 DEF IInv, Types
<1>8. ListSound'
  <2> DEFINE next2 == [next EXCEPT ![c] = connections]
             prev2 == [x \in Cells |-> IF x = c THEN Nil
                                       ELSE IF x = connections THEN c ELSE prev[x]]
  <2>1. Cells = DOMAIN next
    BY <1>4
  <2>2. List(c, live \cup {c}, next2, prev2)
    <3>1. c \in Cells \ live /\ Cells = DOMAIN next /\ live \subseteq Cells
      BY <1>4, <2>1
    <3>2. List(connections, live, next, prev) /\ Nil \notin Cells
      BY <1>4
    <3> QED BY <3>1, <3>2, Prepended
  <2>3. next' = next2 /\ prev' = prev2
    BY <1>2
  <2>4. List(connections', live', next', prev')
    <3> HIDE DEF next2, prev2
    <3> QED BY <1>2, <2>2, <2>3
  <2> QED BY <2>4, SoundFromList, SoundIs
<1>9. Blank'
  BY <1>2 DEF IInv, Blank
<1>10. Owned'
  <2>1. /\ open \ {Frontend} = {fd[a][d] : a \in live, d \in Directions}
        /\ \A a, b \in live : \A d, e \in Directions :
             fd[a][d] = fd[b][e] => a = b /\ d = e
        /\ \A a \in live, d \in Directions : fd[a][d] # Frontend
    BY DEF IInv, Owned, DescriptorsOwned
  <2>2. /\ \A d \in Directions : row[d] \in {client, backend} /\ row[d] # Frontend
        /\ \A d, e \in Directions : row[d] = row[e] => d = e
        /\ \E d, e \in Directions : row[d] = client /\ row[e] = backend
        /\ Frontend # client /\ Frontend # backend
    BY <1>1, <1>5 DEF Directions, Frontend
  <2>3. \A a \in live, d, e \in Directions :
          fd[a][d] \in open /\ fd[a][d] # row[e]
    BY <1>1, <2>1, <2>2
  <2>4. open' \ {Frontend} = {fd'[a][d] : a \in live', d \in Directions}
    <3>1. ASSUME NEW n \in open' \ {Frontend}
          PROVE  n \in {fd'[a][d] : a \in live', d \in Directions}
      <4>1. CASE n \in open
        <5>1. PICK a \in live, d \in Directions : n = fd[a][d]
          BY <2>1, <3>1, <4>1
        <5> QED BY <1>2, <1>6, <5>1
      <4>2. CASE n \notin open
        <5>1. PICK d \in Directions : n = row[d]
          BY <1>2, <2>2, <3>1, <4>2
        <5> QED BY <1>2, <1>6, <5>1
      <4> QED BY <4>1, <4>2
    <3>2. ASSUME NEW a \in live', NEW d \in Directions
          PROVE  fd'[a][d] \in open' \ {Frontend}
      <4>1. CASE a = c
        BY <1>2, <1>6, <2>2, <4>1
      <4>2. CASE a # c
        <5>1. a \in live
          BY <1>2, <4>2
        <5> QED BY <1>2, <1>6, <2>1, <5>1
      <4> QED BY <4>1, <4>2
    <3> QED BY <3>1, <3>2
  <2>5. ASSUME NEW a \in live', NEW b \in live', NEW d \in Directions,
               NEW e \in Directions, fd'[a][d] = fd'[b][e]
        PROVE  a = b /\ d = e
    <3>1. (a = c \/ a \in live) /\ (b = c \/ b \in live)
      BY <1>2
    <3>2. CASE a = c /\ b = c
      BY <1>6, <2>2, <2>5, <3>2
    <3>3. CASE a = c /\ b \in live
      BY <1>6, <2>3, <2>5, <3>3
    <3>4. CASE a \in live /\ b = c
      BY <1>6, <2>3, <2>5, <3>4
    <3>5. CASE a \in live /\ b \in live
      BY <1>6, <2>1, <2>5, <3>5
    <3> QED BY <3>1, <3>2, <3>3, <3>4, <3>5
  <2>6. ASSUME NEW a \in live', NEW d \in Directions
        PROVE  fd'[a][d] # Frontend
    BY <1>2, <1>6, <2>1, <2>2
  <2> QED BY <2>4, <2>5, <2>6 DEF Owned, DescriptorsOwned
<1>11. Streams'
  <2>1. ASSUME NEW d \in Directions
        PROVE  Stream(count[c][d], got[c][d], sent[c][d], peer[c][d], delivered[c][d])
    <3>1. /\ count[c][d] = 0 /\ got[c][d] = 0 /\ sent[c][d] = 0
          /\ delivered[c][d] = <<>> /\ peer[c][d] = "open"
      BY DEF IInv, Blank
    <3>2. Passed(0) = <<>>
      BY DEF Passed
    <3> QED BY <3>1, <3>2 DEF Stream
  <2> QED BY <1>2, <2>1 DEF IInv, Streams
<1>12. Watched'
  BY <1>3, <1>10, RoundIsFresh DEF Watched
<1> QED BY <1>7, <1>8, <1>9, <1>10, <1>11, <1>12 DEF IInv

(* The end of a round: without a client, with one that ends the process or *)
(* waits for a descriptor for ever, or with a new connection.              *)
LEMMA AcceptInv ==
  ASSUME IInv, Accept
  PROVE  IInv'
<1> USE DEF history
<1>1. UNCHANGED <<count, is_broken, peer, sent, got, delivered>>
  BY DEF Accept
<1>2. connections \in live \cup {Nil}
  BY ListIs, ListFacts
<1>3. ASSUME UNCHANGED list, iter' \in live \cup {Nil},
             NextRound \/ pc' \in {"exit", "spin"}
      PROVE  IInv'
  <2> USE DEF list
  <2>1. Types'
    BY <1>1, <1>3 DEF IInv, Types, Places, NextRound
  <2>2. ListSound' /\ Owned'
    BY <1>3, SoundIs DEF IInv, Owned, DescriptorsOwned
  <2>3. Blank' /\ Streams'
    BY <1>1, <1>3 DEF IInv, Blank, Streams
  <2>4. Watched'
    BY <1>3, <2>2, RoundIsFresh DEF Watched, NextRound
  <2> QED BY <2>1, <2>2, <2>3, <2>4 DEF IInv
<1>4. CASE UNCHANGED list /\ NextRound
  <2>1. iter' = connections
    BY <1>4 DEF list, NextRound
  <2> QED BY <1>2, <1>3, <1>4, <2>1
<1>5. CASE UNCHANGED list /\ iter' = iter /\ pc' \in {"exit", "spin"}
  <2>1. iter' \in live \cup {Nil}
    BY <1>5 DEF IInv, Types
  <2> QED BY <1>3, <1>5, <2>1
<1>6. CASE \E c \in Cells \ live :
             Create(c, Lowest(open), Lowest(open \cup {Lowest(open)})) /\ NextRound
  BY <1>1, <1>6, CreateInv
<1> QED BY <1>4, <1>5, <1>6 DEF Accept, get_socket_fd_or_except

(* Every step of the relay, its clock, its peers and the signal.           *)
LEMMA NextInv ==
  ASSUME IInv, [Next]_vars
  PROVE  IInv'
<1>1. CASE MaskDrop
  BY <1>1, MaskDropInv
<1>2. CASE MaskWatch
  BY <1>2, MaskWatchInv
<1>3. CASE MaskEnd
  BY <1>3, QuietInv DEF MaskEnd, peers
<1>4. CASE Select
  BY <1>4, SelectInv
<1>5. CASE Serve
  BY <1>5, ServeInv
<1>6. CASE ServeEnd
  BY <1>6, QuietInv DEF ServeEnd, peers
<1>7. CASE Accept
  BY <1>7, AcceptInv
<1>8. CASE Tick
  BY <1>8, QuietInv DEF Tick, peers
<1>9. CASE Arrive
  BY <1>9, QuietInv DEF Arrive
<1>10. CASE Peer
  BY <1>10, PeerInv
<1>11. CASE Dispose
  BY <1>11, DisposeInv
<1>12. CASE Exited \/ UNCHANGED vars
  BY <1>12, QuietInv DEF Exited, vars, peers
<1> QED BY <1>1, <1>2, <1>3, <1>4, <1>5, <1>6, <1>7, <1>8, <1>9, <1>10, <1>11, <1>12
        DEF Next, Loop

(* The invariant, for any number of connections.                           *)
LEMMA Invariance == Spec => []IInv
BY InitInv, NextInv, PTL DEF Spec
-----------------------------------------------------------------------------
(* connection_create and connection_drop keep the list a list: every       *)
(* connection is in it once, and it reads the same from both ends.         *)
THEOREM ListCorrect == Spec => []ListSound
<1>1. IInv => ListSound
  BY DEF IInv
<1> QED BY <1>1, Invariance, PTL

(* Every descriptor that the process has open, but the listener's, belongs *)
(* to one connection in the list, to one side of it, and each of those is  *)
(* open.                                                                   *)
THEOREM DescriptorsCorrect == Spec => []DescriptorsOwned
<1>1. IInv => DescriptorsOwned
  BY DEF IInv, Owned
<1> QED BY <1>1, Invariance, PTL

(* Whatever the ends send and whenever they close or reset, each direction *)
(* passes the chunks it received on in order, each once.                   *)
THEOREM OrderCorrect == Spec => []InOrder
<1>1. ASSUME IInv PROVE InOrder
  <2> SUFFICES ASSUME NEW c \in live, NEW d \in Directions
               PROVE  LET held == IF count[c][d] > 0 THEN 1 ELSE 0
                          passed == Passed(got[c][d] - held)
                      IN  /\ count[c][d] > 0 => count[c][d] = got[c][d]
                          /\ \/ delivered[c][d] = passed
                             \/ /\ delivered[c][d] = Append(passed, Garbage)
                                /\ peer[c][d] = "closed"
    BY DEF InOrder, Passed
  <2>1. /\ got[c][d] \in Nat
        /\ Stream(count[c][d], got[c][d], sent[c][d], peer[c][d], delivered[c][d])
    BY <1>1 DEF IInv, Types, Streams
  <2> QED BY <2>1 DEF Stream, Garbage
<1> QED BY <1>1, Invariance, PTL

(* After a send failed, no bit of the connection is set in the round that  *)
(* follows or the one under way: the walk does nothing for it.             *)
THEOREM BrokenCorrect == Spec => BrokenIsSilent
<1>1. ASSUME IInv, [Next]_vars
      PROVE  [\A c \in live : is_broken[c] /\ c \in live' =>
                got'[c] = got[c] /\ delivered'[c] = delivered[c]]_vars
  <2> SUFFICES ASSUME NEW c \in live, is_broken[c], c \in live'
               PROVE  got'[c] = got[c] /\ delivered'[c] = delivered[c]
    OBVIOUS
  <2>1. CASE UNCHANGED history
    BY <2>1 DEF history
  <2>2. CASE MaskDrop
    <3>1. c # iter
      BY <2>2 DEF MaskDrop
    <3> QED BY <2>2, <3>1 DEF MaskDrop, IInv, Types
  <2>3. CASE Serve
    <3>1. Nil \notin live /\ Types /\ c \in Cells
      BY <1>1, ListIs DEF IInv, Types
    <3>2. PICK T \in SUBSET live : Walk(T)
      BY <1>1, <2>3 DEF IInv, Watched, Serve
    <3>3. PICK reads, sends \in SUBSET Directions :
            /\ \A d \in reads : Reads(iter, d)
            /\ \A d \in sends : Writes(iter, d)
            /\ Served(reads, sends)
      BY <2>3, <3>1, ServeEffect
    <3>4. /\ got \in [Cells -> [Directions -> Nat]]
          /\ got' \in [Cells -> [Directions -> Nat]]
          /\ delivered \in [Cells -> [Directions -> Seq(Int)]]
          /\ delivered' \in [Cells -> [Directions -> Seq(Int)]]
      BY <2>3, <3>1, ServeEffect DEF Types
    <3>5. CASE c = iter
      <4>1. Fresh(iter)
        BY <2>3, <3>2 DEF Walk, Serve
      <4>2. \A d \in Directions : ~Reads(iter, d) /\ ~Writes(iter, d)
        BY <3>5, <4>1 DEF Fresh
      <4>3. \A d \in Directions : d \notin reads /\ d \notin sends
        BY <3>3, <4>2
      <4>4. \A d \in Directions :
              got'[iter][d] = got[iter][d] /\ delivered'[iter][d] = delivered[iter][d]
        BY <3>3, <4>3 DEF Served
      <4>5. got'[iter] = got[iter]
        BY <3>1, <3>4, <3>5, <4>4
      <4>6. delivered'[iter] = delivered[iter]
        BY <3>1, <3>4, <3>5, <4>4
      <4> QED BY <3>5, <4>5, <4>6
    <3>6. CASE c # iter
      BY <2>3, <3>1, <3>6, ServeEffect
    <3> QED BY <3>5, <3>6
  <2>4. CASE Loop /\ ~MaskDrop /\ ~Serve
    <3>1. UNCHANGED history
      BY <2>4 DEF Loop, MaskWatch, MaskEnd, Select, ServeEnd, Accept
    <3> QED BY <2>1, <3>1
  <2>5. CASE Tick \/ Arrive \/ Peer \/ Dispose \/ Exited \/ UNCHANGED vars
    <3>1. UNCHANGED history
      BY <2>5 DEF Tick, Arrive, Peer, Dispose, Exited, vars
    <3> QED BY <2>1, <3>1
  <2> QED BY <1>1, <2>2, <2>3, <2>4, <2>5 DEF Next, Loop
<1> QED BY <1>1, Invariance, PTL DEF Spec, BrokenIsSilent
=============================================================================
