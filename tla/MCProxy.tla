------------------------------- MODULE MCProxy -------------------------------
(***************************************************************************)
(* The proxy with two workers, small enough for TLC.  Two clients ask for  *)
(* anything, with one of them that may leave and a cache of two; or for    *)
(* different things, with a cache of one, which is then full; or three     *)
(* stay and all ask for the same: one writes the entry, another reads it,  *)
(* a third finds what they left; or the third asks for something else, and *)
(* may invalidate the entry of the others.                                 *)
(***************************************************************************)
EXTENDS Proxy, TLC

CONSTANTS u1, u2

Two ==
  \E b, c \in Clients :
    /\ b # c
    /\ \A d \in Clients : wants[d] = Nil <=> d \notin {b, c}
    /\ leavers = {c}
    /\ wants[b] # u2
    /\ MAX_CACHE_SIZE = 2 \/ (wants[b] = u1 /\ wants[c] = u2)

Three == /\ \A c \in Clients : wants[c] = u1
         /\ leavers = {} /\ MAX_CACHE_SIZE = 1

Mixed == /\ \E c \in Clients : wants[c] = u2 /\ \A b \in Clients \ {c} : wants[b] = u1
         /\ leavers = {} /\ MAX_CACHE_SIZE = 1 /\ relock = "fails"

(* In the last scene the response for the third client is not followed,    *)
(* and the other is a good one.                                            *)
Bounded ==
  Mixed => \A w \in Workers : \A i \in DOMAIN connections[w] :
             LET c == connections[w][i]
             IN  c.units > 0 => c.kind = "ok" /\ wants[c.client] = u1

MCInit == Init /\ (Two \/ Three \/ Mixed)
MCSpec == MCInit /\ [][Next]_vars
Symmetry == Permutations(Workers) \cup Permutations(Clients)
=============================================================================
