------------------------------- MODULE MCRelay ------------------------------
(***************************************************************************)
(* The relay of Lab25 with a list of up to two connections and an idle     *)
(* limit of one second.  One of them has two chunks to relay up and one    *)
(* down, and a client that may close or reset; the other is silent.  Every *)
(* order of the two in the list occurs, so that a drop has a neighbour on  *)
(* either side, a buffer can be overtaken and both directions be in use.   *)
(***************************************************************************)
EXTENDS Relay, TLC

CONSTANTS c1, c2

MCChunks == (c1 :> [up |-> 2, down |-> 1]) @@ (c2 :> [up |-> 0, down |-> 0])
MCEnds == {<<c1, "up">>}
=============================================================================
