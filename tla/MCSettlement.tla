----------------------------- MODULE MCSettlement -----------------------------
(* A small instance of Settlement.  Orders, users and currencies are alike *)
(* as long as nothing tells them apart: the order that is fulfilled may as *)
(* well be o1, placed by u1, with base USD.                                *)
EXTENDS Settlement

CONSTANTS o1, u1

SmallFunds == [u \in Users |-> [c \in Currency |-> 9]]

(* No lower bound keeps an amount from being negative.                     *)
SmallAmounts == {5, -3}

MCInit == /\ Init
          /\ \A f \in Fulfils : target[f] = o1
          /\ caller[o1] = u1
          /\ dto[o1].base = "USD"

MCSpec == MCInit /\ [][Next /\ OneAtATime']_vars
===============================================================================
