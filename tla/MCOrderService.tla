--------------------------- MODULE MCOrderService ---------------------------
(* Small instances of OrderService.  Currencies and users are alike: the   *)
(* first order may as well have base USD and the first of three users as   *)
(* its owner, and the first fulfil the first or the second as its caller.  *)
EXTENDS OrderService

CONSTANTS o1, f1, u1, u3

SmallFunds == [u \in Users |-> [c \in Currency |-> 9]]

MCInit == /\ Init
          /\ dto[o1].base = "USD"
          /\ caller[o1] = u1
          /\ f1 \in Fulfils => caller[f1] # u3

MCSpec == MCInit /\ [][Next]_vars

MCFairSpec == MCSpec /\ Fairness
==============================================================================
