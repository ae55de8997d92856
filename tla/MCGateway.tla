------------------------------- MODULE MCGateway -------------------------------
(* A small instance of Gateway: a buy of u1, whose base may as well be     *)
(* USD; u1 may cancel it, twice, and u2 fulfil it, twice.  Two calls that  *)
(* are alike are sent in one order, and at most MaxCalls calls are sent.   *)
EXTENDS Gateway

CONSTANTS o1, f1, f2, x1, x2, u1, u2, MaxCalls

SmallFunds == [u \in Users |-> [c \in Currency |-> 20]]

MCInit == /\ GatewayInit
          /\ dto[o1].type = "buy" /\ dto[o1].base = "USD"
          /\ \A r \in Requests : caller[r] = IF r \in Fulfils THEN u2 ELSE u1

Called == {r \in Requests : hop[r] # "idle"}

MCNext == /\ GatewayNext
          /\ Cardinality(Called') <= MaxCalls
          /\ f2 \in Called' => f1 \in Called'
          /\ x2 \in Called' => x1 \in Called'

MCSpec == MCInit /\ [][MCNext]_gvars /\ GatewayFairness
===============================================================================
