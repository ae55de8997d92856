------------------------------- MODULE MCExchange -------------------------------
(* A small instance of Exchange: an order of u1 of either type and another *)
(* that sells, a cancel of one of them, a fulfil of the first by u2 or u3; *)
(* u3 has no wallets yet.                                                  *)
EXTENDS Exchange

CONSTANTS o1, u1, u3

SmallFunds == [u \in Users |-> [c \in Currency |-> IF u = u3 THEN 0 ELSE 9]]

MCInit == /\ ExchangeInit
          /\ \A o \in Creates : /\ caller[o] = u1
                                /\ dto[o].base = "USD"
                                /\ o # o1 => dto[o].type = "sell"
          /\ \A f \in Fulfils : caller[f] # u1 /\ target[f] = o1
          /\ \A x \in Cancels : caller[x] = u1

MCSpec == MCInit /\ [][ExchangeNext]_evars
===============================================================================
