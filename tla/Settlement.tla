------------------------------ MODULE Settlement ------------------------------
(***************************************************************************)
(* The order service implements the order book when no two fulfils or      *)
(* cancels of one order overlap and nothing fails: a request takes effect  *)
(* at its commit, however its wallet updates interleave with those of the  *)
(* others.                                                                 *)
(***************************************************************************)
EXTENDS OrderService, Functions

ASSUME FiniteAssumption == IsFiniteSet(Users) /\ IsFiniteSet(Requests)

(* At most one request at a time resolves an order: others of that order   *)
(* arrive before or after it.                                              *)
OneAtATime ==
  \A r, q \in Resolvers :
    target[r] = target[q] /\ {pc[r], pc[q]} \subseteq InFlight => r = q

SerialSpec == Init /\ [][Next /\ OneAtATime']_vars

(* The terms of an order with the given owner, body and total cost.        *)
TermsOf(u, d, total) ==
  LET buy == d.type = "buy"
      amt == Cents(d.amount)
      tot == Cents(total)
  IN  [owner  |-> u,
       cur    |-> IF buy THEN Other(d.base) ELSE d.base,
       hold   |-> IF buy THEN total ELSE d.amount,
       price  |-> IF buy THEN amt ELSE tot,
       payout |-> IF buy THEN tot ELSE amt,
       refund |-> tot]

AllOffers == {TermsOf(u, d, calculateTotalCost(rate, d.amount)) :
                u \in Users, d \in Dto, rate \in Rates}

(* The wallet updates of requests that have not committed are not yet part *)
(* of the book's balances.                                                 *)
EarlyLegs(u, c) ==
  {p \in Open \X (1..3) : /\ p[2] \in applied[p[1]]
                                 /\ Leg(p[1], p[2]).user = u
                                 /\ Leg(p[1], p[2]).cur = c}

Early(u, c) ==
  SumFunctionOnSet([p \in Requests \X (1..3) |-> Leg(p[1], p[2]).delta], EarlyLegs(u, c))

Book == INSTANCE OrderBook WITH
  Orders <- Creates,
  Offers <- AllOffers,
  book   <- [o \in {p \in Creates : status[p] # "absent"} |->
               TermsOf(caller[o], dto[o], cost[o])],
  state  <- status,
  funds  <- [u \in Users |-> [c \in Currency |-> balance[u][c] - Early(u, c)]]

(* Every step of the handlers, the wallet service and the database is a    *)
(* step of the order book or leaves it unchanged: placing, fulfilling and  *)
(* cancelling are atomic and money moves only with the status, although    *)
(* the code spreads each over up to three remote calls and a transaction.  *)
ImplementsOrderBook == Book!Spec

(* No money appears or disappears but for the rounding of the columns and  *)
(* the refund of cancelled sells; see OrderBook.                           *)
MoneyIsKept == Book!MoneyIsKept
===============================================================================
