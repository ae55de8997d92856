------------------------------ MODULE OrderBook ------------------------------
(***************************************************************************)
(* What the order service promises a user, without handlers, transactions  *)
(* or remote calls: an order withholds money of its owner when it is       *)
(* placed, and is fulfilled or cancelled at most once; each of the three   *)
(* moves all of its money in one step.  Whether a wallet can cover a debit *)
(* is left open: NoOverdraftWithoutRace of OrderService is about that.     *)
(***************************************************************************)
EXTENDS Money, FiniteSets, Functions

CONSTANTS
  Users,
  Orders,
  Offers,   \* the terms an order may have, see Terms
  Funds     \* the initial balances

(* The terms of an order, in two currencies: the owner gives "hold" of cur *)
(* and is to get "price" of the other currency; the fulfiller gives price  *)
(* and gets "payout", which is hold up to the rounding of the columns.  A  *)
(* cancel gives the owner "refund": the payout of a buy, but the price of  *)
(* a sell, in the currency of the hold.                                    *)
Terms == [owner : Users, cur : Currency, hold : Int, price : Int, payout : Int, refund : Int]

VARIABLES
  book,     \* the orders placed so far, with their terms
  state,    \* pending, completed or cancelled
  funds     \* the balances
vars == <<book, state, funds>>

Placed == DOMAIN book

Add(f, u, c, x) == [f EXCEPT ![u][c] = @ + x]

Init ==
  /\ book = <<>>
  /\ state = [o \in Orders |-> "absent"]
  /\ funds = Funds

Place(o) ==
  \E t \in Offers :
    /\ state[o] = "absent"
    /\ book' = [p \in Placed \cup {o} |-> IF p = o THEN t ELSE book[p]]
    /\ state' = [state EXCEPT ![o] = "pending"]
    /\ funds' = Add(funds, t.owner, t.cur, -t.hold)

Fulfil(o, u) ==
  LET t == book[o]
  IN  /\ state[o] = "pending"
      /\ u # t.owner
      /\ state' = [state EXCEPT ![o] = "completed"]
      /\ funds' = Add(Add(Add(funds, u, Other(t.cur), -t.price),
                          u, t.cur, t.payout),
                      t.owner, Other(t.cur), t.price)
      /\ UNCHANGED book

Cancel(o) ==
  LET t == book[o]
  IN  /\ state[o] = "pending"
      /\ state' = [state EXCEPT ![o] = "cancelled"]
      /\ funds' = Add(funds, t.owner, t.cur, t.refund)
      /\ UNCHANGED book

Next == \E o \in Orders : Place(o) \/ Cancel(o) \/ \E u \in Users : Fulfil(o, u)

Spec == Init /\ [][Next]_vars

-------------------------------------------------------------------------------
(* All the money of one currency in the wallets.                           *)
Supply(f, c) == SumFunction([u \in Users |-> f[u][c]])

OrdersIn(c, states) == {o \in Placed : state[o] \in states /\ book[o].cur = c}

Held(c) == SumFunctionOnSet([o \in Placed |-> book[o].hold], OrdersIn(c, {"pending"}))

(* A cancelled sell gets its price back instead of what it gave.           *)
Misrefund(c) == SumFunctionOnSet([o \in Placed |-> book[o].refund - book[o].payout],
                                 OrdersIn(c, {"cancelled"}))

ResolvedIn(c) == OrdersIn(c, {"completed", "cancelled"})

(* In each currency the wallets and the holds of the pending orders        *)
(* together are what the users started with, up to half a cent for every   *)
(* order resolved and the difference between price and payout of every     *)
(* sell cancelled: createOrder withdraws the computed value, the others    *)
(* move the value of a numeric(p,2) column, and cancelOrder always         *)
(* refunds order.totalCost.                                                *)
MoneyIsKept ==
  \A c \in Currency :
    LET drift == Supply(funds, c) + Held(c) - Supply(Funds, c) - Misrefund(c)
        slack == Cent * Cardinality(ResolvedIn(c))
    IN  -slack <= 2 * drift /\ 2 * drift <= slack
==============================================================================
