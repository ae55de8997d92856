---------------------------- MODULE SettlementProofs ----------------------------
(***************************************************************************)
(* The order service implements the order book, and keeps its users'       *)
(* money, for any number of users, orders and requests: when nothing fails *)
(* and no two fulfils or cancels of one order overlap.                     *)
(***************************************************************************)
EXTENDS Settlement, OrderServiceProofs, FiniteSetTheorems

(* The instance of OrderBook that is Book, with its theorems.              *)
Theory == INSTANCE OrderBookProofs WITH
  Orders <- Creates,
  Offers <- AllOffers,
  book   <- [o \in {p \in Creates : status[p] # "absent"} |->
               TermsOf(caller[o], dto[o], cost[o])],
  state  <- status,
  funds  <- [u \in Users |-> [c \in Currency |-> balance[u][c] - Early(u, c)]]

-------------------------------------------------------------------------------
(* Sums, cardinalities and finite sets are the same in every instance.     *)

(* A sum is the same in every instance of the library.                     *)
LEMMA SameSums ==
  \A g, S : /\ Theory!SumFunctionOnSet(g, S) = SumFunctionOnSet(g, S)
            /\ Book!SumFunctionOnSet(g, S) = SumFunctionOnSet(g, S)
BY DEF Theory!SumFunctionOnSet, Theory!FoldFunctionOnSet, Theory!MapThenFoldSet,
       Book!SumFunctionOnSet, Book!FoldFunctionOnSet, Book!MapThenFoldSet,
       SumFunctionOnSet, FoldFunctionOnSet, MapThenFoldSet

(* So are cardinalities and finite sets.                                   *)
LEMMA SameSizes ==
  \A S : /\ Theory!Cardinality(S) = Cardinality(S) /\ Book!Cardinality(S) = Cardinality(S)
         /\ Theory!IsFiniteSet(S) = IsFiniteSet(S)
BY DEF Theory!Cardinality, Book!Cardinality, Cardinality, Theory!IsFiniteSet, IsFiniteSet

(* The assumption of Money, as the instance states it.                     *)
LEMMA TheoryApplies == Theory!CentAssumption
BY CentAssumption DEF Theory!CentAssumption

(* The laws of sums that OrderBookProofs proves: a sum of integers is one. *)
LEMMA SumType ==
  ASSUME NEW g, NEW S, IsFiniteSet(S), \A x \in S : g[x] \in Int
  PROVE  SumFunctionOnSet(g, S) \in Int
BY Theory!SumType, TheoryApplies, SameSums, SameSizes

(* A sum depends on the summands alone.                                    *)
LEMMA SumSame ==
  ASSUME NEW g, NEW h, NEW S, IsFiniteSet(S), \A x \in S : g[x] = h[x]
  PROVE  SumFunctionOnSet(g, S) = SumFunctionOnSet(h, S)
BY Theory!SumSame, TheoryApplies, SameSums, SameSizes

(* A sum grows by the value of a member that is added.                     *)
LEMMA SumAdds ==
  ASSUME NEW g, NEW h, NEW S, IsFiniteSet(S), NEW x, x \notin S,
         \A y \in S : g[y] \in Int /\ h[y] = g[y], h[x] \in Int
  PROVE  SumFunctionOnSet(h, S \cup {x}) = SumFunctionOnSet(g, S) + h[x]
BY Theory!SumAdds, TheoryApplies, SameSums, SameSizes

-------------------------------------------------------------------------------
(* The wallet updates that are early.                                      *)

USE RequestAssumption DEF Resolvers, Requests

Delta == [p \in Requests \X (1..3) |-> Leg(p[1], p[2]).delta]

Matches(r, i, u, c) == Leg(r, i).user = u /\ Leg(r, i).cur = c

(* Early is a sum of integers over a finite set.                           *)
LEMMA EarlyType ==
  ASSUME TypeOK, NEW u, NEW c
  PROVE  /\ EarlyLegs(u, c) \subseteq Requests \X (1..3)
         /\ IsFiniteSet(EarlyLegs(u, c))
         /\ \A p \in Requests \X (1..3) : Delta[p] \in Int /\ Delta[p] = Leg(p[1], p[2]).delta
         /\ Early(u, c) = SumFunctionOnSet(Delta, EarlyLegs(u, c))
         /\ Early(u, c) \in Int
<1>1. EarlyLegs(u, c) \subseteq Requests \X (1..3)
  BY DEF EarlyLegs, Open
<1>2. IsFiniteSet(EarlyLegs(u, c))
  <2>1. IsFiniteSet(1..3)
    <3>1. 1 \in Int /\ 3 \in Int
      OBVIOUS
    <3> QED BY <3>1, FS_Interval
  <2>2. IsFiniteSet(Requests \X (1..3))
    BY <2>1, FiniteAssumption, FS_Product
  <2> QED BY <1>1, <2>2, FS_Subset
<1>3. ASSUME NEW p \in Requests \X (1..3)
      PROVE  Delta[p] \in Int /\ Delta[p] = Leg(p[1], p[2]).delta
  <2>1. p[1] \in Requests /\ p[2] \in 0..3
    OBVIOUS
  <2>2. Leg(p[1], p[2]).delta \in Int
    BY <2>1, LegType
  <2> QED BY <2>2 DEF Delta
<1>4. Early(u, c) = SumFunctionOnSet(Delta, EarlyLegs(u, c))
  BY DEF Early, Delta
<1>5. SumFunctionOnSet(Delta, EarlyLegs(u, c)) \in Int
  BY <1>1, <1>2, <1>3, SumType
<1> QED BY <1>1, <1>2, <1>3, <1>4, <1>5

-------------------------------------------------------------------------------
(* The invariant.                                                          *)

(* A create that has passed its check has a price of the rate service.     *)
Priced ==
  \A o \in Creates :
    pc[o] \in {"call", "record", "commit", "done"} =>
      \E rate \in Rates : cost[o] = calculateTotalCost(rate, dto[o].amount)

(* An order is pending as long as a request that found it so is served.    *)
Current == \A r \in Resolvers : pc[r] \in InFlight => status[target[r]] = "pending"

(* A request that failed had moved no money.                               *)
Clean == \A r \in Requests : pc[r] = "failed" => applied[r] = {}

Serial == Bookkeeping /\ OneAtATime /\ Current

Settled == Serial /\ Undisturbed /\ Clean /\ Priced

(* Prices are set once, by the rate lookup of the create.                  *)
LEMMA PricedStep == TypeOK /\ Control /\ Priced /\ [Next]_vars => Priced'
<1> SUFFICES ASSUME TypeOK, Control, Priced, [Next]_vars PROVE Priced'
  OBVIOUS
<1> USE DEF Goto
<1> DEFINE P == {"call", "record", "commit", "done"}
<1>0. /\ pc \in [Requests -> PcVal] /\ cost \in [Creates -> Int] /\ dto' = dto
      /\ \A r \in Requests : ControlOf(r)
  BY InputsKept DEF TypeOK, Control, inputs
<1>1. ASSUME NEW r \in Creates, PriceOrder(r) PROVE Priced'
  <2> PICK rate \in Rates :
        \/ cost' = [cost EXCEPT ![r] = calculateTotalCost(rate, dto[r].amount)]
        \/ cost' = cost /\ pc' = [pc EXCEPT ![r] = "failed"]
    BY <1>1 DEF PriceOrder
  <2>1. \A o \in Creates \ {r} : pc'[o] = pc[o] /\ cost'[o] = cost[o]
    BY <1>0, <1>1 DEF PriceOrder
  <2>2. pc'[r] \in P => cost'[r] = calculateTotalCost(rate, dto[r].amount)
    BY <1>0
  <2> QED BY <1>0, <2>1, <2>2 DEF Priced
<1>2. ASSUME cost' = cost, \A o \in Creates : pc'[o] \in P => pc[o] \in P PROVE Priced'
  BY <1>0, <1>2 DEF Priced
<1>3. ASSUME NEW r \in Requests, Arrival(r) \/ WalletUnread(r) \/ WalletRefuse(r) \/ LegRefused(r) \/ Abort(r)
      PROVE  Priced'
  <2>1. cost' = cost /\ \A o \in Creates : pc'[o] \in P => pc[o] \in P
    BY <1>0, <1>3 DEF Arrival, GetHoldWallet, FindOrderToFulfil, FindOrderToCancel, WalletUnread,
                      WalletRefuse, LegRefused, Abort, Rollback
  <2> QED BY <1>2, <2>1
<1>4. ASSUME NEW r \in Resolvers, GetPayWallet(r) \/ RecordFulfilment(r) \/ LockOrder(r) PROVE Priced'
  <2>1. cost' = cost /\ \A q \in Requests : q # r => pc'[q] = pc[q]
    BY <1>0, <1>4 DEF GetPayWallet, RecordFulfilment, LockOrder, Rollback
  <2>2. r \notin Creates
    OBVIOUS
  <2> QED BY <1>2, <2>1, <2>2
<1>5. ASSUME NEW r \in Requests, WalletUpdate(r) \/ NextLeg(r) \/ LegsDone(r) \/ CommitRows(r) PROVE Priced'
  <2>1. cost' = cost /\ \A o \in Creates : pc'[o] \in P => pc[o] \in P
    BY <1>0, <1>5 DEF WalletUpdate, NextLeg, LegsDone, Answered, CommitRows
  <2> QED BY <1>2, <2>1
<1>6. CASE Restart
  <2>1. cost' = cost /\ \A o \in Creates : pc'[o] \in P => pc[o] \in P
    BY <1>0, <1>6 DEF Restart
  <2> QED BY <1>2, <2>1
<1>7. CASE UNCHANGED vars
  <2>1. cost' = cost /\ \A o \in Creates : pc'[o] \in P => pc[o] \in P
    BY <1>7 DEF vars
  <2> QED BY <1>2, <2>1
<1> QED
  BY <1>1, <1>3, <1>4, <1>5, <1>6, <1>7 DEF Next, RequestStep, HandlerStep, Commit, CommitUnanswered

(* Only the request that is resolving an order ends its being pending.     *)
LEMMA CurrentStep == Serial /\ [Next]_vars => Current'
<1> SUFFICES ASSUME Serial, [Next]_vars, NEW r \in Resolvers, pc'[r] \in InFlight
             PROVE  status'[target'[r]] = "pending"
  BY DEF Current
<1> USE DEF Goto
<1>0. /\ pc \in [Requests -> PcVal] /\ status \in [Creates -> StatusVal]
      /\ target' = target /\ target[r] \in Creates
      /\ pc[r] \in InFlight => status[target[r]] = "pending"
  BY InputsKept DEF Serial, Bookkeeping, TypeOK, Current, inputs
<1>1. ASSUME NEW q \in Requests, CommitRows(q) PROVE status'[target[r]] = "pending"
  <2>1. pc[q] = "commit" /\ pc' = [pc EXCEPT ![q] = "done"]
    BY <1>1 DEF CommitRows
  <2>2. q # r /\ pc[r] \in InFlight /\ pc[q] \in InFlight
    BY <1>0, <2>1 DEF InFlight
  <2>3. CASE q \in Creates
    <3>1. status' = [status EXCEPT ![q] = "pending"]
      BY <1>1, <2>3 DEF CommitRows, CommitCreate
    <3> QED BY <1>0, <2>2, <3>1
  <2>4. CASE q \in Resolvers
    <3>1. target[q] # target[r]
      BY <2>2, <2>4 DEF Serial, OneAtATime
    <3>2. status'[target[r]] = status[target[r]]
      BY <1>0, <1>1, <2>4, <3>1 DEF CommitRows, CommitFulfil, CommitCancel
    <3> QED BY <1>0, <2>2, <3>2
  <2> QED BY <2>3, <2>4
<1>2. ASSUME status' = status, pc[r] \in InFlight PROVE status'[target[r]] = "pending"
  BY <1>0, <1>2
<1>3. ASSUME NEW q \in Requests, Arrival(q) PROVE status'[target[r]] = "pending"
  BY <1>0, <1>3 DEF Arrival, GetHoldWallet, FindOrderToFulfil, FindOrderToCancel, Admitted,
                    MayFulfil, MayCancel, InFlight, database
<1>4. ASSUME NEW q \in Requests, PriceOrder(q) \/ GetPayWallet(q) \/ LockOrder(q) \/ NextLeg(q)
      PROVE  status'[target[r]] = "pending"
  <2>1. status' = status /\ (pc'[r] # pc[r] => pc[r] \in InFlight)
    BY <1>0, <1>4 DEF PriceOrder, GetPayWallet, LockOrder, NextLeg, InFlight, database
  <2> QED BY <1>0, <2>1
<1>5. ASSUME NEW q \in Requests, RecordFulfilment(q) \/ LegsDone(q) \/ LegRefused(q) \/ WalletUpdate(q)
      PROVE  status'[target[r]] = "pending"
  <2>1. status' = status /\ (pc'[r] # pc[r] => pc[r] \in InFlight)
    BY <1>0, <1>5 DEF RecordFulfilment, LegsDone, Answered, LegRefused, WalletUpdate, Rollback,
                      InFlight, database
  <2> QED BY <1>0, <2>1
<1>6. ASSUME NEW q \in Requests, WalletUnread(q) \/ WalletRefuse(q) \/ Abort(q)
      PROVE  status'[target[r]] = "pending"
  <2>1. status' = status /\ (pc'[r] # pc[r] => pc'[r] = "failed")
    BY <1>0, <1>6 DEF WalletUnread, WalletRefuse, Abort, Rollback, database
  <2> QED BY <1>0, <2>1 DEF InFlight
<1>7. CASE Restart
  BY <1>0, <1>7 DEF Restart, InFlight
<1>8. CASE UNCHANGED vars
  BY <1>0, <1>8 DEF vars
<1> QED
  BY <1>0, <1>1, <1>3, <1>4, <1>5, <1>6, <1>7, <1>8
     DEF Next, RequestStep, HandlerStep, Commit, CommitUnanswered

(* Every step that lets no two requests of one order overlap keeps this.   *)
LEMMA SerialStep == Serial /\ [Next /\ OneAtATime']_vars => Serial'
<1> SUFFICES ASSUME Serial, [Next /\ OneAtATime']_vars PROVE Serial'
  OBVIOUS
<1>1. [Next]_vars
  OBVIOUS
<1>2. Bookkeeping' /\ Current'
  BY <1>1, TypeStep, ControlStep, LockStep, BooksStep, FreshStep, CurrentStep
     DEF Serial, Bookkeeping
<1>3. OneAtATime'
  BY DEF Serial, OneAtATime, vars
<1> QED BY <1>2, <1>3 DEF Serial

(* What is true as long as no two requests of one order overlap, whatever  *)
(* fails.                                                                  *)
LEMMA SerialInvariant == SerialSpec => []Serial
<1>1. Init => Serial
  BY InitTypeOK, InitControl, InitLocks, InitBooks, InitFresh
     DEF Serial, Bookkeeping, Init, OneAtATime, Current, InFlight
<1> QED BY <1>1, SerialStep, PTL DEF SerialSpec

(* What overlapping requests break holds of orders that are resolved by    *)
(* one request at a time, whatever fails: the order is still pending when  *)
(* it commits.  The order service tests the status before its transaction, *)
(* and only two requests that both passed the test can overwrite each      *)
(* other.                                                                  *)
THEOREM SerialResolvesPending == SerialSpec => OnlyPendingIsCancelled /\ OnlyPendingIsFulfilled
<1>1. ASSUME Serial, [Next]_vars,
             NEW r \in Resolvers, pc[r] # "done", pc'[r] = "done"
      PROVE  status[target[r]] = "pending"
  <2> USE DEF Goto
  <2>0. pc \in [Requests -> PcVal]
    BY <1>1 DEF Serial, Bookkeeping, TypeOK
  <2>1. pc[r] = "commit"
    <3>1. ASSUME NEW q \in Requests, RequestStep(q) PROVE pc[r] = "commit"
      <4>1. CASE CommitRows(q)
        BY <1>1, <2>0, <4>1 DEF CommitRows
      <4>2. CASE ~CommitRows(q)
        BY <1>1, <2>0, <3>1, <4>2
           DEF RequestStep, Arrival, HandlerStep, GetHoldWallet, FindOrderToFulfil,
               FindOrderToCancel, WalletUnread, WalletUpdate, WalletRefuse, Abort, Rollback,
               PriceOrder, GetPayWallet, RecordFulfilment, LockOrder, NextLeg, LegsDone,
               AfterLegs, LegRefused, Commit, CommitUnanswered
      <4> QED BY <4>1, <4>2
    <3>2. CASE Restart
      BY <1>1, <2>0, <3>2 DEF Restart
    <3>3. CASE UNCHANGED vars
      BY <1>1, <3>3 DEF vars
    <3> QED BY <1>1, <3>1, <3>2, <3>3 DEF Next
  <2> QED BY <1>1, <2>1 DEF Serial, Current, InFlight
<1>2. Serial /\ [Next]_vars
        => [/\ \A x \in Cancels : pc[x] # "done" /\ pc'[x] = "done" => status[target[x]] = "pending"
            /\ \A f \in Fulfils : pc[f] # "done" /\ pc'[f] = "done" => status[target[f]] = "pending"]_vars
  BY <1>1
<1>3. [Next /\ OneAtATime']_vars => [Next]_vars
  OBVIOUS
<1> QED
  BY <1>2, <1>3, SerialInvariant, PTL
     DEF SerialSpec, OnlyPendingIsCancelled, OnlyPendingIsFulfilled

(* A fulfil that is to be recorded is its user's first of the order.       *)
LEMMA FirstFulfil ==
  ASSUME Serial, NEW r \in Fulfils, pc[r] = "record"
  PROVE  UQ_order_user(target[r], caller[r])
<1>1. target[r] \in Creates /\ caller[r] \in Users /\ status[target[r]] = "pending"
  BY DEF Serial, Bookkeeping, TypeOK, Current, InFlight
<1>2. caller[r] # caller[target[r]]
  <2>1. Engaged(r)
    BY DEF Serial, Bookkeeping, Control, ControlOf, Engaged
  <2> QED BY <2>1 DEF Serial, Bookkeeping, Books, EngagedOnly
<1>3. ~FulfilledBy(target[r], caller[r])
  BY <1>1 DEF Serial, Bookkeeping, Books, PendingMeansUnresolved, FulfilledBy, ResolversOf, Done
<1> QED BY <1>1, <1>2, <1>3 DEF Serial, Bookkeeping, Books, TxnBy, UQ_order_user

(* A step that fails a request comes before its updates: nothing but a     *)
(* second fulfil of the user would be refused after them, and the order is *)
(* not pending then.                                                       *)
LEMMA CleanStep ==
  ASSUME Faults = {}
  PROVE  Serial /\ Undisturbed /\ Clean /\ [Next]_vars => Clean'
<1> SUFFICES ASSUME Serial, Undisturbed, Clean, [Next]_vars PROVE Clean'
  OBVIOUS
<1> USE DEF Goto
<1>0. /\ pc \in [Requests -> PcVal] /\ applied \in [Requests -> SUBSET (0..3)]
      /\ \A r \in Requests : ControlOf(r) /\ call[r] # "refused"
  BY DEF Serial, Bookkeeping, TypeOK, Control, Undisturbed
<1>1. ASSUME applied' = applied, \A r \in Requests : pc'[r] = "failed" => applied[r] = {} PROVE Clean'
  BY <1>1 DEF Clean
<1>2. \A r \in Requests : pc[r] \in {"new", "wallet", "found", "checked"} => applied[r] = {}
  BY <1>0 DEF ControlOf
<1>3. ASSUME NEW r \in Requests, Arrival(r) \/ PriceOrder(r) \/ GetPayWallet(r) \/ LockOrder(r) PROVE Clean'
  <2>1. /\ applied' = applied /\ pc[r] \in {"new", "wallet", "found", "checked"}
        /\ \A q \in Requests \ {r} : pc'[q] = pc[q]
    BY <1>0, <1>3 DEF Arrival, GetHoldWallet, FindOrderToFulfil, FindOrderToCancel, Admitted,
                      PriceOrder, GetPayWallet, LockOrder
  <2> QED BY <1>1, <1>2, <2>1 DEF Clean
<1>4. ASSUME NEW r \in Fulfils, RecordFulfilment(r) PROVE Clean'
  <2>1. UQ_order_user(target[r], caller[r])
    BY <1>4, FirstFulfil DEF RecordFulfilment
  <2>2. applied' = applied /\ pc' = [pc EXCEPT ![r] = "commit"]
    BY <1>4, <2>1 DEF RecordFulfilment
  <2> QED BY <1>0, <1>1, <2>2 DEF Clean
<1>5. ASSUME NEW r \in Requests, NextLeg(r) \/ LegsDone(r) \/ Commit(r) PROVE Clean'
  <2>1. applied' = applied /\ \A q \in Requests : pc'[q] = "failed" => pc[q] = "failed"
    BY <1>0, <1>5 DEF NextLeg, LegsDone, Answered, AfterLegs, Commit, CommitRows
  <2> QED BY <1>1, <2>1 DEF Clean
<1>6. ASSUME NEW r \in Requests, WalletUpdate(r) PROVE Clean'
  <2>1. /\ call[r] = "sent" /\ pc' = pc
        /\ \A q \in Requests \ {r} : applied'[q] = applied[q]
    BY <1>0, <1>6 DEF WalletUpdate
  <2> QED BY <2>1 DEF Clean, Undisturbed
<1>7. ASSUME NEW r \in Requests, WalletRefuse(r) \/ WalletUnread(r) \/ LegRefused(r) \/ Abort(r)
                               \/ CommitUnanswered(r)
      PROVE  FALSE
  <2>1. CASE WalletRefuse(r)
    BY <2>1 DEF WalletRefuse, Undisturbed
  <2>2. CASE WalletUnread(r) \/ Abort(r) \/ CommitUnanswered(r)
    BY <2>2 DEF WalletUnread, Abort, CommitUnanswered
  <2>3. CASE LegRefused(r)
    BY <1>0, <2>3 DEF LegRefused
  <2> QED BY <1>7, <2>1, <2>2, <2>3
<1>8. CASE Restart
  BY <1>8 DEF Restart
<1>9. CASE UNCHANGED vars
  BY <1>9 DEF vars, Clean
<1> QED
  BY <1>3, <1>4, <1>5, <1>6, <1>7, <1>8, <1>9 DEF Next, RequestStep, HandlerStep

(* The invariant holds initially.                                          *)
LEMMA SettledInit == Init => Settled
BY InitTypeOK, InitControl, InitLocks, InitBooks, InitFresh
   DEF Settled, Serial, Bookkeeping, Init, OneAtATime, Current, InFlight, Undisturbed, Clean, Priced

(* Without faults every step keeps the invariant.                          *)
LEMMA SettledStep ==
  ASSUME Faults = {}
  PROVE  Settled /\ [Next /\ OneAtATime']_vars => Settled'
<1> SUFFICES ASSUME Settled, [Next /\ OneAtATime']_vars PROVE Settled'
  OBVIOUS
<1>1. [Next]_vars
  OBVIOUS
<1>2. Serial'
  BY SerialStep DEF Settled
<1>3. Undisturbed' /\ Clean' /\ Priced'
  BY <1>1, UndisturbedStep, CleanStep, PricedStep DEF Settled, Serial, Bookkeeping
<1> QED BY <1>2, <1>3 DEF Settled

(* What the refinement needs of it: the order of a request that has made   *)
(* an update is in the book, and it is still pending when the request that *)
(* resolves it commits.                                                    *)
LEMMA TargetPlaced ==
  ASSUME Settled, NEW r \in Resolvers, applied[r] # {} \/ pc[r] = "commit" \/ pc[r] = "record"
  PROVE  /\ target[r] \in Creates /\ status[target[r]] \in {"pending", "completed", "cancelled"}
         /\ pc[r] # "done" => status[target[r]] = "pending"
         /\ r \in Cancels <=> caller[r] = caller[target[r]]
<1>1. /\ target[r] \in Creates /\ status[target[r]] \in StatusVal /\ ControlOf(r)
      /\ pc[r] \in PcVal
  BY DEF Settled, Serial, Bookkeeping, TypeOK, Control
<1>2. Engaged(r)
  BY <1>1 DEF Engaged, ControlOf
<1>3. status[target[r]] # "absent" /\ (r \in Cancels <=> caller[r] = caller[target[r]])
  BY <1>2 DEF Settled, Serial, Bookkeeping, Books, EngagedOnly
<1>4. ASSUME pc[r] # "done" PROVE status[target[r]] = "pending"
  <2>1. pc[r] = "new" => applied[r] = {}
    BY <1>1 DEF ControlOf
  <2>2. pc[r] = "failed" => applied[r] = {}
    BY DEF Settled, Clean
  <2>3. pc[r] \in InFlight
    BY <1>1, <1>4, <2>1, <2>2 DEF PcVal, Ended, InFlight
  <2> QED BY <2>3 DEF Settled, Serial, Current
<1> QED BY <1>1, <1>3, <1>4 DEF StatusVal

-------------------------------------------------------------------------------
(* The balances of the book.                                               *)

BookFunds == [u \in Users |-> [c \in Currency |-> balance[u][c] - Early(u, c)]]

(* The price of an order changes only before anything depends on it.       *)
CostKept == \A o \in Creates : cost'[o] = cost[o] \/ (status[o] = "absent" /\ applied[o] = {})

(* The updates a request has begun do not change any more.                 *)
LEMMA LegKept ==
  ASSUME Settled, UNCHANGED <<caller, target, dto>>, CostKept,
         NEW r \in Requests, applied[r] # {}, NEW i \in 1..3
  PROVE  Leg(r, i)' = Leg(r, i)
<1>1. CASE r \in Creates
  <2>1. cost'[r] = cost[r]
    BY <1>1 DEF CostKept
  <2> QED BY <1>1, <2>1 DEF Leg, CreateLeg, Update, Hold, HoldAt, HoldCur, Quote
<1>2. CASE r \in Resolvers
  <2>1. target[r] \in Creates /\ cost'[target[r]] = cost[target[r]]
    BY <1>2, TargetPlaced DEF CostKept
  <2> QED BY <1>2, <2>1 DEF Leg, FulfilLeg, CancelLeg, Update, Pay, Payout, StoredCost, StoredAmount,
                             HoldCur, PayCur, Quote
<1> QED BY <1>1, <1>2

(* A request that has made no update may come and go.                      *)
LEMMA EarlyKept ==
  ASSUME Settled, TypeOK', UNCHANGED <<caller, target, dto, applied>>, CostKept,
         \A r \in Requests : applied[r] # {} => (r \in Open' <=> r \in Open),
         NEW u, NEW c
  PROVE  Early(u, c)' = Early(u, c)
<1>1. TypeOK
  BY DEF Settled, Serial, Bookkeeping
<1>2. EarlyLegs(u, c)' = EarlyLegs(u, c)
  <2>1. \A p \in Requests \X (1..3) :
          p[2] \in applied[p[1]] => /\ p[1] \in Open' <=> p[1] \in Open
                                    /\ Leg(p[1], p[2])' = Leg(p[1], p[2])
    BY LegKept
  <2>2. \A p : p \in EarlyLegs(u, c)' <=> p \in EarlyLegs(u, c)
    BY <2>1 DEF EarlyLegs, Open
  <2> QED BY <2>2
<1>3. \A p \in EarlyLegs(u, c) : Delta'[p] = Delta[p]
  <2>1. \A p \in EarlyLegs(u, c) : /\ p \in Requests \X (1..3)
                                   /\ Leg(p[1], p[2])' = Leg(p[1], p[2])
    BY LegKept DEF EarlyLegs, Open
  <2> QED BY <2>1 DEF Delta
<1>4. Early(u, c) = SumFunctionOnSet(Delta, EarlyLegs(u, c)) /\ IsFiniteSet(EarlyLegs(u, c))
  BY <1>1, EarlyType
<1>5. Early(u, c)' = SumFunctionOnSet(Delta', EarlyLegs(u, c))
  BY <1>2 DEF Early, Delta
<1> QED BY <1>3, <1>4, <1>5, SumSame

(* Such a step is none of the book.                                        *)
LEMMA BookKept ==
  ASSUME Settled, TypeOK', UNCHANGED <<caller, target, dto, applied, status, balance>>, CostKept,
         \A r \in Requests : applied[r] # {} => (r \in Open' <=> r \in Open)
  PROVE  UNCHANGED Book!vars
<1>1. BookFunds' = BookFunds
  BY EarlyKept DEF BookFunds
<1>2. \A o \in Creates : status[o] # "absent" => cost'[o] = cost[o]
  BY DEF CostKept
<1>3. [o \in {p \in Creates : status[p] # "absent"} |-> TermsOf(caller[o], dto[o], cost[o])]'
        = [o \in {p \in Creates : status[p] # "absent"} |-> TermsOf(caller[o], dto[o], cost[o])]
  BY <1>2 DEF TermsOf
<1> QED BY <1>1, <1>3 DEF Book!vars, BookFunds

(* A leg depends on the inputs and the prices alone.                       *)
LEMMA LegSame ==
  ASSUME UNCHANGED <<caller, target, dto, cost>>
  PROVE  \A q, j : Leg(q, j)' = Leg(q, j)
<1>1. /\ \A o : Hold(o)' = Hold(o) /\ Pay(o)' = Pay(o) /\ Payout(o)' = Payout(o)
      /\ \A o : StoredCost(o)' = StoredCost(o) /\ HoldCur(o)' = HoldCur(o) /\ PayCur(o)' = PayCur(o)
  BY DEF Hold, HoldAt, Pay, Payout, StoredCost, StoredAmount, HoldCur, PayCur, Quote
<1>2. \A q, j : CreateLeg(q)' = CreateLeg(q) /\ FulfilLeg(q, j)' = FulfilLeg(q, j)
                                            /\ CancelLeg(q)' = CancelLeg(q)
  BY <1>1 DEF CreateLeg, FulfilLeg, CancelLeg, Update
<1> QED BY <1>2 DEF Leg

(* A wallet update made before the commit is early at once.                *)
LEMMA UpdateKept ==
  ASSUME Settled, TypeOK', NEW r \in Requests, WalletUpdate(r)
  PROVE  UNCHANGED Book!vars
<1> DEFINE i == leg[r]
           l == Leg(r, i)
           p == <<r, i>>
<1>0. TypeOK /\ ControlOf(r)
  BY DEF Settled, Serial, Bookkeeping, Control
<1>1. /\ call[r] = "sent" /\ UNCHANGED <<caller, target, dto, pc, cost, status, leg>>
      /\ balance' = [balance EXCEPT ![l.user][l.cur] = @ + l.delta]
      /\ applied' = [applied EXCEPT ![r] = @ \cup {i}]
  BY DEF WalletUpdate, inputs, database
<1>2. i \in 1..3 /\ i \notin applied[r] /\ r \in Open
  <2>1. pc[r] # "failed" /\ pc[r] \in PcVal
    BY <1>0, <1>1 DEF Settled, Undisturbed, TypeOK
  <2> QED BY <1>0, <1>1, <2>1 DEF ControlOf, LastLeg, Open, PcVal, InFlight, Ended
<1>3. l.user \in Users /\ l.cur \in Currency /\ l.delta \in Int
  <2>1. i \in 0..3
    BY <1>2
  <2> QED BY <1>0, <2>1, LegType
<1>4. p \in Requests \X (1..3) /\ Leg(p[1], p[2]) = l
  BY <1>2
<1>5. \A q, j : Leg(q, j)' = Leg(q, j)
  BY <1>1, LegSame
<1>6. ASSUME NEW u \in Users, NEW c \in Currency
      PROVE  balance'[u][c] - Early(u, c)' = balance[u][c] - Early(u, c)
  <2>1. \A q \in Requests \X (1..3) :
          q[2] \in applied'[q[1]] <=> q[2] \in applied[q[1]] \/ q = p
    BY <1>0, <1>1, <1>2 DEF TypeOK
  <2>2. Open' = Open
    BY <1>1 DEF Open
  <2>3. EarlyLegs(u, c)' =
          IF u = l.user /\ c = l.cur THEN EarlyLegs(u, c) \cup {p} ELSE EarlyLegs(u, c)
    <3>1. \A q : q \in EarlyLegs(u, c)' <=>
                   q \in EarlyLegs(u, c) \/ (q = p /\ u = l.user /\ c = l.cur)
      <4> HIDE DEF p, l
      <4>1. \A q \in Open \X (1..3) : q \in Requests \X (1..3)
        BY DEF Open
      <4>2. p \in Open \X (1..3)
        BY <1>2 DEF p
      <4> QED BY <1>4, <1>5, <2>1, <2>2, <4>1, <4>2 DEF EarlyLegs
    <3> HIDE DEF p, l
    <3> QED BY <3>1
  <2>4. /\ Early(u, c) = SumFunctionOnSet(Delta, EarlyLegs(u, c)) /\ IsFiniteSet(EarlyLegs(u, c))
        /\ EarlyLegs(u, c) \subseteq Requests \X (1..3) /\ Early(u, c) \in Int
        /\ \A q \in Requests \X (1..3) : Delta[q] \in Int /\ Delta[q] = Leg(q[1], q[2]).delta
    BY <1>0, EarlyType
  <2>5. Early(u, c)' = SumFunctionOnSet(Delta, EarlyLegs(u, c)')
    <3>1. Delta' = Delta
      BY <1>5 DEF Delta
    <3>2. Early(u, c)' = SumFunctionOnSet(Delta', EarlyLegs(u, c)')
      BY DEF Early, Delta
    <3> QED BY <3>1, <3>2
  <2>6. balance[u][c] \in Int /\ balance'[u][c] = IF u = l.user /\ c = l.cur THEN balance[u][c] + l.delta
                                                                     ELSE balance[u][c]
    <3> HIDE DEF l
    <3> QED BY <1>0, <1>1, <1>3 DEF TypeOK
  <2>7. CASE u = l.user /\ c = l.cur
    <3>1. p \notin EarlyLegs(u, c)
      BY <1>2 DEF EarlyLegs
    <3>2. Delta[p] = l.delta
      BY <1>4, <2>4
    <3> HIDE DEF p, l
    <3>3. SumFunctionOnSet(Delta, EarlyLegs(u, c) \cup {p}) = Early(u, c) + l.delta
      BY <1>4, <2>4, <3>1, <3>2, SumAdds
    <3> QED BY <1>3, <2>3, <2>4, <2>5, <2>6, <2>7, <3>3
  <2>8. CASE ~(u = l.user /\ c = l.cur)
    <3> HIDE DEF p, l
    <3> QED BY <2>3, <2>4, <2>5, <2>6, <2>8
  <2> QED BY <2>7, <2>8
<1>7. BookFunds' = BookFunds
  BY <1>6 DEF BookFunds
<1> QED BY <1>1, <1>7 DEF Book!vars, BookFunds, TermsOf

-------------------------------------------------------------------------------
(* Commits.                                                                *)

(* The updates of a request that commits are early no more: at most one of *)
(* them was of the wallet of u in c.                                       *)
LEMMA CommitSettles ==
  ASSUME Settled, TypeOK', NEW r \in Requests, CommitRows(r), NEW u \in Users, NEW c \in Currency
  PROVE  /\ BookFunds[u][c] \in Int /\ BookFunds'[u][c] \in Int
         /\ \A i \in Legs(r) :
              Matches(r, i, u, c) /\ (\A j \in Legs(r) : Matches(r, j, u, c) => j = i)
                => BookFunds'[u][c] = BookFunds[u][c] + Leg(r, i).delta
         /\ (\A i \in Legs(r) : ~Matches(r, i, u, c)) => BookFunds'[u][c] = BookFunds[u][c]
<1> DEFINE S == EarlyLegs(u, c)
           T == EarlyLegs(u, c)'
<1>0. TypeOK /\ ControlOf(r)
  BY DEF Settled, Serial, Bookkeeping, Control
<1>1. /\ pc[r] = "commit" /\ pc' = [pc EXCEPT ![r] = "done"]
      /\ UNCHANGED <<caller, target, dto, cost, balance, applied>>
  BY DEF CommitRows, Goto, inputs
<1>2. applied[r] = Legs(r) /\ Legs(r) \subseteq 1..3
  <2>1. applied[r] = 1..LastLeg(r)
    BY <1>0, <1>1 DEF ControlOf
  <2>2. Legs(r) = 1..LastLeg(r)
    BY DEF Legs, LastLeg
  <2>3. Legs(r) \subseteq 1..3
    BY DEF Legs
  <2> QED BY <2>1, <2>2, <2>3
<1>3. Open' = Open \ {r} /\ r \in Open
  BY <1>0, <1>1 DEF Open, TypeOK
<1>4. Delta' = Delta /\ \A q, j : Leg(q, j)' = Leg(q, j)
  <2>1. \A q, j : Leg(q, j)' = Leg(q, j)
    BY <1>1, LegSame
  <2> QED BY <2>1 DEF Delta
<1>5. T = {p \in S : p[1] # r}
  <2>1. \A p : p \in T <=> p \in S /\ p[1] # r
    BY <1>1, <1>3, <1>4 DEF EarlyLegs
  <2> HIDE DEF S, T
  <2> QED BY <2>1
<1>6. /\ Early(u, c) = SumFunctionOnSet(Delta, S) /\ IsFiniteSet(S)
      /\ S \subseteq Requests \X (1..3) /\ Early(u, c) \in Int
      /\ \A p \in Requests \X (1..3) : Delta[p] \in Int /\ Delta[p] = Leg(p[1], p[2]).delta
  BY <1>0, EarlyType
<1>7. Early(u, c)' = SumFunctionOnSet(Delta, T)
  <2>1. Early(u, c)' = SumFunctionOnSet(Delta', T)
    BY DEF Early, Delta
  <2> QED BY <1>4, <2>1
<1>8. balance[u][c] \in Int /\ balance' = balance
  BY <1>0, <1>1 DEF TypeOK
<1>9. IsFiniteSet(T) /\ T \subseteq S
  <2>1. T \in SUBSET S
    BY <1>5
  <2> HIDE DEF S, T
  <2> QED BY <1>6, <2>1, FS_Subset
<1>10. Early(u, c)' \in Int
  <2> HIDE DEF S, T
  <2>1. \A p \in T : Delta[p] \in Int
    BY <1>6, <1>9
  <2> QED BY <1>7, <1>9, <2>1, SumType
<1>11. /\ BookFunds[u][c] = balance[u][c] - Early(u, c)
       /\ BookFunds'[u][c] = balance[u][c] - Early(u, c)'
  BY <1>1 DEF BookFunds
<1>12. \A p : p \in S /\ p \notin T <=> \E i \in Legs(r) : p = <<r, i>> /\ Matches(r, i, u, c)
  <2>1. \A p : p \in S /\ p[1] = r <=> \E i \in Legs(r) : p = <<r, i>> /\ Matches(r, i, u, c)
    BY <1>2, <1>3 DEF EarlyLegs, Matches
  <2> HIDE DEF S, T
  <2> QED BY <1>5, <2>1
<1> HIDE DEF S, T
<1>13. ASSUME NEW i \in Legs(r), Matches(r, i, u, c), \A j \in Legs(r) : Matches(r, j, u, c) => j = i
       PROVE  BookFunds'[u][c] = BookFunds[u][c] + Leg(r, i).delta
  <2> DEFINE p == <<r, i>>
  <2>1. S = T \cup {p} /\ p \notin T
    BY <1>9, <1>12, <1>13
  <2>2. p \in Requests \X (1..3) /\ Delta[p] = Leg(r, i).delta /\ Delta[p] \in Int
    <3>1. p \in Requests \X (1..3) /\ p[1] = r /\ p[2] = i
      BY <1>2
    <3> HIDE DEF p
    <3> QED BY <1>6, <3>1
  <2> HIDE DEF p
  <2>3. SumFunctionOnSet(Delta, T \cup {p}) = SumFunctionOnSet(Delta, T) + Delta[p]
    <3>1. \A q \in T : Delta[q] \in Int /\ Delta[q] = Delta[q]
      BY <1>6, <1>9
    <3> QED BY <1>9, <2>1, <2>2, <3>1, SumAdds
  <2>4. Early(u, c) = Early(u, c)' + Delta[p]
    BY <1>6, <1>7, <2>1, <2>3
  <2> QED BY <1>6, <1>8, <1>10, <1>11, <2>2, <2>4
<1>14. ASSUME \A i \in Legs(r) : ~Matches(r, i, u, c)
       PROVE  BookFunds'[u][c] = BookFunds[u][c]
  <2>1. S = T
    BY <1>9, <1>12, <1>14
  <2> QED BY <1>6, <1>7, <1>11, <2>1
<1> QED BY <1>6, <1>8, <1>10, <1>11, <1>13, <1>14

(* The order of a request, as the book sees it.                            *)
LEMMA BookTerms ==
  ASSUME TypeOK, NEW o \in Creates
  PROVE  LET t == TermsOf(caller[o], dto[o], cost[o])
         IN  /\ t.owner = caller[o] /\ t.cur = HoldCur(o) /\ t.hold = Hold(o) /\ t.price = Pay(o)
             /\ t.payout = Payout(o) /\ t.refund = StoredCost(o)
             /\ Book!Other(t.cur) = PayCur(o)
             /\ HoldCur(o) \in Currency /\ PayCur(o) \in Currency /\ PayCur(o) # HoldCur(o)
<1>1. HoldCur(o) \in Currency
  BY OrderMoney
<1>2. PayCur(o) \in Currency /\ PayCur(o) # HoldCur(o) /\ PayCur(o) = Book!Other(HoldCur(o))
  BY <1>1, OtherCurrency DEF PayCur, Book!Other, Other
<1> QED BY <1>1, <1>2 DEF TermsOf, HoldCur, Quote, Hold, HoldAt, Pay, Payout, StoredCost, StoredAmount

BalanceType == [Users -> [Currency -> Int]]

(* Balances are equal if every wallet is.                                  *)
LEMMA SameWallets ==
  ASSUME NEW f \in BalanceType, NEW g \in BalanceType,
         \A u \in Users, c \in Currency : f[u][c] = g[u][c]
  PROVE  f = g
<1>1. \A u \in Users : f[u] \in [Currency -> Int] /\ g[u] \in [Currency -> Int]
  BY DEF BalanceType
<1>2. \A u \in Users : f[u] = g[u]
  BY <1>1
<1> QED BY <1>2 DEF BalanceType

(* What an update of the book's balances does to each wallet.              *)
LEMMA BookAdd ==
  ASSUME NEW f \in BalanceType, NEW u \in Users, NEW c \in Currency, NEW x \in Int
  PROVE  /\ Book!Add(f, u, c, x) \in BalanceType
         /\ \A v \in Users, d \in Currency :
              Book!Add(f, u, c, x)[v][d] = IF v = u /\ d = c THEN f[v][d] + x ELSE f[v][d]
BY DEF Book!Add, BalanceType

(* The book's balances are integers.                                       *)
LEMMA BookFundsType ==
  TypeOK => BookFunds \in BalanceType
<1> SUFFICES ASSUME TypeOK, NEW u \in Users, NEW c \in Currency
             PROVE  balance[u][c] - Early(u, c) \in Int
  BY DEF BookFunds, BalanceType
<1>1. balance[u][c] \in Int /\ Early(u, c) \in Int
  BY EarlyType DEF TypeOK
<1> QED BY <1>1

(* The commit of a create places its order, and withdraws its hold.        *)
LEMMA CreateSettles ==
  ASSUME Settled, TypeOK', BookFunds' \in BalanceType, NEW o \in Creates, CommitRows(o)
  PROVE  Book!Place(o)
<1> DEFINE t == TermsOf(caller[o], dto[o], cost[o])
<1>0. TypeOK /\ BookFunds \in BalanceType
  BY BookFundsType DEF Settled, Serial, Bookkeeping
<1>1. /\ pc[o] = "commit" /\ UNCHANGED <<caller, dto, cost>>
      /\ status' = [status EXCEPT ![o] = "pending"]
  BY DEF CommitRows, CommitCreate, inputs
<1>2. status[o] = "absent" /\ status \in [Creates -> StatusVal]
  BY <1>1 DEF Settled, Serial, Bookkeeping, Books, Listed, Done, TypeOK
<1>3. t \in AllOffers
  <2>1. caller[o] \in Users /\ dto[o] \in Dto
    BY <1>0 DEF TypeOK
  <2>2. PICK rate \in Rates : cost[o] = calculateTotalCost(rate, dto[o].amount)
    BY <1>1 DEF Settled, Priced
  <2> QED BY <2>1, <2>2 DEF AllOffers
<1>4. {p \in Creates : status'[p] # "absent"} = {p \in Creates : status[p] # "absent"} \cup {o}
  BY <1>1, <1>2
<1>5. [q \in {p \in Creates : status[p] # "absent"} |-> TermsOf(caller[q], dto[q], cost[q])]'
        = [p \in {p \in Creates : status[p] # "absent"} \cup {o} |->
             IF p = o THEN t
             ELSE [q \in {p_1 \in Creates : status[p_1] # "absent"} |->
                     TermsOf(caller[q], dto[q], cost[q])][p]]
  BY <1>1, <1>4 DEF TermsOf
<1>6. BookFunds' = Book!Add(BookFunds, t.owner, t.cur, -t.hold)
  <2>1. /\ t.owner = caller[o] /\ t.cur = HoldCur(o) /\ t.hold = Hold(o)
        /\ caller[o] \in Users /\ HoldCur(o) \in Currency /\ Hold(o) \in Int
    BY <1>0, BookTerms, OrderMoney DEF TypeOK
  <2> HIDE DEF t
  <2>2. PICK x \in Int : x = -Hold(o)
    BY <2>1
  <2>3. Legs(o) = {1} /\ Leg(o, 1) = Update(caller[o], HoldCur(o), -Hold(o))
    BY DEF Legs, Leg, CreateLeg
  <2>4. \A v \in Users, d \in Currency :
          BookFunds'[v][d] = IF v = caller[o] /\ d = HoldCur(o) THEN BookFunds[v][d] + x
                                                                ELSE BookFunds[v][d]
    <3> SUFFICES ASSUME NEW v \in Users, NEW d \in Currency
                 PROVE  BookFunds'[v][d] = IF v = caller[o] /\ d = HoldCur(o) THEN BookFunds[v][d] + x
                                                                              ELSE BookFunds[v][d]
      OBVIOUS
    <3>1. /\ Matches(o, 1, v, d) <=> v = caller[o] /\ d = HoldCur(o)
          /\ Leg(o, 1).delta = x
      BY <2>2, <2>3 DEF Matches, Update
    <3>2. /\ Matches(o, 1, v, d) => BookFunds'[v][d] = BookFunds[v][d] + Leg(o, 1).delta
          /\ ~Matches(o, 1, v, d) => BookFunds'[v][d] = BookFunds[v][d]
      BY <2>3, CommitSettles
    <3> QED BY <3>1, <3>2
  <2>5. /\ Book!Add(BookFunds, caller[o], HoldCur(o), x) \in BalanceType
        /\ \A v \in Users, d \in Currency :
             Book!Add(BookFunds, caller[o], HoldCur(o), x)[v][d]
               = IF v = caller[o] /\ d = HoldCur(o) THEN BookFunds[v][d] + x ELSE BookFunds[v][d]
    BY <1>0, <2>1, BookAdd
  <2>6. BookFunds' = Book!Add(BookFunds, caller[o], HoldCur(o), x)
    BY <2>4, <2>5, SameWallets
  <2> QED BY <2>1, <2>2, <2>6
<1> QED BY <1>1, <1>2, <1>3, <1>5, <1>6 DEF Book!Place, Book!Placed, BookFunds

(* What the commits of a fulfil and of a cancel have in common.            *)
LEMMA ResolverSettles ==
  ASSUME Settled, TypeOK', NEW r \in Resolvers, CommitRows(r)
  PROVE  /\ target[r] \in Creates /\ status[target[r]] = "pending"
         /\ r \in Cancels <=> caller[r] = caller[target[r]]
         /\ UNCHANGED <<caller, target, dto, cost>>
         /\ UNCHANGED [o \in {p \in Creates : status[p] # "absent"} |->
                         TermsOf(caller[o], dto[o], cost[o])]
         /\ LET o == target[r]
                t == [q \in {p \in Creates : status[p] # "absent"} |->
                        TermsOf(caller[q], dto[q], cost[q])][o]
            IN  /\ t.owner = caller[o] /\ t.cur = HoldCur(o) /\ t.hold = Hold(o) /\ t.price = Pay(o)
                /\ t.payout = Payout(o) /\ t.refund = StoredCost(o)
                /\ Book!Other(t.cur) = PayCur(o)
<1> DEFINE o == target[r]
<1>1. /\ pc[r] = "commit" /\ UNCHANGED <<caller, target, dto, cost>>
      /\ status' = [status EXCEPT ![o] = "completed"] \/ status' = [status EXCEPT ![o] = "cancelled"]
  BY DEF CommitRows, CommitFulfil, CommitCancel, inputs
<1>2. o \in Creates /\ status[o] = "pending" /\ (r \in Cancels <=> caller[r] = caller[o])
  BY <1>1, TargetPlaced
<1>3. TypeOK /\ status \in [Creates -> StatusVal]
  BY DEF Settled, Serial, Bookkeeping, TypeOK
<1>4. {p \in Creates : status'[p] # "absent"} = {p \in Creates : status[p] # "absent"}
  BY <1>1, <1>2, <1>3
<1>5. UNCHANGED [q \in {p \in Creates : status[p] # "absent"} |->
                   TermsOf(caller[q], dto[q], cost[q])]
  BY <1>1, <1>4 DEF TermsOf
<1>6. [q \in {p \in Creates : status[p] # "absent"} |-> TermsOf(caller[q], dto[q], cost[q])][o]
        = TermsOf(caller[o], dto[o], cost[o])
  BY <1>2
<1> HIDE DEF o
<1>7. LET t == [q \in {p \in Creates : status[p] # "absent"} |->
                  TermsOf(caller[q], dto[q], cost[q])][o]
      IN  /\ t.owner = caller[o] /\ t.cur = HoldCur(o) /\ t.hold = Hold(o) /\ t.price = Pay(o)
          /\ t.payout = Payout(o) /\ t.refund = StoredCost(o)
          /\ Book!Other(t.cur) = PayCur(o)
  BY <1>2, <1>3, <1>6, BookTerms
<1> QED BY <1>1, <1>2, <1>5, <1>7 DEF o

(* The commit of a cancel cancels its order, and refunds the owner.        *)
LEMMA CancelSettles ==
  ASSUME Settled, TypeOK', BookFunds' \in BalanceType, NEW r \in Cancels, CommitRows(r)
  PROVE  target[r] \in Creates /\ Book!Cancel(target[r])
<1> DEFINE o == target[r]
           t == [q \in {p \in Creates : status[p] # "absent"} |->
                   TermsOf(caller[q], dto[q], cost[q])][o]
<1>0. TypeOK /\ BookFunds \in BalanceType
  BY BookFundsType DEF Settled, Serial, Bookkeeping
<1>1. /\ o \in Creates /\ status[o] = "pending" /\ caller[r] = caller[o]
      /\ UNCHANGED [q \in {p \in Creates : status[p] # "absent"} |->
                      TermsOf(caller[q], dto[q], cost[q])]
      /\ t.owner = caller[o] /\ t.cur = HoldCur(o) /\ t.refund = StoredCost(o)
  BY ResolverSettles
<1>2. status' = [status EXCEPT ![o] = "cancelled"]
  BY DEF CommitRows, CommitCancel
<1>3. BookFunds' = Book!Add(BookFunds, t.owner, t.cur, t.refund)
  <2> HIDE DEF t
  <2>1. caller[o] \in Users /\ HoldCur(o) \in Currency /\ StoredCost(o) \in Int
    BY <1>0, <1>1, OrderMoney DEF TypeOK
  <2>2. PICK x \in Int : x = StoredCost(o)
    BY <2>1
  <2>3. Legs(r) = {1} /\ Leg(r, 1) = Update(caller[o], HoldCur(o), x)
    BY <1>1, <2>2 DEF Legs, Leg, CancelLeg
  <2> HIDE DEF o
  <2>4. \A v \in Users, d \in Currency :
          BookFunds'[v][d] = IF v = caller[o] /\ d = HoldCur(o) THEN BookFunds[v][d] + x
                                                                ELSE BookFunds[v][d]
    <3> SUFFICES ASSUME NEW v \in Users, NEW d \in Currency
                 PROVE  BookFunds'[v][d] = IF v = caller[o] /\ d = HoldCur(o) THEN BookFunds[v][d] + x
                                                                              ELSE BookFunds[v][d]
      OBVIOUS
    <3>1. /\ Matches(r, 1, v, d) <=> v = caller[o] /\ d = HoldCur(o)
          /\ Leg(r, 1).delta = x
      BY <2>3 DEF Matches, Update
    <3>2. /\ Matches(r, 1, v, d) => BookFunds'[v][d] = BookFunds[v][d] + Leg(r, 1).delta
          /\ ~Matches(r, 1, v, d) => BookFunds'[v][d] = BookFunds[v][d]
      BY <2>3, CommitSettles
    <3> QED BY <3>1, <3>2
  <2>5. /\ Book!Add(BookFunds, caller[o], HoldCur(o), x) \in BalanceType
        /\ \A v \in Users, d \in Currency :
             Book!Add(BookFunds, caller[o], HoldCur(o), x)[v][d]
               = IF v = caller[o] /\ d = HoldCur(o) THEN BookFunds[v][d] + x ELSE BookFunds[v][d]
    BY <1>0, <2>1, BookAdd
  <2>6. BookFunds' = Book!Add(BookFunds, caller[o], HoldCur(o), x)
    BY <2>4, <2>5, SameWallets
  <2> QED BY <1>1, <2>2, <2>6
<1> QED BY <1>1, <1>2, <1>3 DEF Book!Cancel, BookFunds

(* The commit of a fulfil completes its order: three wallets change at     *)
(* once.                                                                   *)
LEMMA FulfilSettles ==
  ASSUME Settled, TypeOK', BookFunds' \in BalanceType, NEW r \in Fulfils, CommitRows(r)
  PROVE  target[r] \in Creates /\ caller[r] \in Users /\ Book!Fulfil(target[r], caller[r])
<1> DEFINE o == target[r]
           t == [q \in {p \in Creates : status[p] # "absent"} |->
                   TermsOf(caller[q], dto[q], cost[q])][o]
<1>0. TypeOK /\ BookFunds \in BalanceType
  BY BookFundsType DEF Settled, Serial, Bookkeeping
<1>1. /\ o \in Creates /\ status[o] = "pending" /\ caller[r] # caller[o]
      /\ UNCHANGED [q \in {p \in Creates : status[p] # "absent"} |->
                      TermsOf(caller[q], dto[q], cost[q])]
      /\ t.owner = caller[o] /\ t.cur = HoldCur(o) /\ t.price = Pay(o) /\ t.payout = Payout(o)
      /\ Book!Other(t.cur) = PayCur(o)
  BY ResolverSettles
<1>2. status' = [status EXCEPT ![o] = "completed"]
  BY DEF CommitRows, CommitFulfil
<1>3. caller[r] \in Users /\ caller[o] \in Users
  BY <1>0, <1>1 DEF TypeOK
<1>4. BookFunds' = Book!Add(Book!Add(Book!Add(BookFunds, caller[r], Book!Other(t.cur), -t.price),
                                     caller[r], t.cur, t.payout),
                            t.owner, Book!Other(t.cur), t.price)
  <2> HIDE DEF t
  <2>1. /\ HoldCur(o) \in Currency /\ PayCur(o) \in Currency /\ Pay(o) \in Int /\ Payout(o) \in Int
        /\ PayCur(o) # HoldCur(o)
    BY <1>0, <1>1, OrderMoney, BookTerms
  <2>2. PICK u \in Users, v \in Users, a \in Currency, b \in Currency, x \in Int, y \in Int :
          /\ u = caller[r] /\ v = caller[o] /\ a = HoldCur(o) /\ b = PayCur(o)
          /\ x = Pay(o) /\ y = Payout(o)
    BY <1>3, <2>1
  <2>3. u # v /\ a # b /\ -x \in Int
    BY <1>1, <2>1, <2>2
  <2>4. /\ Legs(r) = {1, 2, 3}
        /\ Leg(r, 1) = Update(u, b, -x)
        /\ Leg(r, 2) = Update(u, a, y)
        /\ Leg(r, 3) = Update(v, b, x)
    <3>1. Legs(r) = 1..3 /\ r \notin Creates
      BY DEF Legs
    <3> QED BY <2>2, <3>1 DEF Leg, FulfilLeg
  <2> HIDE DEF o
  <2>5. PICK f1 : f1 = Book!Add(BookFunds, u, b, -x)
    OBVIOUS
  <2>6. PICK f2 : f2 = Book!Add(f1, u, a, y)
    OBVIOUS
  <2>7. PICK f3 : f3 = Book!Add(f2, v, b, x)
    OBVIOUS
  <2>8. f1 \in BalanceType
    BY <1>0, <2>3, <2>5, BookAdd
  <2>9. f2 \in BalanceType
    BY <2>6, <2>8, BookAdd
  <2>10. f3 \in BalanceType
    BY <2>7, <2>9, BookAdd
  <2>13. \A w \in Users, d \in Currency :
           f1[w][d] = IF w = u /\ d = b THEN BookFunds[w][d] + (-x) ELSE BookFunds[w][d]
    BY <1>0, <2>3, <2>5, BookAdd
  <2>14. \A w \in Users, d \in Currency :
           f2[w][d] = IF w = u /\ d = a THEN f1[w][d] + y ELSE f1[w][d]
    BY <2>6, <2>8, BookAdd
  <2>15. \A w \in Users, d \in Currency :
           f3[w][d] = IF w = v /\ d = b THEN f2[w][d] + x ELSE f2[w][d]
    BY <2>7, <2>9, BookAdd
  <2>11. ASSUME NEW w \in Users, NEW d \in Currency PROVE BookFunds'[w][d] = f3[w][d]
    <3>1. /\ Matches(r, 1, w, d) <=> w = u /\ d = b
          /\ Matches(r, 2, w, d) <=> w = u /\ d = a
          /\ Matches(r, 3, w, d) <=> w = v /\ d = b
          /\ Leg(r, 1).delta = -x /\ Leg(r, 2).delta = y /\ Leg(r, 3).delta = x
      BY <2>4 DEF Matches, Update
    <3>2. /\ \A i \in {1, 2, 3} :
               Matches(r, i, w, d) /\ (\A j \in {1, 2, 3} : Matches(r, j, w, d) => j = i)
                 => BookFunds'[w][d] = BookFunds[w][d] + Leg(r, i).delta
          /\ (\A i \in {1, 2, 3} : ~Matches(r, i, w, d)) => BookFunds'[w][d] = BookFunds[w][d]
      BY <2>4, CommitSettles
    <3>3. CASE w = u /\ d = b
      BY <2>3, <2>13, <2>14, <2>15, <3>1, <3>2, <3>3
    <3>4. CASE w = u /\ d = a
      BY <2>3, <2>13, <2>14, <2>15, <3>1, <3>2, <3>4
    <3>5. CASE w = v /\ d = b
      BY <2>3, <2>13, <2>14, <2>15, <3>1, <3>2, <3>5
    <3>6. CASE ~(w = u /\ d = b) /\ ~(w = u /\ d = a) /\ ~(w = v /\ d = b)
      BY <2>13, <2>14, <2>15, <3>1, <3>2, <3>6
    <3> QED BY <3>3, <3>4, <3>5, <3>6
  <2>12. BookFunds' = f3
    BY <2>10, <2>11, SameWallets
  <2> QED BY <1>1, <2>2, <2>5, <2>6, <2>7, <2>12
<1> QED BY <1>1, <1>2, <1>3, <1>4 DEF Book!Fulfil, BookFunds

-------------------------------------------------------------------------------
(* The refinement.                                                         *)

(* BookFundsType in the next state.                                        *)
LEMMA BookFundsNext == TypeOK' => BookFunds' \in BalanceType
<1>1. (TypeOK => BookFunds \in BalanceType)'
  BY BookFundsType, PTL
<1> QED BY <1>1 DEF BalanceType

(* Every step is one of the book, or none: what precedes a commit changes  *)
(* nothing, and a commit moves all the money of its request.               *)
LEMMA StepSettles ==
  ASSUME Faults = {}
  PROVE  Settled /\ Settled' /\ [Next]_vars => [Book!Next]_(Book!vars)
<1> SUFFICES ASSUME Settled, Settled', [Next]_vars PROVE [Book!Next]_(Book!vars)
  OBVIOUS
<1> USE DEF Goto
<1>0. /\ TypeOK' /\ BookFunds' \in BalanceType
      /\ pc \in [Requests -> PcVal] /\ cost \in [Creates -> Int]
      /\ UNCHANGED <<caller, target, dto>>
      /\ \A r \in Requests : ControlOf(r) /\ call[r] # "refused"
  BY BookFundsNext, InputsKept DEF Settled, Serial, Bookkeeping, TypeOK, Control, Undisturbed, inputs
<1>a. \A r \in Requests : call[r] = "none" => applied[r] = {}
  BY <1>0 DEF ControlOf
<1>1. ASSUME NEW r \in Requests, UNCHANGED <<applied, status, balance>>, CostKept,
             \A q \in Requests \ {r} : pc'[q] = pc[q],
             applied[r] # {} => (r \in Open' <=> r \in Open)
      PROVE  UNCHANGED Book!vars
  <2>1. \A q \in Requests : applied[q] # {} => (q \in Open' <=> q \in Open)
    BY <1>1 DEF Open
  <2> QED BY <1>0, <1>1, <2>1, BookKept
<1>2. ASSUME NEW r \in Requests, Arrival(r) PROVE UNCHANGED Book!vars
  <2>1. /\ pc[r] = "new" /\ UNCHANGED <<applied, status, balance, cost>>
        /\ \A q \in Requests \ {r} : pc'[q] = pc[q]
    BY <1>0, <1>2 DEF Arrival, GetHoldWallet, FindOrderToFulfil, FindOrderToCancel, Admitted, database
  <2>2. applied[r] = {}
    BY <1>0, <1>a, <2>1 DEF ControlOf
  <2> QED BY <1>1, <2>1, <2>2 DEF CostKept
<1>3. ASSUME NEW r \in Creates, PriceOrder(r) PROVE UNCHANGED Book!vars
  <2>1. /\ pc[r] = "wallet" /\ UNCHANGED <<applied, status, balance>>
        /\ \A q \in Requests \ {r} : pc'[q] = pc[q]
        /\ \A o \in Creates \ {r} : cost'[o] = cost[o]
    BY <1>0, <1>3 DEF PriceOrder, database
  <2>2. applied[r] = {}
    BY <1>0, <1>a, <2>1 DEF ControlOf
  <2>3. status[r] = "absent"
    BY <2>1 DEF Settled, Serial, Bookkeeping, Books, Listed, Done
  <2> QED BY <1>1, <2>1, <2>2, <2>3 DEF CostKept
<1>4. ASSUME NEW r \in Requests, GetPayWallet(r) PROVE UNCHANGED Book!vars
  <2>1. /\ pc[r] = "found" /\ UNCHANGED <<applied, status, balance, cost>>
        /\ \A q \in Requests \ {r} : pc'[q] = pc[q]
    BY <1>0, <1>4 DEF GetPayWallet, database
  <2>2. applied[r] = {}
    BY <1>0, <1>a, <2>1 DEF ControlOf
  <2> QED BY <1>1, <2>1, <2>2 DEF CostKept
<1>5. ASSUME NEW r \in Fulfils, RecordFulfilment(r) PROVE UNCHANGED Book!vars
  <2>1. pc[r] = "record" /\ target[r] \in Creates /\ caller[r] \in Users
        /\ UNCHANGED <<applied, balance, cost>>
    BY <1>5 DEF RecordFulfilment, Settled, Serial, Bookkeeping, TypeOK
  <2>2. UQ_order_user(target[r], caller[r])
    BY <2>1, FirstFulfil DEF Settled
  <2>3. pc' = [pc EXCEPT ![r] = "commit"] /\ status' = status
    BY <1>5, <2>2 DEF RecordFulfilment, database
  <2>4. r \in Open' /\ r \in Open
    BY <1>0, <2>1, <2>3 DEF Open
  <2> QED BY <1>0, <1>1, <2>1, <2>3, <2>4 DEF CostKept
<1>6. ASSUME NEW r \in Resolvers, LockOrder(r) PROVE UNCHANGED Book!vars
  <2>1. /\ pc[r] = "checked" /\ UNCHANGED <<applied, status, balance, cost>>
        /\ \A q \in Requests \ {r} : pc'[q] = pc[q]
    BY <1>0, <1>6 DEF LockOrder
  <2>2. applied[r] = {}
    BY <1>0, <1>a, <2>1 DEF ControlOf
  <2> QED BY <1>1, <2>1, <2>2 DEF CostKept
<1>7. ASSUME NEW r \in Requests, NextLeg(r) \/ LegsDone(r) PROVE UNCHANGED Book!vars
  <2>1. /\ pc[r] = "call" /\ UNCHANGED <<applied, status, balance, cost>>
        /\ pc'[r] \in {"call", "record", "commit"}
        /\ \A q \in Requests \ {r} : pc'[q] = pc[q]
    BY <1>0, <1>7 DEF NextLeg, LegsDone, Answered, AfterLegs, database
  <2>2. r \in Open' /\ r \in Open
    BY <2>1 DEF Open
  <2> QED BY <1>1, <2>1, <2>2 DEF CostKept
<1>8. ASSUME NEW r \in Requests, WalletUpdate(r) PROVE UNCHANGED Book!vars
  BY <1>0, <1>8, UpdateKept
<1>9. ASSUME NEW r \in Requests, CommitRows(r) PROVE Book!Next
  <2>1. CASE r \in Creates
    <3>1. Book!Place(r)
      BY <1>0, <1>9, <2>1, CreateSettles
    <3> QED BY <2>1, <3>1 DEF Book!Next
  <2>2. CASE r \in Fulfils
    <3>1. Book!Fulfil(target[r], caller[r])
      BY <1>0, <1>9, <2>2, FulfilSettles
    <3>2. target[r] \in Creates /\ caller[r] \in Users
      BY <2>2 DEF Settled, Serial, Bookkeeping, TypeOK, Resolvers
    <3>3. PICK o \in Creates, u \in Users : o = target[r] /\ u = caller[r]
      BY <3>2
    <3>4. Book!Fulfil(o, u)
      BY <3>1, <3>3 DEF Book!Fulfil
    <3> QED BY <3>4 DEF Book!Next
  <2>3. CASE r \in Cancels
    <3>1. Book!Cancel(target[r])
      BY <1>0, <1>9, <2>3, CancelSettles
    <3>2. target[r] \in Creates
      BY <2>3 DEF Settled, Serial, Bookkeeping, TypeOK, Resolvers
    <3>3. PICK o \in Creates : o = target[r]
      BY <3>2
    <3>4. Book!Cancel(o)
      BY <3>1, <3>3 DEF Book!Cancel
    <3> QED BY <3>4 DEF Book!Next
  <2> QED BY <2>1, <2>2, <2>3
<1>10. ASSUME NEW r \in Requests, WalletRefuse(r) \/ WalletUnread(r) \/ LegRefused(r) \/ Abort(r)
                                \/ CommitUnanswered(r)
       PROVE  FALSE
  <2>1. CASE WalletRefuse(r)
    BY <2>1 DEF WalletRefuse, Settled, Undisturbed
  <2>2. CASE WalletUnread(r) \/ Abort(r) \/ CommitUnanswered(r)
    BY <2>2 DEF WalletUnread, Abort, CommitUnanswered
  <2>3. CASE LegRefused(r)
    BY <1>0, <2>3 DEF LegRefused
  <2> QED BY <1>10, <2>1, <2>2, <2>3
<1>11. CASE Restart
  BY <1>11 DEF Restart
<1>12. CASE UNCHANGED vars
  <2>1. /\ UNCHANGED <<caller, target, dto, applied, status, balance>> /\ CostKept
        /\ Open' = Open
    BY <1>12 DEF vars, CostKept, Open
  <2> QED BY <1>0, <2>1, BookKept
<1> QED
  BY <1>2, <1>3, <1>4, <1>5, <1>6, <1>7, <1>8, <1>9, <1>10, <1>11, <1>12
     DEF Next, RequestStep, HandlerStep, Commit

(* Initially the book is empty and no update is early.                     *)
LEMMA InitSettles == Init => Book!Init
<1> SUFFICES ASSUME Init PROVE Book!Init
  OBVIOUS
<1>1. /\ status = [o \in Creates |-> "absent"] /\ balance = Funds
      /\ pc = [r \in Requests |-> "new"] /\ TypeOK
  BY InitTypeOK DEF Init
<1>2. {p \in Creates : status[p] # "absent"} = {}
  BY <1>1
<1>3. [o \in {p \in Creates : status[p] # "absent"} |-> TermsOf(caller[o], dto[o], cost[o])] = <<>>
  BY <1>2
<1>4. ASSUME NEW u \in Users, NEW c \in Currency PROVE BookFunds[u][c] = Funds[u][c]
  <2>1. EarlyLegs(u, c) = {}
    BY <1>1 DEF EarlyLegs, Open
  <2>2. Early(u, c) = 0
    <3>1. Theory!SumFunctionOnSet(Delta, {}) = 0
      <4>1. Theory!IsFiniteSet({})
        BY FS_EmptySet, SameSizes
      <4> QED BY <4>1, Theory!SumUnfolds, TheoryApplies
    <3> QED BY <2>1, <3>1, SameSums DEF Early, Delta
  <2>3. Funds[u][c] \in Int
    BY AmountAssumption
  <2> QED BY <1>1, <2>2, <2>3 DEF BookFunds
<1>5. BookFunds = Funds
  <2>1. Funds \in BalanceType /\ BookFunds \in BalanceType
    BY <1>1, AmountAssumption, BookFundsType DEF BalanceType
  <2> QED BY <1>4, <2>1, SameWallets
<1> QED BY <1>1, <1>3, <1>5 DEF Book!Init, BookFunds

(* However the wallet updates of the requests interleave: orders are       *)
(* placed, fulfilled and cancelled atomically, each of them at most once,  *)
(* and no money moves but with the status of an order.                     *)
THEOREM SettlementImplementsOrderBook ==
  ASSUME Faults = {}
  PROVE  SerialSpec => ImplementsOrderBook
<1>1. Settled /\ [Next /\ OneAtATime']_vars => Settled'
  BY SettledStep
<1>2. Settled /\ Settled' /\ [Next]_vars => [Book!Next]_(Book!vars)
  BY StepSettles
<1>3. [Next /\ OneAtATime']_vars => [Next]_vars
  OBVIOUS
<1> QED
  BY <1>1, <1>2, <1>3, SettledInit, InitSettles, PTL DEF SerialSpec, ImplementsOrderBook, Book!Spec

-------------------------------------------------------------------------------
(* The money of the book.                                                  *)

(* Whatever the body of an order and the rate, it pays out what it holds,  *)
(* up to half a cent.                                                      *)
LEMMA OffersRound == Theory!OffersFit
<1>1. ASSUME NEW u \in Users, NEW d \in Dto, NEW rate \in Rates
      PROVE  LET t == TermsOf(u, d, calculateTotalCost(rate, d.amount))
             IN  /\ t \in Theory!Terms
                 /\ 2 * (t.payout - t.hold) <= Cent
                 /\ 2 * (t.hold - t.payout) <= Cent
  <2>1. /\ d.amount \in Int /\ d.base \in Currency
        /\ calculateTotalCost(rate, d.amount) \in Int
    BY AmountAssumption, TotalCostIsInt DEF Dto
  <2> DEFINE total == calculateTotalCost(rate, d.amount)
  <2>2. \A x \in Int : /\ Cents(x) \in Int
                       /\ 2 * (Cents(x) - x) <= Cent /\ 2 * (x - Cents(x)) <= Cent
    BY CentsRounds
  <2>3. Other(d.base) \in Currency
    BY <2>1, OtherCurrency
  <2> HIDE DEF total
  <2>4. LET t == TermsOf(u, d, total)
        IN  /\ t \in Theory!Terms
            /\ 2 * (t.payout - t.hold) <= Cent
            /\ 2 * (t.hold - t.payout) <= Cent
    BY <2>1, <2>2, <2>3 DEF TermsOf, Theory!Terms, Theory!Currency, Currency, total
  <2> QED BY <2>4 DEF total
<1>2. ASSUME NEW t \in AllOffers
      PROVE  /\ t \in Theory!Terms
             /\ 2 * (t.payout - t.hold) <= Cent
             /\ 2 * (t.hold - t.payout) <= Cent
  <2>1. PICK u \in Users, d \in Dto, rate \in Rates :
          t = TermsOf(u, d, calculateTotalCost(rate, d.amount))
    BY DEF AllOffers
  <2> QED BY <1>1, <2>1
<1> HIDE DEF AllOffers
<1> QED BY <1>2 DEF Theory!OffersFit

(* The specification of the book is that of its theorems' instance.        *)
LEMMA BookIsTheory == ImplementsOrderBook => Theory!Spec
<1>1. Book!Init => Theory!Init
  BY DEF Book!Init, Theory!Init
<1>2. ASSUME NEW o \in Creates
      PROVE  /\ Book!Place(o) => Theory!Place(o)
             /\ Book!Cancel(o) => Theory!Cancel(o)
             /\ \A u \in Users : Book!Fulfil(o, u) => Theory!Fulfil(o, u)
  <2>1. \A f, v, c, x : Book!Add(f, v, c, x) = Theory!Add(f, v, c, x)
    BY DEF Book!Add, Theory!Add
  <2>2. \A c : Book!Other(c) = Theory!Other(c)
    BY DEF Book!Other, Theory!Other
  <2>3. Book!Placed = Theory!Placed
    BY DEF Book!Placed, Theory!Placed
  <2>4. Book!Place(o) => Theory!Place(o)
    BY <2>1, <2>3 DEF Book!Place, Theory!Place
  <2>5. Book!Cancel(o) => Theory!Cancel(o)
    BY <2>1 DEF Book!Cancel, Theory!Cancel
  <2>6. \A u \in Users : Book!Fulfil(o, u) => Theory!Fulfil(o, u)
    BY <2>1, <2>2 DEF Book!Fulfil, Theory!Fulfil
  <2> QED BY <2>4, <2>5, <2>6
<1>3. [Book!Next]_(Book!vars) => [Theory!Next]_(Theory!vars)
  BY <1>2 DEF Book!Next, Theory!Next, Book!vars, Theory!vars
<1> QED BY <1>1, <1>3, PTL DEF ImplementsOrderBook, Book!Spec, Theory!Spec

(* So is what it promises.                                                 *)
LEMMA TheoryMoney == Theory!MoneyIsKept => MoneyIsKept
<1>1. Theory!Placed = Book!Placed
  BY DEF Theory!Placed, Book!Placed
<1>2. \A c, S : Theory!OrdersIn(c, S) = Book!OrdersIn(c, S)
  BY <1>1 DEF Theory!OrdersIn, Book!OrdersIn
<1>3. \A c : Theory!ResolvedIn(c) = Book!ResolvedIn(c)
  BY <1>2 DEF Theory!ResolvedIn, Book!ResolvedIn
<1>4. \A c : /\ Theory!Held(c) = Book!Held(c)
             /\ Theory!Misrefund(c) = Book!Misrefund(c)
  BY <1>1, <1>2, SameSums DEF Theory!Held, Book!Held, Theory!Misrefund, Book!Misrefund
<1>5. \A f, c : Theory!Supply(f, c) = Book!Supply(f, c)
  BY SameSums DEF Theory!Supply, Book!Supply, Theory!SumFunction, Book!SumFunction
<1> QED
  BY <1>3, <1>4, <1>5, SameSizes
     DEF MoneyIsKept, Theory!MoneyIsKept, Book!MoneyIsKept, Theory!Currency, Book!Currency

(* No money appears or disappears but for the rounding of the columns and  *)
(* the refund of cancelled sells, whatever the order in which the wallet   *)
(* updates, commits and reads of the requests happen.                      *)
THEOREM SettledMoneyIsKept ==
  ASSUME Faults = {}
  PROVE  SerialSpec => []MoneyIsKept
<1>1. SerialSpec => ImplementsOrderBook
  BY SettlementImplementsOrderBook
<1>2. Theory!Spec => []Theory!MoneyIsKept
  <2>1. Theory!IsFiniteSet(Users)
    BY FiniteAssumption, SameSizes
  <2>2. Funds \in [Users -> [Theory!Currency -> Int]]
    BY AmountAssumption DEF Theory!Currency, Currency
  <2> QED BY <2>1, <2>2, OffersRound, TheoryApplies, Theory!MoneyConserved
<1> QED BY <1>1, <1>2, BookIsTheory, TheoryMoney, PTL
================================================================================
