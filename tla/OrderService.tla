----------------------------- MODULE OrderService -----------------------------
(***************************************************************************)
(* The order service: POST /orders, POST /orders/:id/fulfill and           *)
(* POST /orders/:id/cancel, served concurrently over one order database    *)
(* (PostgreSQL, READ COMMITTED) and the wallet service (gRPC).  One action *)
(* per point at which a handler awaits something other requests can see:   *)
(* a wallet read, the row lock of the order, a wallet update, the commit.  *)
(* Database transactions hold the row of the order they update; wallet     *)
(* updates take effect when the wallet service executes them and are not   *)
(* undone by a rollback.                                                   *)
(***************************************************************************)
EXTENDS Money, FiniteSets

CONSTANTS
  Users,
  Creates,      \* the createOrder calls; also the uuids of the orders they insert
  Fulfils,      \* the fulfillOrder calls
  Cancels,      \* the cancelOrder calls
  Amounts,      \* values of dto.amount: any number, also a negative one
  Rates,        \* answers of the rate service, in units of 1/RateScale
  RateScale,
  Funds,        \* initial wallet balances
  MaxAmount,    \* bound of order.amount,    numeric(10,2)
  MaxCost,      \* bound of order.totalCost, numeric(12,2)
  MaxInFlight,  \* bound on the requests served at the same time
  Faults,       \* the faults the environment may inject
  Free          \* no transaction holds the row

Resolvers == Fulfils \cup Cancels
Requests  == Creates \cup Resolvers

FaultKinds == {"refuse", "abort", "restart"}

ASSUME RequestAssumption ==
  /\ Creates \cap Resolvers = {}
  /\ Fulfils \cap Cancels = {}
  /\ Free \notin Requests
ASSUME AmountAssumption ==
  /\ Amounts \subseteq Int
  /\ Rates \subseteq Nat
  /\ RateScale \in Nat \ {0}
  /\ Funds \in [Users -> [Currency -> Nat]]
ASSUME BoundAssumption ==
  /\ MaxAmount \in Nat
  /\ MaxCost \in Nat
  /\ MaxInFlight \in Nat
  /\ Faults \subseteq FaultKinds

VARIABLES
  caller,    \* user of each request            (fixed by the request)
  target,    \* order id of a fulfil or cancel  (fixed by the request)
  dto,       \* body of a create                (fixed by the request)
  pc,        \* where each handler is
  seen,      \* wallet.balance as a handler read it
  cost,      \* totalCost a create computed, and its order's column
  leg,       \* which of its wallet updates a handler is at
  call,      \* the state of the last wallet update a handler sent
  status,    \* order.status, committed
  txn,       \* transaction.status by order and user, committed
  holder,    \* which request's transaction holds the order's row
  balance,   \* wallet.balance, by user and currency
  notified,  \* fulfils whose notification was emitted
  cut,       \* requests that a fault ended with their transaction open
  applied,   \* history: the wallet updates of a request that took effect
  raced      \* history: wallets two debits of which overlapped

inputs   == <<caller, target, dto>>
database == <<status, txn, holder>>
vars == <<caller, target, dto, pc, seen, cost, leg, call, status, txn, holder,
          balance, notified, cut, applied, raced>>

-------------------------------------------------------------------------------
(* The money of an order.  A buy is paid for in the quote currency, a sell  *)
(* in the base currency; that is the currency of the hold.                  *)

Dto == [type : {"buy", "sell"}, base : Currency, amount : Amounts]

Quote(o)   == Other(dto[o].base)
HoldCur(o) == IF dto[o].type = "buy" THEN Quote(o) ELSE dto[o].base
PayCur(o)  == Other(HoldCur(o))

calculateTotalCost(rate, amount) == (rate * amount) \div RateScale

HoldAt(o, total) == IF dto[o].type = "buy" THEN total ELSE dto[o].amount
Hold(o) == HoldAt(o, cost[o])

(* order.amount and order.totalCost read back from their columns. *)
StoredAmount(o) == Cents(dto[o].amount)
StoredCost(o)   == Cents(cost[o])

(* What the fulfiller pays, and what the fulfiller is paid. *)
Pay(o)    == IF dto[o].type = "buy" THEN StoredAmount(o) ELSE StoredCost(o)
Payout(o) == IF dto[o].type = "buy" THEN StoredCost(o) ELSE StoredAmount(o)

(* The wallet updates of each kind of request, in the order they are sent. *)
Update(u, c, d) == [user |-> u, cur |-> c, delta |-> d]

CreateLeg(o) == Update(caller[o], HoldCur(o), -Hold(o))

(* Mutant: the fulfiller is paid what it paid, in the other currency.      *)
FulfilLeg_PaidPrice(f, i) ==
  LET o == target[f]
  IN  CASE i = 1 -> Update(caller[f], PayCur(o), -Pay(o))
        [] i = 2 -> Update(caller[f], HoldCur(o), Pay(o))
        [] OTHER -> Update(caller[o], PayCur(o), Pay(o))

FulfilLeg(f, i) ==
  LET o == target[f]
  IN  CASE i = 1 -> Update(caller[f], PayCur(o), -Pay(o))
        [] i = 2 -> Update(caller[f], HoldCur(o), Payout(o))
        [] OTHER -> Update(caller[o], PayCur(o), Pay(o))

(* Mutant: the refund goes to the wallet a fulfiller would pay from.       *)
CancelLeg_PayCur(x) ==
  LET o == target[x] IN Update(caller[x], PayCur(o), StoredCost(o))

CancelLeg(x) ==
  LET o == target[x] IN Update(caller[x], HoldCur(o), StoredCost(o))

Legs(r) == IF r \in Fulfils THEN 1..3 ELSE 1..1

(* Mutants: one call too many; the owner's deposit is forgotten.           *)
LastLeg_Four(r) == IF r \in Fulfils THEN 4 ELSE 1
LastLeg_Two(r) == IF r \in Fulfils THEN 2 ELSE 1

LastLeg(r) == IF r \in Fulfils THEN 3 ELSE 1
Leg(r, i) == IF r \in Creates THEN CreateLeg(r)
             ELSE IF r \in Fulfils THEN FulfilLeg(r, i)
             ELSE CancelLeg(r)

(* Only a create and a fulfil debit their caller, with their first update. *)
DebitCur(r) == IF r \in Creates THEN HoldCur(r) ELSE PayCur(target[r])

-------------------------------------------------------------------------------
InFlight == {"wallet", "found", "checked", "call", "record", "commit"}
Ended    == {"done", "failed"}   \* with its transaction committed, or without
PcVal    == {"new"} \cup InFlight \cup Ended
CallVal  == {"none", "sent", "applied", "refused"}
StatusVal == {"absent", "pending", "completed", "cancelled"}

Goto(r, label) == pc' = [pc EXCEPT ![r] = label]

(* Request r is served from now on.                                        *)
Admitted(r) ==
  /\ pc[r] = "new"
  /\ Cardinality({q \in Requests : pc[q] \in InFlight}) < MaxInFlight

(* r has read its wallet or sent its debit, and the debit is still to come. *)
MayDebit(r) ==
  /\ r \in Creates \cup Fulfils
  /\ 1 \notin applied[r]
  /\ pc[r] \in {"wallet", "checked"} \/ call[r] = "sent"

DebitWallet(r) == <<caller[r], DebitCur(r)>>

(* getWalletByCurrency for the wallet r is about to debit.                 *)
ReadWallet(r) ==
  /\ seen' = [seen EXCEPT ![r] = balance[caller[r]][DebitCur(r)]]
  /\ raced' = IF \E q \in Requests : MayDebit(q) /\ DebitWallet(q) = DebitWallet(r)
              THEN raced \cup {DebitWallet(r)}
              ELSE raced

(* updateWallet is sent; the handler awaits the answer.                    *)
SendLeg(r, i) ==
  /\ leg' = [leg EXCEPT ![r] = i]
  /\ call' = [call EXCEPT ![r] = "sent"]

(* Mutant: a transaction is left open.                                     *)
Unlocked_Kept(r) == holder

(* The row locks r's transaction gives up when it ends.                    *)
Unlocked(r) == [o \in Creates |-> IF holder[o] = r THEN Free ELSE holder[o]]

Rollback(r) ==
  /\ Goto(r, "failed")
  /\ holder' = Unlocked(r)
  /\ UNCHANGED <<status, txn>>

-------------------------------------------------------------------------------
Init ==
  /\ caller \in [Requests -> Users]
  /\ target \in [Resolvers -> Creates]
  /\ dto \in [Creates -> Dto]
  /\ pc = [r \in Requests |-> "new"]
  /\ seen = [r \in Requests |-> 0]
  /\ cost = [o \in Creates |-> 0]
  /\ leg = [r \in Requests |-> 0]
  /\ call = [r \in Requests |-> "none"]
  /\ status = [o \in Creates |-> "absent"]
  /\ txn = [o \in Creates |-> [u \in Users |-> "absent"]]
  /\ holder = [o \in Creates |-> Free]
  /\ balance = Funds
  /\ notified = {}
  /\ cut = {}
  /\ applied = [r \in Requests |-> {}]
  /\ raced = {}

(* createOrder: the wallet is read first, then the rates are awaited.      *)
GetHoldWallet(r) ==
  /\ Admitted(r)
  /\ ReadWallet(r)
  /\ Goto(r, "wallet")
  /\ UNCHANGED <<inputs, database, cost, leg, call, balance, notified, cut, applied>>

(* The order row and the transaction row fit their columns.                *)
Storable(r, total) ==
  /\ Cents(dto[r].amount) \in -MaxAmount..MaxAmount
  /\ Cents(total) \in -MaxCost..MaxCost

(* Mutant: a buy is checked against its amount.                            *)
Affordable_Amount(r, total) == seen[r] >= dto[r].amount

Affordable(r, total) == seen[r] >= HoldAt(r, total)

(* The rates arrive: the hold is checked against the balance read before,  *)
(* the order and its transaction are inserted and the withdrawal is sent.  *)
PriceOrder(r) ==
  /\ pc[r] = "wallet"
  /\ \E rate \in Rates :
       LET total == calculateTotalCost(rate, dto[r].amount)
       IN  IF Affordable(r, total) /\ Storable(r, total)
           THEN /\ cost' = [cost EXCEPT ![r] = total]
                /\ SendLeg(r, 1)
                /\ Goto(r, "call")
           ELSE Goto(r, "failed") /\ UNCHANGED <<cost, leg, call>>
  /\ UNCHANGED <<inputs, database, seen, balance, notified, cut, applied, raced>>

(* fulfillOrder's findOne({id, status: 'pending'}) and its owner check,    *)
(* cancelOrder's findOne, owner check and status check.                    *)

(* Mutants: no owner check; no status check.                               *)
MayFulfil_Owner(f) == status[target[f]] = "pending"
MayCancel_AnyStatus(x) == status[target[x]] # "absent" /\ caller[x] = caller[target[x]]

MayFulfil(f) == status[target[f]] = "pending" /\ caller[f] # caller[target[f]]
MayCancel(x) == status[target[x]] = "pending" /\ caller[x] = caller[target[x]]

FindOrderToFulfil(f) ==
  /\ Admitted(f)
  /\ Goto(f, IF MayFulfil(f) THEN "found" ELSE "failed")
  /\ UNCHANGED <<inputs, database, seen, cost, leg, call, balance, notified, cut, applied, raced>>

FindOrderToCancel(x) ==
  /\ Admitted(x)
  /\ Goto(x, IF MayCancel(x) THEN "checked" ELSE "failed")
  /\ UNCHANGED <<inputs, database, seen, cost, leg, call, balance, notified, cut, applied, raced>>

(* The fulfiller's wallet is read and must cover what the fulfiller pays.  *)
CanPay(f, funds) == funds >= Pay(target[f])

GetPayWallet(f) ==
  /\ pc[f] = "found"
  /\ ReadWallet(f)
  /\ Goto(f, IF CanPay(f, seen'[f]) THEN "checked" ELSE "failed")
  /\ UNCHANGED <<inputs, database, cost, leg, call, balance, notified, cut, applied>>

(* A wallet read is refused, or finds no wallet.  A create reads one       *)
(* wallet, a cancel the owner's, a fulfil two of its own and the owner's.  *)
WalletUnread(r) ==
  /\ "refuse" \in Faults
  /\ \/ r \in Creates \cup Cancels /\ Admitted(r)
     \/ r \in Fulfils /\ pc[r] \in {"found", "checked"}
  /\ Goto(r, "failed")
  /\ UNCHANGED <<inputs, database, seen, cost, leg, call, balance, notified, cut, applied, raced>>

(* Mutant: the order is updated without waiting for the row.               *)
RowFree_Always(r) == TRUE
RowFree(r) == holder[target[r]] = Free

(* The transaction of a fulfil or a cancel begins with an UPDATE of the    *)
(* order by its id alone: it waits for another transaction that holds the  *)
(* row, then overwrites whatever status that one left.                     *)
LockOrder(r) ==
  /\ pc[r] = "checked"
  /\ RowFree(r)
  /\ holder' = [holder EXCEPT ![target[r]] = r]
  /\ SendLeg(r, 1)
  /\ Goto(r, "call")
  /\ UNCHANGED <<inputs, status, txn, seen, cost, balance, notified, cut, applied, raced>>

(* The wallet service executes the update, whether or not the handler that *)
(* sent it still waits for the answer.                                     *)
WalletUpdate(r) ==
  LET l == Leg(r, leg[r])
  IN  /\ call[r] = "sent"
      /\ balance' = [balance EXCEPT ![l.user][l.cur] = @ + l.delta]
      /\ applied' = [applied EXCEPT ![r] = @ \cup {leg[r]}]
      /\ call' = [call EXCEPT ![r] = "applied"]
      /\ UNCHANGED <<inputs, database, pc, seen, cost, leg, notified, cut, raced>>

(* The update has no effect: the wallet service refuses it, or it is lost  *)
(* with the handler that sent it.                                          *)
WalletRefuse(r) ==
  /\ call[r] = "sent"
  /\ "refuse" \in Faults \/ pc[r] = "failed"
  /\ call' = [call EXCEPT ![r] = "refused"]
  /\ UNCHANGED <<inputs, database, pc, seen, cost, leg, balance, notified, cut, applied, raced>>

LegRefused(r) ==
  /\ pc[r] = "call"
  /\ call[r] = "refused"
  /\ Rollback(r)
  /\ UNCHANGED <<inputs, seen, cost, leg, call, balance, notified, cut, applied, raced>>

(* Mutants: the answer is not awaited; an error answer is not noticed.     *)
Answered_NoAwait(r) == pc[r] = "call"
Answered_AnyAnswer(r) == pc[r] = "call" /\ call[r] \in {"applied", "refused"}

(* The await of the update r sent returns.                                 *)
Answered(r) == pc[r] = "call" /\ call[r] = "applied"

NextLeg(r) ==
  /\ Answered(r)
  /\ leg[r] < LastLeg(r)
  /\ SendLeg(r, leg[r] + 1)
  /\ UNCHANGED <<inputs, database, pc, seen, cost, balance, notified, cut, applied, raced>>

(* Mutant: a fulfil neither records its transaction nor notifies.          *)
AfterLegs_Commit(r) == "commit"
AfterLegs(r) == IF r \in Fulfils THEN "record" ELSE "commit"

LegsDone(r) ==
  /\ Answered(r)
  /\ leg[r] = LastLeg(r)
  /\ Goto(r, AfterLegs(r))
  /\ UNCHANGED <<inputs, database, seen, cost, leg, call, balance, notified, cut, applied, raced>>

(* Mutant: no unique constraint.                                           *)
UQ_order_user_None(o, u) == TRUE

(* The unique constraint UQ_order_user on (order, user).                   *)
UQ_order_user(o, u) == txn[o][u] = "absent"

(* The fulfiller's transaction is inserted, unless the user has one for    *)
(* this order.  The notification is emitted before the commit.             *)
RecordFulfilment(f) ==
  /\ pc[f] = "record"
  /\ IF UQ_order_user(target[f], caller[f])
     THEN /\ Goto(f, "commit")
          /\ notified' = notified \cup {f}
          /\ UNCHANGED database
     ELSE Rollback(f) /\ UNCHANGED notified
  /\ UNCHANGED <<inputs, seen, cost, leg, call, balance, cut, applied, raced>>

CommitCreate(o) ==
  /\ status' = [status EXCEPT ![o] = "pending"]
  /\ txn' = [txn EXCEPT ![o][caller[o]] = "pending"]

CommitFulfil(f) ==
  LET o == target[f]
  IN  /\ status' = [status EXCEPT ![o] = "completed"]
      /\ txn' = [txn EXCEPT ![o] = [u \in Users |->
                   IF u \in {caller[o], caller[f]} THEN "completed" ELSE @[u]]]

(* Mutants: one of the two UPDATEs of a cancel is missing.                 *)
CommitCancel_TxnOnly(x) ==
  LET o == target[x]
  IN  txn' = [txn EXCEPT ![o][caller[o]] = "cancelled"] /\ UNCHANGED status
CommitCancel_OrderOnly(x) ==
  LET o == target[x]
  IN  status' = [status EXCEPT ![o] = "cancelled"] /\ UNCHANGED txn

CommitCancel(x) ==
  LET o == target[x]
  IN  /\ status' = [status EXCEPT ![o] = "cancelled"]
      /\ txn' = [txn EXCEPT ![o][caller[o]] = "cancelled"]

(* COMMIT is executed: the rows r wrote become visible and unlocked.       *)
CommitRows(r) ==
  /\ pc[r] = "commit"
  /\ \/ r \in Creates /\ CommitCreate(r)
     \/ r \in Fulfils /\ CommitFulfil(r)
     \/ r \in Cancels /\ CommitCancel(r)
  /\ holder' = Unlocked(r)
  /\ Goto(r, "done")
  /\ UNCHANGED <<inputs, seen, cost, leg, call, balance, notified, applied, raced>>

Commit(r) == CommitRows(r) /\ UNCHANGED cut

-------------------------------------------------------------------------------
(* Faults.                                                                 *)

(* The requests that are inside their database transaction.                *)
Open == {r \in Requests : pc[r] \in {"call", "record", "commit"}}

(* A handler ends with an error when an answer or its database connection  *)
(* is lost before PostgreSQL executed a COMMIT: the transaction is rolled  *)
(* back.  The wallet update it had sent may still be executed.             *)
Abort(r) ==
  /\ "abort" \in Faults
  /\ pc[r] \in InFlight
  /\ Rollback(r)
  /\ cut' = cut \cup ({r} \cap Open)
  /\ UNCHANGED <<inputs, seen, cost, leg, call, balance, notified, applied, raced>>

(* PostgreSQL executes the COMMIT but its answer is lost, or the service   *)
(* stops before it has it: the rows stay, and transaction() rejects.       *)
CommitUnanswered(r) ==
  /\ Faults \cap {"abort", "restart"} # {}
  /\ CommitRows(r)
  /\ cut' = cut \cup {r}

(* The order service restarts: PostgreSQL rolls back every transaction of  *)
(* its connections.                                                        *)
Restart ==
  /\ "restart" \in Faults
  /\ \E r \in Requests : pc[r] \in InFlight
  /\ pc' = [r \in Requests |-> IF pc[r] \in InFlight THEN "failed" ELSE pc[r]]
  /\ holder' = [o \in Creates |-> Free]
  /\ cut' = cut \cup Open
  /\ UNCHANGED <<inputs, status, txn, seen, cost, leg, call, balance, notified, applied, raced>>

(* Every request was served and no wallet update is under way.             *)
Quiet == \A r \in Requests : pc[r] \in Ended /\ call[r] # "sent"

HandlerStep(r) ==
  \/ r \in Creates /\ PriceOrder(r)
  \/ r \in Fulfils /\ (GetPayWallet(r) \/ RecordFulfilment(r))
  \/ r \in Resolvers /\ LockOrder(r)
  \/ NextLeg(r)
  \/ LegsDone(r)
  \/ LegRefused(r)
  \/ Commit(r)

Arrival(r) ==
  \/ r \in Creates /\ GetHoldWallet(r)
  \/ r \in Fulfils /\ FindOrderToFulfil(r)
  \/ r \in Cancels /\ FindOrderToCancel(r)

RequestStep(r) ==
  \/ Arrival(r)
  \/ HandlerStep(r)
  \/ WalletUpdate(r)
  \/ WalletUnread(r)
  \/ WalletRefuse(r)
  \/ Abort(r)
  \/ CommitUnanswered(r)

Next ==
  \/ \E r \in Requests : RequestStep(r)
  \/ Restart
  \/ Quiet /\ UNCHANGED vars

Spec == Init /\ [][Next]_vars

(* A handler whose await is answered goes on, PostgreSQL grants a free row *)
(* lock to a waiting transaction, and the wallet service answers.  Nothing *)
(* makes a user send a request, and no fault has to happen.                *)
Fairness ==
  \A r \in Requests : WF_vars(HandlerStep(r)) /\ WF_vars(WalletUpdate(r))

FairSpec == Spec /\ Fairness

-------------------------------------------------------------------------------
(* Properties.                                                             *)

Resolved == {"completed", "cancelled"}

ResolversOf(o) == {r \in Resolvers : target[r] = o}

TypeOK ==
  /\ caller \in [Requests -> Users]
  /\ target \in [Resolvers -> Creates]
  /\ dto \in [Creates -> Dto]
  /\ pc \in [Requests -> PcVal]
  /\ seen \in [Requests -> Int]
  /\ cost \in [Creates -> Int]
  /\ leg \in [Requests -> 0..3]
  /\ call \in [Requests -> CallVal]
  /\ status \in [Creates -> StatusVal]
  /\ txn \in [Creates -> [Users -> StatusVal]]
  /\ holder \in [Creates -> Resolvers \cup {Free}]
  /\ balance \in [Users -> [Currency -> Int]]
  /\ notified \subseteq Fulfils
  /\ cut \subseteq Requests
  /\ applied \in [Requests -> SUBSET (0..3)]
  /\ raced \subseteq Users \X Currency

(* An order is visible only when the withdrawal of its hold took effect,   *)
(* and a create that was rolled back leaves none, whatever fails or is     *)
(* lost: createOrder commits the rows after the withdrawal was answered.   *)
(* A create that answers with an error has left an order, which then is    *)
(* paid for, if only the answer to its COMMIT was lost.                    *)
OrdersAreFunded ==
  \A o \in Creates : /\ status[o] # "absent" => applied[o] = {1}
                     /\ pc[o] = "failed" => status[o] = "absent"

(* An order is completed or cancelled only if some fulfil or cancel of it  *)
(* committed, and every one that committed made all its wallet updates;    *)
(* only a user whose fulfil committed gets a transaction on another's      *)
(* order.  fulfillOrder and cancelOrder commit after the last answer.      *)
ResolutionIsPaid ==
  /\ \A r \in Requests : pc[r] = "done" => applied[r] = Legs(r)
  /\ \A o \in Creates :
       /\ status[o] = "completed" =>
            \E f \in Fulfils \cap ResolversOf(o) : pc[f] = "done"
       /\ status[o] = "cancelled" =>
            \E x \in Cancels \cap ResolversOf(o) : pc[x] = "done"
       /\ \A u \in Users \ {caller[o]} : txn[o][u] # "absent" =>
            \E f \in Fulfils \cap ResolversOf(o) : pc[f] = "done" /\ caller[f] = u

(* The wallet updates of a request take effect in the order of the code,   *)
(* none is skipped, and one that was not answered is the last: money is    *)
(* paid out to nobody before the fulfiller has been debited, even when     *)
(* the handler has died and its last update arrives late.                  *)
CreditOnlyAfterDebit ==
  \A r \in Requests : \A i \in applied[r] : \A j \in Legs(r) : j < i => j \in applied[r]

(* An order is listed as pending exactly while its create is committed and *)
(* nothing that resolves it is: fulfil and cancel may overtake each other, *)
(* but neither brings an order back.                                       *)
PendingMeansUnresolved ==
  \A o \in Creates :
    status[o] = "pending" <=> /\ pc[o] = "done"
                              /\ \A r \in ResolversOf(o) : pc[r] # "done"

(* The owner's transaction has the status of the order, in every state     *)
(* another request can read: the two UPDATEs commit together, and the row  *)
(* lock keeps two resolvers from interleaving theirs.                      *)
BooksAgree == \A o \in Creates : txn[o][caller[o]] = status[o]

(* While a resolver's transaction is open it holds the row of its order:   *)
(* the transactions of two resolvers of one order never overlap.           *)
TransactionsExclude ==
  \A r \in Resolvers : r \in Open <=> holder[target[r]] = r

(* A user's fulfil of an order commits at most once, however many of the   *)
(* user's requests passed the pending check (UQ_order_user).               *)
NobodyFulfilsTwice ==
  \A f, g \in Fulfils :
    f # g /\ target[f] = target[g] /\ caller[f] = caller[g]
      => pc[f] # "done" \/ pc[g] # "done"

(* The owner is notified of every fulfilment, of nothing whose three       *)
(* wallet updates did not all take effect, and of none that is rolled back *)
(* but by a fault: the emit precedes the commit, and is the last statement *)
(* that does.                                                              *)
NotificationTracksFulfilment ==
  /\ \A f \in notified : /\ applied[f] = Legs(f)
                         /\ pc[f] \in {"commit", "done"} \/ f \in cut
  /\ \A f \in Fulfils : pc[f] = "done" => f \in notified

(* The wallets that a deposit took money from: no check precedes the       *)
(* deposits of a fulfil and of a cancel, and the amount of an order may be *)
(* negative.                                                               *)
Drained ==
  {w \in Users \X Currency :
     \E r \in Resolvers : \E i \in applied[r] :
       /\ r \in Cancels \/ i > 1
       /\ <<Leg(r, i).user, Leg(r, i).cur>> = w
       /\ Leg(r, i).delta < 0}

(* A wallet goes below zero only after two debits of it overlapped, one    *)
(* request having read the balance while the debit of another, which had   *)
(* read it before, was still to come; or when somebody fulfilled or        *)
(* cancelled an order of a negative amount that deposits to it.            *)
NoOverdraftWithoutRace ==
  \A u \in Users, c \in Currency : <<u, c>> \notin raced \cup Drained => balance[u][c] >= 0

(* A request that moved money and was then rolled back was cut off by a    *)
(* fault in its transaction, or it is a fulfil that was refused a later    *)
(* update or repeats one of the same user that committed, which            *)
(* UQ_order_user tells only after the three updates.  No check of a create *)
(* or a cancel comes too late.                                             *)
StrandedHasCause ==
  \A r \in Requests :
    pc[r] = "failed" /\ applied[r] # {} =>
      \/ r \in cut
      \/ /\ r \in Fulfils
         /\ \/ call[r] = "refused"
            \/ \E f \in Fulfils \ {r} : /\ target[f] = target[r]
                                        /\ caller[f] = caller[r]
                                        /\ pc[f] = "done"

(* A fulfil or a cancel that arrives when its order is already resolved    *)
(* never commits: an order is resolved twice only by requests that overlap.*)
LateResolverFails ==
  \A r \in Resolvers :
    [](pc[r] = "new" /\ status[target[r]] \in Resolved => [](pc[r] # "done"))

(* A request that is being served ends: no request waits for a row lock,   *)
(* or for another request, for ever.                                       *)
EveryRequestEnds ==
  \A r \in Requests : pc[r] \in InFlight ~> pc[r] \in Ended

-------------------------------------------------------------------------------
(* What the code's checks are for, and what overlapping requests break.    *)

(* "Insufficient balance in ... wallet": no request is served that would   *)
(* take a wallet below zero (createOrder, fulfillOrder).                   *)
NoOverdraft == \A u \in Users, c \in Currency : balance[u][c] >= 0

(* "Invalid order": only a pending order is cancelled (cancelOrder).       *)
OnlyPendingIsCancelled ==
  [][\A x \in Cancels : pc[x] # "done" /\ pc'[x] = "done"
                          => status[target[x]] = "pending"]_vars

(* "Order not found": only a pending order is fulfilled (fulfillOrder).    *)
OnlyPendingIsFulfilled ==
  [][\A f \in Fulfils : pc[f] # "done" /\ pc'[f] = "done"
                          => status[target[f]] = "pending"]_vars

===============================================================================
