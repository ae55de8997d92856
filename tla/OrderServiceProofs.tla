-------------------------- MODULE OrderServiceProofs --------------------------
(***************************************************************************)
(* Theorems of the order service, for any number of users, requests and    *)
(* orders, any amounts and rates, and any set of faults.                   *)
(***************************************************************************)
EXTENDS OrderService, TLAPS

USE RequestAssumption DEF Resolvers, Requests

-------------------------------------------------------------------------------
(* What the rounding of the order columns does to an amount.               *)

(* The quote currency is a currency, another one, and Other goes back.     *)
LEMMA OtherCurrency ==
  ASSUME NEW c \in Currency
  PROVE  Other(c) \in Currency /\ Other(c) # c /\ Other(Other(c)) = c
BY DEF Currency, Other

LEMMA HalfUpRounds ==
  ASSUME NEW x \in Nat
  PROVE  /\ HalfUp(x) \in Nat
         /\ 2 * (HalfUp(x) - x) <= Cent
         /\ 2 * (x - HalfUp(x)) < Cent
         /\ 2 * x >= Cent => HalfUp(x) > 0
<1>1. Cent \in Nat /\ Cent > 0
  BY CentAssumption
<1>2. PICK m \in 0..(Cent - 1) : m = x % Cent
  BY <1>1
<1>3. m <= x
  <2>1. x = Cent * (x \div Cent) + m /\ x \div Cent \in Int
    BY <1>1, <1>2
  <2>2. x \div Cent >= 0
    BY <1>1
  <2>3. Cent * (x \div Cent) >= 0
    BY <1>1, <2>1, <2>2
  <2> QED BY <1>1, <2>1, <2>3
<1> QED BY <1>1, <1>2, <1>3 DEF HalfUp, Truncated

(* A column stores a whole number of units at most half a cent away from   *)
(* the amount written to it, whatever the sign of the amount; it keeps the *)
(* sign, and stores no amount of at least half a cent as nothing.          *)
THEOREM CentsRounds ==
  ASSUME NEW x \in Int
  PROVE  /\ Cents(x) \in Int
         /\ 2 * (Cents(x) - x) <= Cent
         /\ 2 * (x - Cents(x)) <= Cent
         /\ x >= 0 => Cents(x) >= 0
         /\ x <= 0 => Cents(x) <= 0
         /\ 2 * x >= Cent => Cents(x) > 0
         /\ 2 * x <= -Cent => Cents(x) < 0
<1>1. Cent \in Nat /\ Cent > 0
  BY CentAssumption
<1>2. CASE x > 0
  BY <1>1, <1>2, HalfUpRounds DEF Cents
<1>3. CASE x < 0
  <2>1. -x \in Nat
    BY <1>3
  <2>2. Cents(x) = -HalfUp(-x)
    BY <1>3 DEF Cents
  <2> QED BY <1>1, <1>3, <2>1, <2>2, HalfUpRounds
<1>4. CASE x = 0
  <2>1. HalfUp(0) = 0
    BY <1>1 DEF HalfUp, Truncated
  <2> QED BY <1>1, <1>4, <2>1 DEF Cents
<1> QED BY <1>2, <1>3, <1>4

-------------------------------------------------------------------------------
(* The money an order moves is a whole number of units.                    *)

LEMMA TotalCostIsInt ==
  ASSUME NEW rate \in Rates, NEW amount \in Amounts
  PROVE  calculateTotalCost(rate, amount) \in Int
<1>1. rate * amount \in Int
  BY AmountAssumption
<1> QED BY <1>1, AmountAssumption DEF calculateTotalCost

LEMMA OrderMoney ==
  ASSUME TypeOK, NEW o \in Creates
  PROVE  /\ dto[o].amount \in Int /\ cost[o] \in Int
         /\ HoldCur(o) \in Currency /\ PayCur(o) \in Currency
         /\ Hold(o) \in Int /\ Pay(o) \in Int /\ Payout(o) \in Int /\ StoredCost(o) \in Int
<1>1. dto[o] \in Dto /\ cost[o] \in Int
  BY DEF TypeOK
<1>2. dto[o].amount \in Int /\ dto[o].base \in Currency
  BY <1>1, AmountAssumption DEF Dto
<1>3. Cents(dto[o].amount) \in Int /\ Cents(cost[o]) \in Int
  BY <1>1, <1>2, CentsRounds
<1>4. HoldCur(o) \in Currency
  BY <1>2, OtherCurrency DEF HoldCur, Quote
<1>5. PayCur(o) \in Currency
  BY <1>4, OtherCurrency DEF PayCur
<1> QED BY <1>1, <1>2, <1>3, <1>4, <1>5 DEF Hold, HoldAt, Pay, Payout, StoredCost, StoredAmount

LEMMA LegType ==
  ASSUME TypeOK, NEW r \in Requests, NEW i \in 0..3
  PROVE  Leg(r, i) \in [user : Users, cur : Currency, delta : Int]
<1>1. CASE r \in Creates
  <2>1. caller[r] \in Users
    BY DEF TypeOK
  <2> QED BY <1>1, <2>1, OrderMoney DEF Leg, CreateLeg, Update
<1>2. CASE r \in Resolvers
  <2> DEFINE o == target[r]
  <2>1. o \in Creates /\ caller[r] \in Users /\ caller[o] \in Users
    BY <1>2 DEF TypeOK
  <2>2. /\ HoldCur(o) \in Currency /\ PayCur(o) \in Currency
        /\ Pay(o) \in Int /\ Payout(o) \in Int /\ StoredCost(o) \in Int
    BY <2>1, OrderMoney
  <2> QED BY <1>2, <2>1, <2>2 DEF Leg, FulfilLeg, CancelLeg, Update
<1> QED BY <1>1, <1>2

-------------------------------------------------------------------------------
(* No step changes what was asked.                                         *)
LEMMA InputsKept == [Next]_vars => UNCHANGED inputs
<1>1. ASSUME NEW r \in Requests, Arrival(r) PROVE UNCHANGED inputs
  BY <1>1 DEF Arrival, GetHoldWallet, FindOrderToFulfil, FindOrderToCancel
<1>2. ASSUME NEW r \in Requests, HandlerStep(r) PROVE UNCHANGED inputs
  BY <1>2 DEF HandlerStep, PriceOrder, GetPayWallet, LockOrder, LegRefused, NextLeg, LegsDone,
              RecordFulfilment, Commit, CommitRows
<1>3. ASSUME NEW r \in Requests,
             WalletUpdate(r) \/ WalletUnread(r) \/ WalletRefuse(r) \/ Abort(r)
             \/ CommitUnanswered(r)
      PROVE  UNCHANGED inputs
  BY <1>3 DEF WalletUpdate, WalletUnread, WalletRefuse, Abort, CommitUnanswered, CommitRows
<1>4. Restart \/ UNCHANGED vars => UNCHANGED inputs
  BY DEF Restart, vars, inputs
<1> QED BY <1>1, <1>2, <1>3, <1>4 DEF Next, RequestStep

LEMMA InitTypeOK == Init => TypeOK
BY AmountAssumption DEF Init, TypeOK, PcVal, CallVal, StatusVal

(* The variables keep their types.                                         *)
LEMMA TypeStep == TypeOK /\ [Next]_vars => TypeOK'
<1> SUFFICES ASSUME TypeOK, [Next]_vars PROVE TypeOK'
  OBVIOUS
<1> USE DEF inputs, database, PcVal, InFlight, Ended, CallVal, StatusVal
<1>1. ASSUME NEW r \in Creates, GetHoldWallet(r) PROVE TypeOK'
  <2>1. DebitWallet(r) \in Users \X Currency /\ balance[caller[r]][DebitCur(r)] \in Int
    BY OrderMoney DEF TypeOK, DebitWallet, DebitCur
  <2> QED BY <1>1, <2>1 DEF TypeOK, GetHoldWallet, ReadWallet, Goto
<1>2. ASSUME NEW r \in Creates, PriceOrder(r) PROVE TypeOK'
  <2> PICK rate \in Rates :
        LET total == calculateTotalCost(rate, dto[r].amount)
        IN  IF Affordable(r, total) /\ Storable(r, total)
            THEN /\ cost' = [cost EXCEPT ![r] = total]
                 /\ SendLeg(r, 1)
                 /\ Goto(r, "call")
            ELSE Goto(r, "failed") /\ UNCHANGED <<cost, leg, call>>
    BY <1>2 DEF PriceOrder
  <2>1. calculateTotalCost(rate, dto[r].amount) \in Int
    BY TotalCostIsInt DEF TypeOK, Dto
  <2> DEFINE total == calculateTotalCost(rate, dto[r].amount)
  <2>2. CASE Affordable(r, total) /\ Storable(r, total)
    <3>1. /\ cost' = [cost EXCEPT ![r] = total]
          /\ leg' = [leg EXCEPT ![r] = 1]
          /\ call' = [call EXCEPT ![r] = "sent"]
          /\ pc' = [pc EXCEPT ![r] = "call"]
      BY <2>2 DEF SendLeg, Goto
    <3> HIDE DEF total
    <3> QED BY <1>2, <2>1, <3>1 DEF TypeOK, PriceOrder
  <2>3. CASE ~(Affordable(r, total) /\ Storable(r, total))
    <3>1. pc' = [pc EXCEPT ![r] = "failed"] /\ UNCHANGED <<cost, leg, call>>
      BY <2>3 DEF Goto
    <3> QED BY <1>2, <3>1 DEF TypeOK, PriceOrder
  <2> QED BY <2>2, <2>3
<1>3. ASSUME NEW r \in Fulfils, FindOrderToFulfil(r) PROVE TypeOK'
  BY <1>3 DEF TypeOK, FindOrderToFulfil, Goto
<1>4. ASSUME NEW r \in Cancels, FindOrderToCancel(r) PROVE TypeOK'
  BY <1>4 DEF TypeOK, FindOrderToCancel, Goto
<1>5. ASSUME NEW r \in Fulfils, GetPayWallet(r) PROVE TypeOK'
  <2>1. target[r] \in Creates /\ r \notin Creates
    BY DEF TypeOK
  <2>2. DebitWallet(r) \in Users \X Currency /\ balance[caller[r]][DebitCur(r)] \in Int
    BY <2>1, OrderMoney DEF TypeOK, DebitWallet, DebitCur
  <2> QED BY <1>5, <2>2 DEF TypeOK, GetPayWallet, ReadWallet, Goto
<1>6. ASSUME NEW r \in Resolvers, LockOrder(r) PROVE TypeOK'
  BY <1>6 DEF TypeOK, LockOrder, SendLeg, Goto
<1>7. ASSUME NEW r \in Requests, WalletUpdate(r) PROVE TypeOK'
  <2>1. /\ leg[r] \in 0..3
        /\ Leg(r, leg[r]) \in [user : Users, cur : Currency, delta : Int]
    BY LegType DEF TypeOK
  <2> DEFINE l == Leg(r, leg[r])
  <2>2. l.user \in Users /\ l.cur \in Currency /\ l.delta \in Int
    BY <2>1
  <2> HIDE DEF l
  <2>3. balance' \in [Users -> [Currency -> Int]]
    BY <1>7, <2>2 DEF TypeOK, WalletUpdate, l
  <2>4. applied' \in [Requests -> SUBSET (0..3)]
    BY <1>7 DEF TypeOK, WalletUpdate
  <2>5. call' \in [Requests -> CallVal]
    BY <1>7 DEF TypeOK, WalletUpdate
  <2> QED BY <1>7, <2>3, <2>4, <2>5 DEF TypeOK, WalletUpdate
<1>8. ASSUME NEW r \in Requests, WalletRefuse(r) PROVE TypeOK'
  BY <1>8 DEF TypeOK, WalletRefuse
<1>17. ASSUME NEW r \in Requests, WalletUnread(r) PROVE TypeOK'
  BY <1>17 DEF TypeOK, WalletUnread, Goto
<1>9. ASSUME NEW r \in Requests, LegRefused(r) PROVE TypeOK'
  BY <1>9 DEF TypeOK, LegRefused, Rollback, Unlocked, Goto
<1>10. ASSUME NEW r \in Requests, NextLeg(r) PROVE TypeOK'
  <2>1. leg[r] \in 0..3 /\ LastLeg(r) \in {1, 3} /\ leg[r] < LastLeg(r)
    BY <1>10 DEF TypeOK, NextLeg, LastLeg
  <2>2. leg[r] + 1 \in 0..3
    BY <2>1
  <2> QED BY <1>10, <2>2 DEF TypeOK, NextLeg, SendLeg
<1>11. ASSUME NEW r \in Requests, LegsDone(r) PROVE TypeOK'
  BY <1>11 DEF TypeOK, LegsDone, AfterLegs, Goto
<1>12. ASSUME NEW r \in Fulfils, RecordFulfilment(r) PROVE TypeOK'
  <2>1. /\ \/ pc' = [pc EXCEPT ![r] = "commit"] /\ holder' = holder
           \/ pc' = [pc EXCEPT ![r] = "failed"] /\ holder' = Unlocked(r)
        /\ notified' = notified \/ notified' = notified \cup {r}
    BY <1>12 DEF RecordFulfilment, Rollback, Goto
  <2>2. pc' \in [Requests -> PcVal]
    BY <1>12, <2>1 DEF TypeOK
  <2>4. holder' \in [Creates -> Resolvers \cup {Free}]
    BY <1>12, <2>1 DEF TypeOK, Unlocked
  <2>5. notified' \subseteq Fulfils
    BY <1>12, <2>1 DEF TypeOK
  <2>3. UNCHANGED <<inputs, status, txn, seen, cost, leg, call, balance, cut, applied, raced>>
    BY <1>12 DEF RecordFulfilment, Rollback
  <2> QED BY <2>2, <2>3, <2>4, <2>5 DEF TypeOK
<1>13. ASSUME NEW r \in Requests, CommitRows(r), cut' = cut \/ cut' = cut \cup {r}
       PROVE  TypeOK'
  <2>1. status' \in [Creates -> StatusVal] /\ txn' \in [Creates -> [Users -> StatusVal]]
    <3>1. CASE r \in Creates /\ CommitCreate(r)
      BY <3>1 DEF TypeOK, CommitCreate
    <3>2. CASE r \in Fulfils /\ CommitFulfil(r)
      BY <3>2 DEF TypeOK, CommitFulfil
    <3>3. CASE r \in Cancels /\ CommitCancel(r)
      BY <3>3 DEF TypeOK, CommitCancel
    <3> QED BY <1>13, <3>1, <3>2, <3>3 DEF CommitRows
  <2>2. pc' \in [Requests -> PcVal] /\ holder' \in [Creates -> Resolvers \cup {Free}]
    BY <1>13 DEF TypeOK, CommitRows, Unlocked, Goto
  <2> QED BY <1>13, <2>1, <2>2 DEF TypeOK, CommitRows
<1>14. ASSUME NEW r \in Requests, Abort(r) PROVE TypeOK'
  BY <1>14 DEF TypeOK, Abort, Rollback, Unlocked, Open, Goto
<1>15. CASE Restart
  BY <1>15 DEF TypeOK, Restart, Open
<1>16. CASE UNCHANGED vars
  BY <1>16 DEF TypeOK, vars
<1> QED
  BY <1>1, <1>2, <1>3, <1>4, <1>5, <1>6, <1>7, <1>8, <1>9, <1>10, <1>11, <1>12, <1>13,
     <1>14, <1>15, <1>16, <1>17
     DEF Next, RequestStep, Arrival, HandlerStep, Commit, CommitUnanswered

(* Types, for every reachable state.                                       *)
THEOREM TypeCorrect == Spec => []TypeOK
<1> QED BY InitTypeOK, TypeStep, PTL DEF Spec

-------------------------------------------------------------------------------
(* The wallet updates of a request.                                        *)

(* Where a handler is, the state of its last update and the updates that   *)
(* took effect determine each other: legs 1 .. leg[r] were sent one after  *)
(* the other, and all but perhaps the last took effect.                    *)
ControlOf(r) ==
  /\ pc[r] = "wallet" => r \in Creates
  /\ pc[r] \in {"found", "record"} => r \in Fulfils
  /\ pc[r] = "checked" => r \in Resolvers
  /\ pc[r] \in {"new", "wallet", "found", "checked"} => call[r] = "none"
  /\ pc[r] = "call" => call[r] # "none"
  /\ pc[r] \in {"record", "commit", "done"} => call[r] = "applied" /\ leg[r] = LastLeg(r)
  /\ call[r] = "none" => leg[r] = 0
  /\ call[r] # "none" => leg[r] \in 1..LastLeg(r)
  /\ applied[r] = 1..(IF call[r] = "applied" THEN leg[r] ELSE leg[r] - 1)

Control == \A r \in Requests : ControlOf(r)

(* A step of request r leaves the control of the others alone.             *)
LEMMA ControlFrame ==
  ASSUME Control, NEW r \in Requests, ControlOf(r)',
         \A q \in Requests \ {r} : /\ pc'[q] = pc[q] /\ call'[q] = call[q]
                                   /\ leg'[q] = leg[q] /\ applied'[q] = applied[q]
  PROVE  Control'
BY DEF Control, ControlOf, LastLeg

LEMMA InitControl == Init => Control
BY DEF Init, Control, ControlOf, LastLeg

LEMMA ControlStep == TypeOK /\ Control /\ [Next]_vars => Control'
<1> SUFFICES ASSUME TypeOK, Control, [Next]_vars PROVE Control'
  OBVIOUS
<1> USE DEF Goto
<1>0. \A r \in Requests : /\ ControlOf(r) /\ LastLeg(r) \in {1, 3}
                          /\ leg[r] \in 0..3 /\ call[r] \in CallVal
  BY DEF Control, LastLeg, TypeOK
<1>1. ASSUME NEW r \in Creates, GetHoldWallet(r) PROVE Control'
  <2>1. ControlOf(r)'
    BY <1>0, <1>1 DEF GetHoldWallet, Admitted, ControlOf, LastLeg, TypeOK
  <2> QED BY <1>1, <2>1, ControlFrame DEF GetHoldWallet, TypeOK
<1>2. ASSUME NEW r \in Creates, PriceOrder(r) PROVE Control'
  <2>1. /\ pc[r] = "wallet" /\ UNCHANGED applied
        /\ \/ /\ leg' = [leg EXCEPT ![r] = 1]
              /\ call' = [call EXCEPT ![r] = "sent"]
              /\ pc' = [pc EXCEPT ![r] = "call"]
           \/ pc' = [pc EXCEPT ![r] = "failed"] /\ UNCHANGED <<leg, call>>
    BY <1>2 DEF PriceOrder, SendLeg
  <2>2. ControlOf(r)'
    BY <1>0, <1>2, <2>1 DEF ControlOf, LastLeg, TypeOK
  <2> QED BY <1>2, <2>1, <2>2, ControlFrame DEF TypeOK
<1>3. ASSUME NEW r \in Fulfils, FindOrderToFulfil(r) PROVE Control'
  <2>1. ControlOf(r)'
    BY <1>0, <1>3 DEF FindOrderToFulfil, Admitted, ControlOf, LastLeg, TypeOK
  <2> QED BY <1>3, <2>1, ControlFrame DEF FindOrderToFulfil, TypeOK
<1>4. ASSUME NEW r \in Cancels, FindOrderToCancel(r) PROVE Control'
  <2>1. ControlOf(r)'
    BY <1>0, <1>4 DEF FindOrderToCancel, Admitted, ControlOf, LastLeg, TypeOK
  <2> QED BY <1>4, <2>1, ControlFrame DEF FindOrderToCancel, TypeOK
<1>5. ASSUME NEW r \in Fulfils, GetPayWallet(r) PROVE Control'
  <2>1. ControlOf(r)'
    BY <1>0, <1>5 DEF GetPayWallet, ControlOf, LastLeg, TypeOK
  <2> QED BY <1>5, <2>1, ControlFrame DEF GetPayWallet, TypeOK
<1>6. ASSUME NEW r \in Resolvers, LockOrder(r) PROVE Control'
  <2>1. /\ pc[r] = "checked" /\ UNCHANGED applied
        /\ leg' = [leg EXCEPT ![r] = 1]
        /\ call' = [call EXCEPT ![r] = "sent"]
        /\ pc' = [pc EXCEPT ![r] = "call"]
    BY <1>6 DEF LockOrder, SendLeg
  <2>2. applied[r] = 1..0 /\ LastLeg(r) \in {1, 3}
    BY <1>0, <1>6, <2>1 DEF ControlOf
  <2>3. ControlOf(r)'
    <3>1. r \in Requests /\ leg'[r] = 1 /\ call'[r] = "sent" /\ pc'[r] = "call"
      BY <1>6, <2>1 DEF TypeOK
    <3> QED BY <2>1, <2>2, <3>1 DEF ControlOf, LastLeg
  <2> QED BY <1>6, <2>1, <2>3, ControlFrame DEF TypeOK
<1>7. ASSUME NEW r \in Requests, WalletUpdate(r) PROVE Control'
  <2>1. /\ call[r] = "sent" /\ UNCHANGED <<pc, leg>>
        /\ call' = [call EXCEPT ![r] = "applied"]
        /\ applied' = [applied EXCEPT ![r] = @ \cup {leg[r]}]
    BY <1>7 DEF WalletUpdate
  <2>2. applied'[r] = 1..leg[r]
    <3>1. leg[r] \in 1..3 /\ applied[r] = 1..(leg[r] - 1)
      BY <1>0, <1>7, <2>1 DEF ControlOf
    <3>2. applied'[r] = applied[r] \cup {leg[r]}
      BY <1>7, <2>1 DEF TypeOK
    <3> QED BY <3>1, <3>2
  <2>3. ControlOf(r)'
    BY <1>0, <1>7, <2>1, <2>2 DEF ControlOf, LastLeg, TypeOK
  <2> QED BY <1>7, <2>1, <2>3, ControlFrame DEF TypeOK
<1>8. ASSUME NEW r \in Requests, WalletRefuse(r) PROVE Control'
  <2>1. ControlOf(r)'
    BY <1>0, <1>8 DEF WalletRefuse, ControlOf, LastLeg, TypeOK
  <2> QED BY <1>8, <2>1, ControlFrame DEF WalletRefuse, TypeOK
<1>17. ASSUME NEW r \in Requests, WalletUnread(r) PROVE Control'
  <2>1. ControlOf(r)'
    BY <1>0, <1>17 DEF WalletUnread, Admitted, ControlOf, LastLeg, TypeOK
  <2> QED BY <1>17, <2>1, ControlFrame DEF WalletUnread, TypeOK
<1>9. ASSUME NEW r \in Requests, LegRefused(r) PROVE Control'
  <2>1. ControlOf(r)'
    BY <1>0, <1>9 DEF LegRefused, Rollback, ControlOf, LastLeg, TypeOK
  <2> QED BY <1>9, <2>1, ControlFrame DEF LegRefused, Rollback, TypeOK
<1>10. ASSUME NEW r \in Requests, NextLeg(r) PROVE Control'
  <2>1. /\ leg[r] \in 1..3 /\ leg[r] + 1 \in 2..LastLeg(r) /\ applied[r] = 1..leg[r]
        /\ pc[r] = "call" /\ UNCHANGED <<pc, applied>>
        /\ leg' = [leg EXCEPT ![r] = leg[r] + 1]
        /\ call' = [call EXCEPT ![r] = "sent"]
    BY <1>0, <1>10 DEF NextLeg, Answered, SendLeg, ControlOf
  <2>2. ControlOf(r)'
    BY <1>0, <1>10, <2>1 DEF ControlOf, LastLeg, TypeOK
  <2> QED BY <1>10, <2>1, <2>2, ControlFrame DEF TypeOK
<1>11. ASSUME NEW r \in Requests, LegsDone(r) PROVE Control'
  <2>1. ControlOf(r)'
    BY <1>0, <1>11 DEF LegsDone, Answered, AfterLegs, ControlOf, LastLeg, TypeOK
  <2> QED BY <1>11, <2>1, ControlFrame DEF LegsDone, TypeOK
<1>12. ASSUME NEW r \in Fulfils, RecordFulfilment(r) PROVE Control'
  <2>1. /\ pc[r] = "record" /\ UNCHANGED <<call, leg, applied>>
        /\ \/ pc' = [pc EXCEPT ![r] = "commit"]
           \/ pc' = [pc EXCEPT ![r] = "failed"]
    BY <1>12 DEF RecordFulfilment, Rollback
  <2>2. ControlOf(r)'
    BY <1>0, <1>12, <2>1 DEF ControlOf, LastLeg, TypeOK
  <2> QED BY <1>12, <2>1, <2>2, ControlFrame DEF TypeOK
<1>13. ASSUME NEW r \in Requests, CommitRows(r) PROVE Control'
  <2>1. ControlOf(r)'
    BY <1>0, <1>13 DEF CommitRows, ControlOf, LastLeg, TypeOK
  <2> QED BY <1>13, <2>1, ControlFrame DEF CommitRows, TypeOK
<1>14. ASSUME NEW r \in Requests, Abort(r) PROVE Control'
  <2>1. ControlOf(r)'
    BY <1>0, <1>14 DEF Abort, Rollback, ControlOf, LastLeg, TypeOK
  <2> QED BY <1>14, <2>1, ControlFrame DEF Abort, Rollback, TypeOK
<1>15. CASE Restart
  BY <1>0, <1>15 DEF Restart, InFlight, Control, ControlOf, LastLeg
<1>16. CASE UNCHANGED vars
  BY <1>16 DEF Control, ControlOf, LastLeg, vars
<1> QED
  BY <1>1, <1>2, <1>3, <1>4, <1>5, <1>6, <1>7, <1>8, <1>9, <1>10, <1>11, <1>12, <1>13,
     <1>14, <1>15, <1>16, <1>17
     DEF Next, RequestStep, Arrival, HandlerStep, Commit, CommitUnanswered

(* No credit before the debit: the updates of a request take effect in the *)
(* order of the code and none is skipped, whatever fails.                  *)
THEOREM DebitFirst == Spec => []CreditOnlyAfterDebit
<1>1. TypeOK /\ Control => CreditOnlyAfterDebit
  <2> SUFFICES ASSUME TypeOK, Control, NEW r \in Requests, NEW i \in applied[r],
                      NEW j \in Legs(r), j < i
               PROVE  j \in applied[r]
    BY DEF CreditOnlyAfterDebit
  <2>1. leg[r] \in 0..3 /\ applied[r] = 1..(IF call[r] = "applied" THEN leg[r] ELSE leg[r] - 1)
    BY DEF TypeOK, Control, ControlOf
  <2>2. j \in 1..3
    BY DEF Legs
  <2> QED BY <2>1, <2>2
<1> QED
  BY <1>1, InitTypeOK, TypeStep, InitControl, ControlStep, PTL DEF Spec

-------------------------------------------------------------------------------
(* The row locks.                                                          *)

InTx(r) == pc[r] \in {"call", "record", "commit"}

(* A step that takes and releases no lock, and one that ends r's           *)
(* transaction, if it has one.                                             *)
LEMMA LockFrame ==
  ASSUME TransactionsExclude, UNCHANGED <<target, holder>>,
         \A q \in Resolvers : InTx(q)' <=> InTx(q)
  PROVE  TransactionsExclude'
BY DEF TransactionsExclude, InTx, Open

LEMMA LockRelease ==
  ASSUME TypeOK, TransactionsExclude, NEW r \in Requests, holder' = Unlocked(r),
         target' = target, ~InTx(r)',
         \A q \in Resolvers \ {r} : InTx(q)' <=> InTx(q)
  PROVE  TransactionsExclude'
<1> SUFFICES ASSUME NEW q \in Resolvers PROVE InTx(q)' <=> holder'[target[q]] = q
  BY DEF TransactionsExclude, InTx, Open
<1>1. target[q] \in Creates /\ (InTx(q) <=> holder[target[q]] = q)
  BY DEF TypeOK, TransactionsExclude, InTx, Open
<1>2. holder'[target[q]] = IF holder[target[q]] = r THEN Free ELSE holder[target[q]]
  BY <1>1 DEF Unlocked
<1> QED BY <1>1, <1>2

LEMMA InitLocks == Init => TransactionsExclude
BY DEF Init, TransactionsExclude, Open

LEMMA LockStep == TypeOK /\ Control /\ TransactionsExclude /\ [Next]_vars => TransactionsExclude'
<1> SUFFICES ASSUME TypeOK, Control, TransactionsExclude, [Next]_vars
             PROVE  TransactionsExclude'
  OBVIOUS
<1> USE DEF Goto, inputs, database
<1>0. pc \in [Requests -> PcVal]
  BY DEF TypeOK
<1>1. ASSUME NEW r \in Creates, GetHoldWallet(r) PROVE TransactionsExclude'
  BY <1>0, <1>1, LockFrame DEF GetHoldWallet, InTx
<1>2. ASSUME NEW r \in Creates, PriceOrder(r) PROVE TransactionsExclude'
  <2>1. UNCHANGED <<target, holder>> /\ \A q \in Requests \ {r} : pc'[q] = pc[q]
    BY <1>0, <1>2 DEF PriceOrder
  <2> QED BY <1>2, <2>1, LockFrame DEF InTx
<1>3. ASSUME NEW r \in Fulfils, FindOrderToFulfil(r) PROVE TransactionsExclude'
  BY <1>0, <1>3, LockFrame DEF FindOrderToFulfil, Admitted, InTx
<1>4. ASSUME NEW r \in Cancels, FindOrderToCancel(r) PROVE TransactionsExclude'
  BY <1>0, <1>4, LockFrame DEF FindOrderToCancel, Admitted, InTx
<1>5. ASSUME NEW r \in Fulfils, GetPayWallet(r) PROVE TransactionsExclude'
  BY <1>0, <1>5, LockFrame DEF GetPayWallet, InTx
<1>6. ASSUME NEW r \in Resolvers, LockOrder(r) PROVE TransactionsExclude'
  <2>1. /\ holder[target[r]] = Free
        /\ holder' = [holder EXCEPT ![target[r]] = r]
        /\ pc' = [pc EXCEPT ![r] = "call"] /\ target' = target
    BY <1>6 DEF LockOrder, RowFree
  <2> SUFFICES ASSUME NEW q \in Resolvers PROVE InTx(q)' <=> holder'[target[q]] = q
    BY <2>1 DEF TransactionsExclude, InTx, Open
  <2>2. target[q] \in Creates /\ target[r] \in Creates /\ holder \in [Creates -> Resolvers \cup {Free}]
    BY <1>6 DEF TypeOK
  <2>3. InTx(q) <=> holder[target[q]] = q
    BY DEF TransactionsExclude, InTx, Open
  <2>4. CASE q = r
    BY <1>0, <1>6, <2>1, <2>2, <2>4 DEF InTx
  <2>5. CASE q # r
    <3>1. InTx(q)' <=> InTx(q)
      BY <1>0, <1>6, <2>1, <2>5 DEF InTx
    <3>2. holder[target[q]] = q => target[q] # target[r]
      BY <2>1
    <3> QED BY <2>1, <2>2, <2>3, <2>5, <3>1, <3>2
  <2> QED BY <2>4, <2>5
<1>7. ASSUME NEW r \in Requests, WalletUpdate(r) PROVE TransactionsExclude'
  BY <1>7, LockFrame DEF WalletUpdate, InTx
<1>8. ASSUME NEW r \in Requests, WalletRefuse(r) PROVE TransactionsExclude'
  BY <1>8, LockFrame DEF WalletRefuse, InTx
<1>17. ASSUME NEW r \in Requests, WalletUnread(r) PROVE TransactionsExclude'
  BY <1>0, <1>17, LockFrame DEF WalletUnread, Admitted, InTx
<1>9. ASSUME NEW r \in Requests, LegRefused(r) PROVE TransactionsExclude'
  BY <1>0, <1>9, LockRelease DEF LegRefused, Rollback, InTx
<1>10. ASSUME NEW r \in Requests, NextLeg(r) PROVE TransactionsExclude'
  BY <1>10, LockFrame DEF NextLeg, InTx
<1>11. ASSUME NEW r \in Requests, LegsDone(r) PROVE TransactionsExclude'
  BY <1>0, <1>11, LockFrame DEF LegsDone, Answered, AfterLegs, InTx
<1>12. ASSUME NEW r \in Fulfils, RecordFulfilment(r) PROVE TransactionsExclude'
  <2>1. CASE UQ_order_user(target[r], caller[r])
    BY <1>0, <1>12, <2>1, LockFrame DEF RecordFulfilment, InTx
  <2>2. CASE ~UQ_order_user(target[r], caller[r])
    BY <1>0, <1>12, <2>2, LockRelease DEF RecordFulfilment, Rollback, InTx
  <2> QED BY <2>1, <2>2
<1>13. ASSUME NEW r \in Requests, CommitRows(r) PROVE TransactionsExclude'
  BY <1>0, <1>13, LockRelease DEF CommitRows, InTx
<1>14. ASSUME NEW r \in Requests, Abort(r) PROVE TransactionsExclude'
  BY <1>0, <1>14, LockRelease DEF Abort, Rollback, InTx
<1>15. CASE Restart
  <2>1. \A q \in Resolvers : ~InTx(q)' /\ holder'[target[q]] = Free /\ target' = target
    BY <1>0, <1>15 DEF Restart, InFlight, InTx, TypeOK
  <2> QED BY <2>1 DEF TransactionsExclude, InTx, Open
<1>16. CASE UNCHANGED vars
  BY <1>16, LockFrame DEF vars, InTx
<1> QED
  BY <1>1, <1>2, <1>3, <1>4, <1>5, <1>6, <1>7, <1>8, <1>9, <1>10, <1>11, <1>12, <1>13,
     <1>14, <1>15, <1>16, <1>17
     DEF Next, RequestStep, Arrival, HandlerStep, Commit, CommitUnanswered

(* The transactions of two resolvers of one order never overlap.           *)
THEOREM RowLocksExclude == Spec => []TransactionsExclude
BY InitTypeOK, TypeStep, InitControl, ControlStep, InitLocks, LockStep, PTL DEF Spec

-------------------------------------------------------------------------------
(* The order and transaction tables.                                       *)

Done(r) == pc[r] = "done"
Engaged(r) == pc[r] \notin {"new", "failed"} \/ call[r] # "none"

(* An order exists when its create is committed.                           *)
Listed == \A o \in Creates : status[o] = "absent" <=> ~Done(o)

(* A resolver that passed its first check found an order, of another user  *)
(* if it is a fulfil and of its caller if it is a cancel; so did one that  *)
(* has failed since but has sent a wallet update.                          *)
EngagedOnly ==
  \A r \in Resolvers : Engaged(r) =>
    status[target[r]] # "absent" /\ (r \in Cancels <=> caller[r] = caller[target[r]])

(* What resolved an order.                                                 *)
ResolvedBy ==
  \A o \in Creates :
    /\ status[o] = "completed" => \E f \in Fulfils \cap ResolversOf(o) : Done(f)
    /\ status[o] = "cancelled" => \E x \in Cancels \cap ResolversOf(o) : Done(x)

(* The users who have a transaction on another user's order are those      *)
(* whose fulfil of it committed.                                           *)
FulfilledBy(o, u) == \E f \in Fulfils \cap ResolversOf(o) : Done(f) /\ caller[f] = u

TxnBy ==
  \A o \in Creates : \A u \in Users \ {caller[o]} : txn[o][u] # "absent" <=> FulfilledBy(o, u)

Books ==
  /\ Listed /\ EngagedOnly /\ PendingMeansUnresolved /\ ResolvedBy /\ BooksAgree
  /\ TxnBy /\ NobodyFulfilsTwice

(* A fulfil about to commit is the first of its user: it holds the row.    *)
Fresh == \A f \in Fulfils : pc[f] = "commit" => txn[target[f]][caller[f]] = "absent"

(* Every step but a commit leaves the tables alone, and a request engages  *)
(* only after its first check.                                             *)
LEMMA BooksFrame ==
  ASSUME Books, UNCHANGED <<status, txn, caller, target>>,
         \A q \in Requests : Done(q)' <=> Done(q),
         \A q \in Resolvers : Engaged(q)' =>
           \/ Engaged(q)
           \/ status[target[q]] # "absent" /\ (q \in Cancels <=> caller[q] = caller[target[q]])
  PROVE  Books'
<1>1. Listed' /\ EngagedOnly'
  BY DEF Books, Listed, EngagedOnly
<1>2. \A o \in Creates : ResolversOf(o)' = ResolversOf(o)
  BY DEF ResolversOf
<1>3. PendingMeansUnresolved' /\ BooksAgree'
  BY <1>2 DEF Books, PendingMeansUnresolved, BooksAgree, Done, ResolversOf
<1>4. ResolvedBy' /\ TxnBy'
  BY <1>2 DEF Books, ResolvedBy, TxnBy, FulfilledBy
<1>5. NobodyFulfilsTwice'
  BY DEF Books, NobodyFulfilsTwice, Done
<1> QED BY <1>1, <1>3, <1>4, <1>5 DEF Books

LEMMA InitBooks == Init => Books
<1> SUFFICES ASSUME Init PROVE Books
  OBVIOUS
<1>1. Listed /\ EngagedOnly /\ PendingMeansUnresolved /\ ResolvedBy
  BY DEF Init, Listed, EngagedOnly, PendingMeansUnresolved, ResolvedBy, Done, Engaged
<1>2. BooksAgree /\ TxnBy /\ NobodyFulfilsTwice
  BY DEF Init, BooksAgree, TxnBy, FulfilledBy, NobodyFulfilsTwice, Done, ResolversOf
<1> QED BY <1>1, <1>2 DEF Books

LEMMA CreateCommits ==
  ASSUME TypeOK, Books, NEW r \in Creates, CommitRows(r)
  PROVE  Books'
<1>1. /\ pc[r] = "commit" /\ pc' = [pc EXCEPT ![r] = "done"]
      /\ status' = [status EXCEPT ![r] = "pending"]
      /\ txn' = [txn EXCEPT ![r][caller[r]] = "pending"]
      /\ caller' = caller /\ target' = target /\ call' = call
  BY DEF CommitRows, CommitCreate, Goto, inputs
<1>2. \A q \in Requests : Done(q)' <=> Done(q) \/ q = r
  BY <1>1 DEF Done, TypeOK
<1>3. status[r] = "absent"
  BY <1>1 DEF Books, Listed, Done
<1>4. \A o \in Creates : ResolversOf(o)' = ResolversOf(o) /\ r \notin ResolversOf(o)
  BY <1>1 DEF ResolversOf
<1>5. \A q \in ResolversOf(r) : ~Done(q)
  BY <1>3 DEF Books, EngagedOnly, Engaged, Done, ResolversOf
<1>6. /\ \A o \in Creates : status'[o] = IF o = r THEN "pending" ELSE status[o]
      /\ \A o \in Creates, u \in Users :
           txn'[o][u] = IF o = r /\ u = caller[r] THEN "pending" ELSE txn[o][u]
  BY <1>1 DEF TypeOK
<1>7. Listed'
  BY <1>2, <1>6 DEF Books, Listed
<1>8. EngagedOnly'
  <2> SUFFICES ASSUME NEW q \in Resolvers, Engaged(q)'
               PROVE  /\ status'[target[q]] # "absent"
                      /\ q \in Cancels <=> caller[q] = caller[target[q]]
    BY <1>1 DEF EngagedOnly
  <2>1. Engaged(q) /\ target[q] \in Creates
    BY <1>1 DEF Engaged, TypeOK
  <2> QED BY <2>1, <1>6 DEF Books, EngagedOnly
<1>9. PendingMeansUnresolved'
  <2> SUFFICES ASSUME NEW o \in Creates
               PROVE  status'[o] = "pending" <=> /\ Done(o)'
                                                 /\ \A q \in ResolversOf(o) : ~Done(q)'
    BY <1>4 DEF PendingMeansUnresolved, Done
  <2>1. status[o] = "pending" <=> Done(o) /\ \A q \in ResolversOf(o) : ~Done(q)
    BY DEF Books, PendingMeansUnresolved, Done
  <2>2. \A q \in ResolversOf(o) : Done(q)' <=> Done(q)
    BY <1>2, <1>4 DEF ResolversOf
  <2> QED BY <1>2, <1>5, <1>6, <2>1, <2>2
<1>10. ResolvedBy'
  BY <1>2, <1>4, <1>6 DEF Books, ResolvedBy, ResolversOf
<1>11. BooksAgree'
  BY <1>1, <1>6 DEF Books, BooksAgree, TypeOK
<1>12. TxnBy'
  <2> SUFFICES ASSUME NEW o \in Creates, NEW u \in Users \ {caller[o]}
               PROVE  txn'[o][u] # "absent" <=> FulfilledBy(o, u)'
    BY <1>1 DEF TxnBy
  <2>1. txn'[o][u] = txn[o][u]
    BY <1>6
  <2>2. FulfilledBy(o, u)' <=> FulfilledBy(o, u)
    BY <1>1, <1>2, <1>4 DEF FulfilledBy, ResolversOf
  <2> QED BY <2>1, <2>2 DEF Books, TxnBy
<1>13. NobodyFulfilsTwice'
  BY <1>1, <1>2 DEF Books, NobodyFulfilsTwice, Done
<1> QED BY <1>7, <1>8, <1>9, <1>10, <1>11, <1>12, <1>13 DEF Books

(* What the commits of a fulfil and of a cancel have in common.            *)
LEMMA ResolverCommits ==
  ASSUME TypeOK, Books, NEW r \in Resolvers, CommitRows(r), NEW s \in Resolved,
         status' = [status EXCEPT ![target[r]] = s],
         s = "cancelled" <=> r \in Cancels,
         txn'[target[r]][caller[target[r]]] = s,
         \A o \in Creates : o # target[r] => txn'[o] = txn[o]
  PROVE  /\ Listed' /\ EngagedOnly' /\ PendingMeansUnresolved' /\ ResolvedBy' /\ BooksAgree'
         /\ \A q \in Requests : Done(q)' <=> Done(q) \/ q = r
<1> DEFINE t == target[r]
<1>1. /\ pc[r] = "commit" /\ pc' = [pc EXCEPT ![r] = "done"]
      /\ caller' = caller /\ target' = target /\ call' = call
      /\ r \notin Creates /\ t \in Creates
  BY DEF CommitRows, Goto, inputs, TypeOK
<1>2. \A q \in Requests : Done(q)' <=> Done(q) \/ q = r
  BY <1>1 DEF Done, TypeOK
<1>3. \A o \in Creates : ResolversOf(o)' = ResolversOf(o)
  BY <1>1 DEF ResolversOf
<1>4. \A o \in Creates : status'[o] = IF o = t THEN s ELSE status[o]
  BY <1>1 DEF TypeOK
<1>5. status[t] # "absent" /\ s # "absent" /\ s # "pending"
  BY <1>1 DEF Books, EngagedOnly, Engaged, Resolved
<1>6. Listed'
  BY <1>1, <1>2, <1>4, <1>5 DEF Books, Listed
<1>7. EngagedOnly'
  <2> SUFFICES ASSUME NEW q \in Resolvers, Engaged(q)'
               PROVE  /\ status'[target[q]] # "absent"
                      /\ q \in Cancels <=> caller[q] = caller[target[q]]
    BY <1>1 DEF EngagedOnly
  <2>1. Engaged(q) /\ target[q] \in Creates
    BY <1>1 DEF Engaged, TypeOK
  <2> QED BY <2>1, <1>4, <1>5 DEF Books, EngagedOnly
<1>8. PendingMeansUnresolved'
  <2> SUFFICES ASSUME NEW o \in Creates
               PROVE  status'[o] = "pending" <=> /\ Done(o)'
                                                 /\ \A q \in ResolversOf(o) : ~Done(q)'
    BY <1>3 DEF PendingMeansUnresolved, Done
  <2>1. status[o] = "pending" <=> Done(o) /\ \A q \in ResolversOf(o) : ~Done(q)
    BY DEF Books, PendingMeansUnresolved, Done
  <2>2. CASE o = t
    <3>1. r \in ResolversOf(o) /\ Done(r)'
      BY <1>2, <2>2 DEF ResolversOf
    <3> QED BY <1>4, <1>5, <2>2, <3>1
  <2>3. CASE o # t
    <3>1. \A q \in ResolversOf(o) : q # r /\ (Done(q)' <=> Done(q))
      BY <1>2, <2>3 DEF ResolversOf
    <3>2. Done(o)' <=> Done(o)
      BY <1>1, <1>2
    <3> QED BY <1>4, <2>1, <2>3, <3>1, <3>2
  <2> QED BY <2>2, <2>3
<1>9. ResolvedBy'
  <2> SUFFICES ASSUME NEW o \in Creates
               PROVE  /\ status'[o] = "completed" =>
                           \E f \in Fulfils \cap ResolversOf(o) : Done(f)'
                      /\ status'[o] = "cancelled" =>
                           \E x \in Cancels \cap ResolversOf(o) : Done(x)'
    BY <1>3 DEF ResolvedBy
  <2>1. CASE o = t
    <3>1. r \in ResolversOf(o) /\ Done(r)'
      BY <1>2, <2>1 DEF ResolversOf
    <3> QED BY <1>4, <2>1, <3>1
  <2>2. CASE o # t
    BY <1>2, <1>4, <2>2 DEF Books, ResolvedBy, ResolversOf
  <2> QED BY <2>1, <2>2
<1>10. BooksAgree'
  BY <1>1, <1>4 DEF Books, BooksAgree
<1> QED BY <1>2, <1>6, <1>7, <1>8, <1>9, <1>10

LEMMA FulfilCommits ==
  ASSUME TypeOK, Books, Fresh, NEW r \in Fulfils, CommitRows(r)
  PROVE  Books'
<1> DEFINE t == target[r]
<1>1. /\ pc[r] = "commit" /\ t \in Creates /\ caller[r] \in Users /\ caller[t] \in Users
      /\ caller' = caller /\ target' = target
      /\ status' = [status EXCEPT ![t] = "completed"]
      /\ txn' = [txn EXCEPT ![t] = [u \in Users |->
                   IF u \in {caller[t], caller[r]} THEN "completed" ELSE @[u]]]
  BY DEF CommitRows, CommitFulfil, inputs, TypeOK
<1>2. \A o \in Creates, u \in Users :
        txn'[o][u] = IF o = t /\ u \in {caller[t], caller[r]} THEN "completed" ELSE txn[o][u]
  BY <1>1 DEF TypeOK
<1>3. \A o \in Creates : o # t => txn'[o] = txn[o]
  BY <1>1 DEF TypeOK
<1>4. /\ Listed' /\ EngagedOnly' /\ PendingMeansUnresolved' /\ ResolvedBy' /\ BooksAgree'
      /\ \A q \in Requests : Done(q)' <=> Done(q) \/ q = r
  <2>1. /\ r \in Resolvers /\ CommitRows(r) /\ "completed" \in Resolved
        /\ "completed" = "cancelled" <=> r \in Cancels
        /\ txn'[t][caller[t]] = "completed"
    BY <1>1, <1>2 DEF Resolved
  <2> QED BY <1>1, <1>3, <2>1, ResolverCommits
<1>5. txn[t][caller[r]] = "absent" /\ caller[r] # caller[t]
  BY <1>1 DEF Fresh, Books, EngagedOnly, Engaged
<1>6. TxnBy'
  <2> SUFFICES ASSUME NEW o \in Creates, NEW u \in Users \ {caller[o]}
               PROVE  txn'[o][u] # "absent" <=>
                        \E f \in Fulfils : target[f] = o /\ Done(f)' /\ caller[f] = u
    BY <1>1 DEF TxnBy, FulfilledBy, ResolversOf
  <2>1. txn[o][u] # "absent" <=> \E f \in Fulfils : target[f] = o /\ Done(f) /\ caller[f] = u
    BY DEF Books, TxnBy, FulfilledBy, ResolversOf
  <2>2. CASE o = t /\ u = caller[r]
    <3>1. Done(r)' /\ txn'[o][u] = "completed"
      BY <1>2, <1>4, <2>2
    <3> QED BY <2>2, <3>1
  <2>3. CASE ~(o = t /\ u = caller[r])
    <3>1. txn'[o][u] = txn[o][u]
      BY <1>2, <2>3
    <3>2. \A f \in Fulfils : target[f] = o /\ caller[f] = u => (Done(f)' <=> Done(f))
      BY <1>4, <2>3
    <3> QED BY <2>1, <3>1, <3>2
  <2> QED BY <2>2, <2>3
<1>7. NobodyFulfilsTwice'
  <2> SUFFICES ASSUME NEW f \in Fulfils, NEW g \in Fulfils, f # g,
                      target[f] = target[g], caller[f] = caller[g], Done(f)', Done(g)'
               PROVE  FALSE
    BY <1>1 DEF NobodyFulfilsTwice, Done
  <2>1. \A h \in Fulfils : target[h] = t /\ caller[h] = caller[r] => ~Done(h)
    BY <1>1, <1>5 DEF Books, TxnBy, FulfilledBy, ResolversOf
  <2>2. ~(Done(f) /\ Done(g))
    BY DEF Books, NobodyFulfilsTwice, Done
  <2> QED BY <1>4, <2>1, <2>2
<1> QED BY <1>4, <1>6, <1>7 DEF Books

LEMMA CancelCommits ==
  ASSUME TypeOK, Books, NEW r \in Cancels, CommitRows(r)
  PROVE  Books'
<1> DEFINE t == target[r]
<1>1. /\ t \in Creates /\ caller[t] \in Users
      /\ caller' = caller /\ target' = target /\ r \notin Fulfils
      /\ status' = [status EXCEPT ![t] = "cancelled"]
      /\ txn' = [txn EXCEPT ![t][caller[t]] = "cancelled"]
  BY DEF CommitRows, CommitCancel, inputs, TypeOK
<1>2. /\ \A o \in Creates, u \in Users :
           txn'[o][u] = IF o = t /\ u = caller[t] THEN "cancelled" ELSE txn[o][u]
      /\ \A o \in Creates : o # t => txn'[o] = txn[o]
  BY <1>1 DEF TypeOK
<1>3. /\ Listed' /\ EngagedOnly' /\ PendingMeansUnresolved' /\ ResolvedBy' /\ BooksAgree'
      /\ \A q \in Requests : Done(q)' <=> Done(q) \/ q = r
  <2>1. /\ r \in Resolvers /\ CommitRows(r) /\ "cancelled" \in Resolved
        /\ "cancelled" = "cancelled" <=> r \in Cancels
        /\ txn'[t][caller[t]] = "cancelled"
    BY <1>1, <1>2 DEF Resolved
  <2> QED BY <1>1, <1>2, <2>1, ResolverCommits
<1>4. \A f \in Fulfils : Done(f)' <=> Done(f)
  BY <1>1, <1>3
<1>5. TxnBy'
  <2> SUFFICES ASSUME NEW o \in Creates, NEW u \in Users \ {caller[o]}
               PROVE  txn'[o][u] # "absent" <=> FulfilledBy(o, u)'
    BY <1>1 DEF TxnBy
  <2>1. txn'[o][u] = txn[o][u]
    BY <1>2
  <2>2. FulfilledBy(o, u)' <=> FulfilledBy(o, u)
    BY <1>1, <1>4 DEF FulfilledBy, ResolversOf
  <2> QED BY <2>1, <2>2 DEF Books, TxnBy
<1>6. NobodyFulfilsTwice'
  BY <1>1, <1>4 DEF Books, NobodyFulfilsTwice, Done
<1> QED BY <1>3, <1>5, <1>6 DEF Books

LEMMA BooksStep ==
  TypeOK /\ Control /\ Books /\ Fresh /\ [Next]_vars => Books'
<1> SUFFICES ASSUME TypeOK, Control, Books, Fresh, [Next]_vars PROVE Books'
  OBVIOUS
<1> USE DEF Goto, inputs, database, Done, Engaged
<1>0. pc \in [Requests -> PcVal] /\ call \in [Requests -> CallVal]
  BY DEF TypeOK
<1>1. ASSUME NEW r \in Creates, GetHoldWallet(r) PROVE Books'
  BY <1>0, <1>1, BooksFrame DEF GetHoldWallet, Admitted
<1>2. ASSUME NEW r \in Creates, PriceOrder(r) PROVE Books'
  <2>1. /\ UNCHANGED <<status, txn, caller, target>> /\ pc[r] = "wallet" /\ r \notin Resolvers
        /\ pc' = [pc EXCEPT ![r] = "call"] \/ pc' = [pc EXCEPT ![r] = "failed"]
        /\ \A q \in Requests \ {r} : call'[q] = call[q]
    BY <1>0, <1>2 DEF PriceOrder, SendLeg
  <2> QED BY <1>0, <1>2, <2>1, BooksFrame
<1>3. ASSUME NEW r \in Fulfils, FindOrderToFulfil(r) PROVE Books'
  BY <1>0, <1>3, BooksFrame DEF FindOrderToFulfil, Admitted, MayFulfil
<1>4. ASSUME NEW r \in Cancels, FindOrderToCancel(r) PROVE Books'
  BY <1>0, <1>4, BooksFrame DEF FindOrderToCancel, Admitted, MayCancel
<1>5. ASSUME NEW r \in Fulfils, GetPayWallet(r) PROVE Books'
  BY <1>0, <1>5, BooksFrame DEF GetPayWallet
<1>6. ASSUME NEW r \in Resolvers, LockOrder(r) PROVE Books'
  BY <1>0, <1>6, BooksFrame DEF LockOrder, SendLeg
<1>7. ASSUME NEW r \in Requests, WalletUpdate(r) PROVE Books'
  BY <1>7, BooksFrame DEF WalletUpdate
<1>8. ASSUME NEW r \in Requests, WalletRefuse(r) PROVE Books'
  BY <1>8, BooksFrame DEF WalletRefuse
<1>17. ASSUME NEW r \in Requests, WalletUnread(r) PROVE Books'
  BY <1>0, <1>17, BooksFrame DEF WalletUnread, Admitted
<1>9. ASSUME NEW r \in Requests, LegRefused(r) PROVE Books'
  BY <1>0, <1>9, BooksFrame DEF LegRefused, Rollback
<1>10. ASSUME NEW r \in Requests, NextLeg(r) PROVE Books'
  BY <1>0, <1>10, BooksFrame DEF NextLeg, Answered, SendLeg
<1>11. ASSUME NEW r \in Requests, LegsDone(r) PROVE Books'
  BY <1>0, <1>11, BooksFrame DEF LegsDone, Answered, AfterLegs
<1>12. ASSUME NEW r \in Fulfils, RecordFulfilment(r) PROVE Books'
  <2>1. /\ UNCHANGED <<status, txn, caller, target, call>> /\ pc[r] = "record"
        /\ pc' = [pc EXCEPT ![r] = "commit"] \/ pc' = [pc EXCEPT ![r] = "failed"]
    BY <1>12 DEF RecordFulfilment, Rollback
  <2> QED BY <1>0, <1>12, <2>1, BooksFrame
<1>13. ASSUME NEW r \in Requests, CommitRows(r) PROVE Books'
  BY <1>13, CreateCommits, FulfilCommits, CancelCommits
<1>14. ASSUME NEW r \in Requests, Abort(r) PROVE Books'
  BY <1>0, <1>14, BooksFrame DEF Abort, Rollback, InFlight
<1>15. CASE Restart
  BY <1>0, <1>15, BooksFrame DEF Restart, InFlight
<1>16. CASE UNCHANGED vars
  BY <1>16, BooksFrame DEF vars
<1> QED
  BY <1>1, <1>2, <1>3, <1>4, <1>5, <1>6, <1>7, <1>8, <1>9, <1>10, <1>11, <1>12, <1>13,
     <1>14, <1>15, <1>16, <1>17
     DEF Next, RequestStep, Arrival, HandlerStep, Commit, CommitUnanswered

(* Fresh survives the commits of others: a resolver of the same order      *)
(* would hold the row that f holds, and a create of it has long committed. *)
LEMMA FreshStep ==
  TypeOK /\ Control /\ TransactionsExclude /\ Books /\ Fresh /\ [Next]_vars => Fresh'
<1> SUFFICES ASSUME TypeOK, Control, TransactionsExclude, Books, Fresh, [Next]_vars,
                    NEW f \in Fulfils, pc'[f] = "commit"
             PROVE  txn'[target'[f]][caller'[f]] = "absent"
  BY DEF Fresh
<1> USE DEF Goto, inputs, database
<1>0. /\ pc \in [Requests -> PcVal] /\ target[f] \in Creates
      /\ target' = target /\ caller' = caller
  BY InputsKept DEF TypeOK
<1>1. CASE \E r \in Requests : CommitRows(r)
  <2> PICK r \in Requests : CommitRows(r)
    BY <1>1
  <2>1. pc[r] = "commit" /\ r # f /\ pc[f] = "commit"
    BY <1>0 DEF CommitRows
  <2>2. txn'[target[f]] = txn[target[f]]
    <3>1. CASE r \in Creates
      <4>1. status[r] = "absent" /\ status[target[f]] # "absent"
        BY <2>1, <3>1 DEF Books, Listed, Done, EngagedOnly, Engaged
      <4> QED BY <1>0, <3>1, <4>1 DEF CommitRows, CommitCreate, TypeOK
    <3>2. CASE r \in Resolvers
      <4>1. target[r] # target[f]
        BY <2>1, <3>2 DEF TransactionsExclude, Open
      <4> QED BY <1>0, <3>2, <4>1 DEF CommitRows, CommitFulfil, CommitCancel, TypeOK
    <3> QED BY <3>1, <3>2
  <2> QED BY <1>0, <2>1, <2>2 DEF Fresh
<1>2. CASE ~ \E r \in Requests : CommitRows(r)
  <2>1. txn' = txn
    BY <1>2 DEF Next, RequestStep, Arrival, HandlerStep, Commit, CommitUnanswered, vars,
         GetHoldWallet, PriceOrder, FindOrderToFulfil, FindOrderToCancel, GetPayWallet, LockOrder, WalletUpdate, WalletUnread, WalletRefuse,
         LegRefused,
         Rollback, NextLeg, LegsDone, RecordFulfilment, Abort, Restart
  <2>2. pc[f] = "commit" \/ UQ_order_user(target[f], caller[f])
    <3>1. ASSUME NEW r \in Creates, GetHoldWallet(r) \/ PriceOrder(r) PROVE pc[f] = "commit"
      <4>1. f # r /\ pc'[f] = pc[f]
        BY <1>0, <3>1 DEF GetHoldWallet, PriceOrder
      <4> QED BY <4>1
    <3>2. ASSUME NEW r \in Resolvers, FindOrderToFulfil(r) \/ FindOrderToCancel(r)
                                     \/ GetPayWallet(r) \/ LockOrder(r)
          PROVE  pc[f] = "commit"
      BY <1>0, <3>2 DEF FindOrderToFulfil, FindOrderToCancel, GetPayWallet, LockOrder
    <3>3. ASSUME NEW r \in Requests, WalletUpdate(r) \/ WalletUnread(r) \/ WalletRefuse(r)
                                    \/ LegRefused(r) \/ NextLeg(r) \/ LegsDone(r) \/ Abort(r)
          PROVE  pc[f] = "commit"
      BY <1>0, <3>3 DEF WalletUpdate, WalletUnread, WalletRefuse, LegRefused, NextLeg, LegsDone, AfterLegs,
                        Abort, Rollback
    <3>4. ASSUME NEW r \in Fulfils, RecordFulfilment(r)
          PROVE  pc[f] = "commit" \/ UQ_order_user(target[f], caller[f])
      BY <1>0, <3>4 DEF RecordFulfilment, Rollback
    <3>5. ASSUME Restart \/ UNCHANGED vars PROVE pc[f] = "commit"
      BY <1>0, <3>5 DEF Restart, vars
    <3> QED
      BY <1>2, <3>1, <3>2, <3>3, <3>4, <3>5
         DEF Next, RequestStep, Arrival, HandlerStep, Commit, CommitUnanswered
  <2> QED BY <1>0, <2>1, <2>2 DEF Fresh, UQ_order_user
<1> QED BY <1>1, <1>2

LEMMA InitFresh == Init => Fresh
BY DEF Init, Fresh

(* The inductive invariant of the tables.                                  *)
Bookkeeping == TypeOK /\ Control /\ TransactionsExclude /\ Books /\ Fresh

LEMMA BookkeepingInvariant == Spec => []Bookkeeping
<1>1. Init => Bookkeeping
  BY InitTypeOK, InitControl, InitLocks, InitBooks, InitFresh DEF Bookkeeping
<1>2. Bookkeeping /\ [Next]_vars => Bookkeeping'
  BY TypeStep, ControlStep, LockStep, BooksStep, FreshStep DEF Bookkeeping
<1> QED BY <1>1, <1>2, PTL DEF Spec

(* An order that others can see has been paid for, and a create that was   *)
(* rolled back leaves none, whatever fails.                                *)
THEOREM Funded == Spec => []OrdersAreFunded
<1>1. Bookkeeping => OrdersAreFunded
  <2> SUFFICES ASSUME Bookkeeping, NEW o \in Creates
               PROVE  /\ status[o] # "absent" => applied[o] = {1}
                      /\ pc[o] = "failed" => status[o] = "absent"
    BY DEF OrdersAreFunded
  <2>1. status[o] = "absent" <=> pc[o] # "done"
    BY DEF Bookkeeping, Books, Listed, Done
  <2>2. pc[o] = "done" => applied[o] = 1..1
    BY DEF Bookkeeping, Control, ControlOf, LastLeg
  <2>3. 1..1 = {1}
    OBVIOUS
  <2> QED BY <2>1, <2>2, <2>3
<1> QED BY <1>1, BookkeepingInvariant, PTL

(* A committed request made every wallet update it owes; an order is       *)
(* completed, cancelled or recorded for a user only by such a request.     *)
THEOREM Paid == Spec => []ResolutionIsPaid
<1>1. Bookkeeping => ResolutionIsPaid
  <2> SUFFICES ASSUME Bookkeeping PROVE ResolutionIsPaid
    OBVIOUS
  <2>1. \A r \in Requests : pc[r] = "done" => applied[r] = Legs(r)
    BY DEF Bookkeeping, Control, ControlOf, LastLeg, Legs
  <2> QED BY <2>1 DEF Bookkeeping, Books, ResolvedBy, TxnBy, FulfilledBy, Done, ResolutionIsPaid
<1> QED BY <1>1, BookkeepingInvariant, PTL

(* An order is pending exactly while it is created and not resolved.       *)
THEOREM PendingIsUnresolved == Spec => []PendingMeansUnresolved
<1>1. Bookkeeping => PendingMeansUnresolved
  BY DEF Bookkeeping, Books
<1> QED BY <1>1, BookkeepingInvariant, PTL

(* The owner's transaction and the order have the same status.             *)
THEOREM TablesAgree == Spec => []BooksAgree
<1>1. Bookkeeping => BooksAgree
  BY DEF Bookkeeping, Books
<1> QED BY <1>1, BookkeepingInvariant, PTL

(* No user fulfils an order twice.                                         *)
THEOREM FulfilledOnce == Spec => []NobodyFulfilsTwice
<1>1. Bookkeeping => NobodyFulfilsTwice
  BY DEF Bookkeeping, Books
<1> QED BY <1>1, BookkeepingInvariant, PTL

-------------------------------------------------------------------------------
(* Overdrafts.  A request that may still debit its wallet is the only one  *)
(* that may, unless the wallet raced; nobody else has debited it since it  *)
(* was read, and once the check is passed what was read covers the debit.  *)

Debit(r) == IF r \in Creates THEN Hold(r) ELSE Pay(target[r])
Checked(r) == MayDebit(r) /\ pc[r] # "wallet"

CheckedCovers == \A r \in Requests : Checked(r) => seen[r] >= Debit(r)

SoleDebitor ==
  \A r, q \in Requests :
    MayDebit(r) /\ MayDebit(q) /\ DebitWallet(r) = DebitWallet(q) /\ DebitWallet(r) \notin raced
      => r = q

StillThere ==
  \A r \in Requests :
    MayDebit(r) /\ DebitWallet(r) \notin raced \cup Drained
      => balance[caller[r]][DebitCur(r)] >= seen[r]

Covered == CheckedCovers /\ SoleDebitor /\ StillThere /\ NoOverdraftWithoutRace

LEMMA DebitType ==
  ASSUME TypeOK, NEW r \in Creates \cup Fulfils
  PROVE  /\ Debit(r) \in Int /\ seen[r] \in Int /\ DebitCur(r) \in Currency /\ caller[r] \in Users
         /\ balance[caller[r]][DebitCur(r)] \in Int /\ DebitWallet(r) \in Users \X Currency
         /\ DebitWallet(r) = <<caller[r], DebitCur(r)>>
<1>1. r \in Fulfils => target[r] \in Creates
  BY DEF TypeOK
<1>2. Debit(r) \in Int /\ DebitCur(r) \in Currency
  BY <1>1, OrderMoney DEF Debit, DebitCur
<1> QED BY <1>2 DEF TypeOK, DebitWallet

(* A wallet that was drained stays so: the order of a resolver that sent   *)
(* an update has been priced, and its cost is not set again.               *)
LEMMA DrainedGrows ==
  ASSUME TypeOK, Control, Books, UNCHANGED <<caller, target, dto>>,
         \A q \in Requests : applied[q] \subseteq applied'[q],
         \A o \in Creates : Done(o) => cost'[o] = cost[o]
  PROVE  Drained \subseteq Drained'
<1> SUFFICES ASSUME NEW r \in Resolvers, NEW i \in applied[r], r \in Cancels \/ i > 1,
                    Leg(r, i).delta < 0
             PROVE  <<Leg(r, i).user, Leg(r, i).cur>> \in Drained'
  BY DEF Drained
<1>1. target[r] \in Creates /\ Done(target[r]) /\ r \notin Creates
  <2>1. call[r] # "none"
    BY DEF Control, ControlOf
  <2> QED BY <2>1 DEF TypeOK, Books, EngagedOnly, Engaged, Listed
<1>2. cost'[target[r]] = cost[target[r]]
  BY <1>1
<1>3. Leg(r, i)' = Leg(r, i)
  BY <1>1, <1>2 DEF Leg, FulfilLeg, CancelLeg, Update, HoldCur, PayCur, Quote, Pay, Payout,
                    StoredAmount, StoredCost
<1>4. /\ Leg(r, i)'.user = Leg(r, i).user /\ Leg(r, i)'.cur = Leg(r, i).cur
      /\ Leg(r, i)'.delta < 0
  BY <1>3
<1>5. <<Leg(r, i).user, Leg(r, i).cur>> \in Users \X Currency
  <2>1. Leg(r, i) \in [user : Users, cur : Currency, delta : Int]
    BY LegType DEF TypeOK
  <2> QED BY <2>1
<1> QED BY <1>4, <1>5 DEF Drained

(* The order of an engaged fulfil has been priced.                         *)
LEMMA PricedBefore ==
  ASSUME Control, Books, NEW f \in Fulfils, MayDebit(f), target[f] \in Creates
  PROVE  pc[target[f]] = "done"
BY DEF MayDebit, Books, EngagedOnly, Engaged, Listed, Done, Control, ControlOf

(* A step that neither reads nor debits a wallet.                          *)
LEMMA CoveredFrame ==
  ASSUME Covered, UNCHANGED <<caller, target, dto, cost, balance, seen, applied, raced>>,
         \A r \in Requests : /\ MayDebit(r)' => MayDebit(r)
                             /\ Checked(r)' => Checked(r)
  PROVE  Covered'
<1>1. \A r : /\ Debit(r)' = Debit(r) /\ DebitWallet(r)' = DebitWallet(r)
             /\ DebitCur(r)' = DebitCur(r)
  BY DEF Debit, Hold, HoldAt, Pay, StoredAmount, StoredCost, DebitWallet, DebitCur, HoldCur,
         PayCur, Quote
<1>5. Drained' = Drained
  BY DEF Drained, Leg, CreateLeg, FulfilLeg, CancelLeg, Update, Hold, HoldAt, HoldCur, PayCur,
         Quote, Pay, Payout, StoredAmount, StoredCost
<1>2. CheckedCovers'
  BY <1>1 DEF Covered, CheckedCovers
<1>3. SoleDebitor'
  BY <1>1 DEF Covered, SoleDebitor
<1>4. StillThere'
  BY <1>1, <1>5 DEF Covered, StillThere
<1> QED BY <1>2, <1>3, <1>4, <1>5 DEF Covered, NoOverdraftWithoutRace

(* A wallet read.                                                          *)
LEMMA CoveredRead ==
  ASSUME TypeOK, Covered, NEW r \in Creates \cup Fulfils, ReadWallet(r), ~MayDebit(r),
         UNCHANGED <<caller, target, dto, cost, balance, applied>>,
         \A q \in Requests \ {r} : MayDebit(q)' <=> MayDebit(q),
         \A q \in Requests \ {r} : Checked(q)' <=> Checked(q),
         Checked(r)' => seen'[r] >= Debit(r)
  PROVE  Covered'
<1>1. \A q : /\ Debit(q)' = Debit(q) /\ DebitWallet(q)' = DebitWallet(q)
             /\ DebitCur(q)' = DebitCur(q)
  BY DEF Debit, Hold, HoldAt, Pay, StoredAmount, StoredCost, DebitWallet, DebitCur, HoldCur,
         PayCur, Quote
<1>2. /\ \A q \in Requests \ {r} : seen'[q] = seen[q]
      /\ seen'[r] = balance[caller[r]][DebitCur(r)]
      /\ raced \subseteq raced'
  BY DEF ReadWallet, TypeOK
<1>7. Drained' = Drained
  BY DEF Drained, Leg, CreateLeg, FulfilLeg, CancelLeg, Update, Hold, HoldAt, HoldCur, PayCur,
         Quote, Pay, Payout, StoredAmount, StoredCost
<1>3. CheckedCovers'
  BY <1>1, <1>2 DEF Covered, CheckedCovers
<1>4. SoleDebitor'
  <2> SUFFICES ASSUME NEW p \in Requests, NEW q \in Requests, MayDebit(p)', MayDebit(q)',
                      DebitWallet(p) = DebitWallet(q), DebitWallet(p) \notin raced'
               PROVE  p = q
    BY <1>1 DEF SoleDebitor
  <2>1. CASE p # r /\ q # r
    BY <1>2, <2>1 DEF Covered, SoleDebitor
  <2>2. \A s \in Requests \ {r} : MayDebit(s) /\ DebitWallet(s) = DebitWallet(r)
                                    => DebitWallet(r) \in raced'
    BY DEF ReadWallet
  <2> QED BY <2>1, <2>2
<1>5. StillThere'
  <2> SUFFICES ASSUME NEW q \in Requests, MayDebit(q)',
                      DebitWallet(q) \notin raced' \cup Drained
               PROVE  balance[caller[q]][DebitCur(q)] >= seen'[q]
    BY <1>1, <1>7 DEF StillThere
  <2>1. CASE q = r
    BY <1>2, <2>1, DebitType
  <2>2. CASE q # r
    BY <1>2, <2>2 DEF Covered, StillThere
  <2> QED BY <2>1, <2>2
<1>6. NoOverdraftWithoutRace'
  BY <1>2, <1>7 DEF Covered, NoOverdraftWithoutRace
<1> QED BY <1>3, <1>4, <1>5, <1>6 DEF Covered

(* The pricing of an order: the hold is covered by what was read, and no   *)
(* other debit depends on the cost that is set.                            *)
LEMMA CoveredPrice ==
  ASSUME TypeOK, Control, Books, Covered, NEW r \in Creates, PriceOrder(r)
  PROVE  Covered'
<1> PICK rate \in Rates :
      LET total == calculateTotalCost(rate, dto[r].amount)
      IN  IF Affordable(r, total) /\ Storable(r, total)
          THEN /\ cost' = [cost EXCEPT ![r] = total]
               /\ SendLeg(r, 1)
               /\ Goto(r, "call")
          ELSE Goto(r, "failed") /\ UNCHANGED <<cost, leg, call>>
  BY DEF PriceOrder
<1> DEFINE total == calculateTotalCost(rate, dto[r].amount)
<1>1. /\ pc[r] = "wallet" /\ UNCHANGED <<caller, target, dto, balance, seen, raced, applied>>
      /\ call[r] = "none" /\ r \notin Fulfils
  BY DEF PriceOrder, inputs, Control, ControlOf
<1>2. CASE ~(Affordable(r, total) /\ Storable(r, total))
  <2>1. pc' = [pc EXCEPT ![r] = "failed"] /\ UNCHANGED <<cost, call>>
    BY <1>2 DEF Goto
  <2>2. \A q \in Requests : (MayDebit(q)' => MayDebit(q)) /\ (Checked(q)' => Checked(q))
    BY <1>1, <2>1 DEF MayDebit, Checked, TypeOK
  <2> QED BY <1>1, <2>1, <2>2, CoveredFrame
<1>3. CASE Affordable(r, total) /\ Storable(r, total)
  <2>1. /\ pc' = [pc EXCEPT ![r] = "call"] /\ cost' = [cost EXCEPT ![r] = total]
        /\ call' = [call EXCEPT ![r] = "sent"] /\ seen[r] >= HoldAt(r, total)
    BY <1>3 DEF Goto, SendLeg, Affordable
  <2> HIDE DEF total
  <2>2. /\ \A q \in Requests : MayDebit(q)' => MayDebit(q)
        /\ \A q \in Requests \ {r} : Checked(q)' => Checked(q)
    BY <1>1, <2>1 DEF MayDebit, Checked, TypeOK
  <2>9. Drained \subseteq Drained'
    <3>1. \A o \in Creates : Done(o) => cost'[o] = cost[o]
      BY <1>1, <2>1 DEF Done, TypeOK
    <3> QED BY <1>1, <3>1, DrainedGrows
  <2>3. /\ \A o \in Creates : HoldCur(o)' = HoldCur(o) /\ PayCur(o)' = PayCur(o)
        /\ \A q \in Requests : DebitCur(q)' = DebitCur(q) /\ DebitWallet(q)' = DebitWallet(q)
    BY <1>1 DEF HoldCur, PayCur, Quote, DebitCur, DebitWallet
  <2>4. Debit(r)' = HoldAt(r, total)
    BY <1>1, <2>1 DEF Debit, Hold, HoldAt, TypeOK
  <2>5. \A q \in Requests \ {r} : Checked(q) => Debit(q)' = Debit(q)
    <3> SUFFICES ASSUME NEW q \in Requests \ {r}, Checked(q) PROVE Debit(q)' = Debit(q)
      OBVIOUS
    <3>1. CASE q \in Creates
      <4>1. cost'[q] = cost[q]
        BY <2>1, <3>1 DEF TypeOK
      <4> QED BY <1>1, <3>1, <4>1 DEF Debit, Hold, HoldAt
    <3>2. CASE q \in Fulfils
      <4>1. target[q] \in Creates /\ pc[target[q]] = "done"
        BY <3>2, PricedBefore DEF Checked, TypeOK
      <4>2. cost'[target[q]] = cost[target[q]]
        BY <1>1, <2>1, <4>1 DEF TypeOK
      <4> QED BY <1>1, <3>2, <4>1, <4>2 DEF Debit, Pay, StoredAmount, StoredCost
    <3> QED BY <3>1, <3>2 DEF Checked, MayDebit
  <2>6. CheckedCovers'
    BY <1>1, <2>1, <2>2, <2>4, <2>5 DEF Covered, CheckedCovers
  <2>7. SoleDebitor'
    BY <1>1, <2>2, <2>3 DEF Covered, SoleDebitor
  <2>8. StillThere'
    BY <1>1, <2>2, <2>3, <2>9 DEF Covered, StillThere
  <2> QED BY <1>1, <2>9, <2>6, <2>7, <2>8 DEF Covered, NoOverdraftWithoutRace
<1> QED BY <1>2, <1>3

(* The first update of a create and of a fulfil is the debit that was      *)
(* checked.                                                                *)
LEMMA DebitLeg ==
  ASSUME NEW r \in Creates \cup Fulfils
  PROVE  Leg(r, 1) = Update(caller[r], DebitCur(r), -Debit(r))
BY DEF Leg, CreateLeg, FulfilLeg, DebitCur, Debit

LEMMA CoveredUpdate ==
  ASSUME TypeOK, Control, Books, Covered, NEW r \in Requests, WalletUpdate(r)
  PROVE  Covered'
<1> DEFINE l == Leg(r, leg[r])
<1>1. /\ call[r] = "sent" /\ leg[r] \in 1..LastLeg(r) /\ applied[r] = 1..(leg[r] - 1)
      /\ pc[r] \notin {"wallet", "checked"}
      /\ l.user \in Users /\ l.cur \in Currency /\ l.delta \in Int
  BY LegType DEF WalletUpdate, Control, ControlOf, TypeOK, LastLeg
<1>2. /\ UNCHANGED <<caller, target, dto, cost, seen, raced, pc>>
      /\ call' = [call EXCEPT ![r] = "applied"]
      /\ applied' = [applied EXCEPT ![r] = @ \cup {leg[r]}]
      /\ balance' = [balance EXCEPT ![l.user][l.cur] = @ + l.delta]
  BY DEF WalletUpdate, inputs
<1>3. \A q : Debit(q)' = Debit(q) /\ DebitWallet(q)' = DebitWallet(q) /\ DebitCur(q)' = DebitCur(q)
  BY <1>2 DEF Debit, Hold, HoldAt, Pay, StoredAmount, StoredCost, DebitWallet, DebitCur, HoldCur,
         PayCur, Quote
<1>4. /\ ~MayDebit(r)'
      /\ \A q \in Requests : (MayDebit(q)' => MayDebit(q)) /\ (Checked(q)' => Checked(q))
  BY <1>1, <1>2 DEF MayDebit, Checked, TypeOK
<1>4a. Drained \subseteq Drained'
  <2>1. applied \in [Requests -> SUBSET (0..3)]
    BY DEF TypeOK
  <2>2. \A q \in Requests : applied[q] \subseteq applied'[q]
    BY <1>2, <2>1
  <2>3. \A o \in Creates : Done(o) => cost'[o] = cost[o]
    BY <1>2
  <2>4. UNCHANGED <<caller, target, dto>>
    BY <1>2
  <2> QED BY <2>2, <2>3, <2>4, DrainedGrows
<1>4b. l' = l
  <2>1. leg' = leg
    BY DEF WalletUpdate
  <2>2. UNCHANGED <<caller, target, dto, cost>>
    BY <1>2
  <2>3. CreateLeg(r)' = CreateLeg(r) /\ CancelLeg(r)' = CancelLeg(r)
    BY <2>2 DEF CreateLeg, CancelLeg, Update, Hold, HoldAt, HoldCur, Quote, StoredCost
  <2>4. ASSUME NEW i PROVE FulfilLeg(r, i)' = FulfilLeg(r, i)
    BY <2>2 DEF FulfilLeg, Update, HoldCur, PayCur, Quote, Pay, Payout, StoredAmount, StoredCost
  <2> QED BY <2>1, <2>3, <2>4 DEF Leg
<1>4c. (r \in Cancels \/ leg[r] > 1) /\ l.delta < 0 => <<l.user, l.cur>> \in Drained'
  <2> SUFFICES ASSUME r \in Cancels \/ leg[r] > 1, l.delta < 0
               PROVE  <<l.user, l.cur>> \in Drained'
    OBVIOUS
  <2>1. r \in Resolvers /\ leg[r] \in applied'[r] /\ leg' = leg
    BY <1>1, <1>2 DEF WalletUpdate, LastLeg, TypeOK
  <2>2. /\ Leg(r, leg[r])'.user = l.user /\ Leg(r, leg[r])'.cur = l.cur
        /\ Leg(r, leg[r])'.delta < 0
    BY <1>4b
  <2> QED BY <1>1, <2>1, <2>2 DEF Drained
<1>4d. leg[r] = 1 /\ r \notin Cancels
         => l.user = caller[r] /\ l.cur = DebitCur(r) /\ l.delta = -Debit(r)
  BY DebitLeg DEF Update
<1> HIDE DEF l
<1>5. \A u \in Users, c \in Currency :
        /\ balance[u][c] \in Int
        /\ balance'[u][c] = IF u = l.user /\ c = l.cur THEN balance[u][c] + l.delta
                                                       ELSE balance[u][c]
  BY <1>1, <1>2 DEF TypeOK
<1>6. CheckedCovers' /\ SoleDebitor'
  BY <1>2, <1>3, <1>4 DEF Covered, CheckedCovers, SoleDebitor
<1>7. CASE r \in Cancels \/ leg[r] > 1
  <2>1. \A u \in Users, c \in Currency :
          <<u, c>> \notin Drained' => balance'[u][c] >= balance[u][c]
    <3> SUFFICES ASSUME NEW u \in Users, NEW c \in Currency, <<u, c>> \notin Drained'
                 PROVE  balance'[u][c] >= balance[u][c]
      OBVIOUS
    <3>1. CASE u = l.user /\ c = l.cur
      <4>1. l.delta >= 0
        BY <1>1, <1>4c, <1>7, <3>1
      <4> QED BY <1>1, <1>5, <3>1, <4>1
    <3>2. CASE ~(u = l.user /\ c = l.cur)
      BY <1>5, <3>2
    <3> QED BY <3>1, <3>2
  <2>2. NoOverdraftWithoutRace'
    <3> SUFFICES ASSUME NEW u \in Users, NEW c \in Currency, <<u, c>> \notin raced \cup Drained'
                 PROVE  balance'[u][c] >= 0
      BY <1>2 DEF NoOverdraftWithoutRace
    <3>1. balance[u][c] >= 0 /\ balance[u][c] \in Int /\ balance'[u][c] \in Int
      BY <1>1, <1>4a, <1>5 DEF Covered, NoOverdraftWithoutRace
    <3> QED BY <2>1, <3>1
  <2>3. StillThere'
    <3> SUFFICES ASSUME NEW q \in Requests, MayDebit(q), DebitWallet(q) \notin raced \cup Drained'
                 PROVE  balance'[caller[q]][DebitCur(q)] >= seen[q]
      BY <1>2, <1>3, <1>4 DEF StillThere
    <3>1. q \in Creates \cup Fulfils /\ balance[caller[q]][DebitCur(q)] >= seen[q]
      BY <1>4a DEF MayDebit, Covered, StillThere
    <3>2. /\ caller[q] \in Users /\ DebitCur(q) \in Currency /\ seen[q] \in Int
          /\ balance[caller[q]][DebitCur(q)] \in Int
          /\ DebitWallet(q) = <<caller[q], DebitCur(q)>>
      BY <3>1, DebitType
    <3>3. /\ balance'[caller[q]][DebitCur(q)] \in Int
          /\ balance'[caller[q]][DebitCur(q)] >= balance[caller[q]][DebitCur(q)]
      BY <1>1, <1>5, <2>1, <3>2
    <3> QED BY <3>1, <3>2, <3>3
  <2> QED BY <1>6, <2>2, <2>3 DEF Covered
<1>8. CASE ~(r \in Cancels \/ leg[r] > 1)
  <2>1. /\ r \in Creates \cup Fulfils /\ leg[r] = 1
        /\ l.user = caller[r] /\ l.cur = DebitCur(r) /\ l.delta = -Debit(r)
    BY <1>1, <1>4d, <1>8 DEF LastLeg
  <2>2. MayDebit(r) /\ Checked(r) /\ seen[r] >= Debit(r)
    BY <1>1, <2>1 DEF MayDebit, Checked, Covered, CheckedCovers
  <2>3. DebitWallet(r) \notin raced \cup Drained => balance[l.user][l.cur] + l.delta >= 0
    <3>1. Debit(r) \in Int /\ seen[r] \in Int /\ balance[caller[r]][DebitCur(r)] \in Int
      BY <2>1, DebitType
    <3>2. DebitWallet(r) \notin raced \cup Drained => balance[caller[r]][DebitCur(r)] >= seen[r]
      BY <2>2 DEF Covered, StillThere
    <3> QED BY <2>1, <2>2, <3>1, <3>2
  <2>4. NoOverdraftWithoutRace'
    <3> SUFFICES ASSUME NEW u \in Users, NEW c \in Currency, <<u, c>> \notin raced \cup Drained
                 PROVE  balance'[u][c] >= 0
      BY <1>2, <1>4a DEF NoOverdraftWithoutRace
    <3>1. CASE u = l.user /\ c = l.cur
      BY <1>5, <2>1, <2>3, <3>1 DEF DebitWallet
    <3>2. CASE ~(u = l.user /\ c = l.cur)
      BY <1>5, <3>2 DEF Covered, NoOverdraftWithoutRace
    <3> QED BY <3>1, <3>2
  <2>5. StillThere'
    <3> SUFFICES ASSUME NEW q \in Requests, MayDebit(q)', DebitWallet(q) \notin raced \cup Drained
                 PROVE  balance'[caller[q]][DebitCur(q)] >= seen[q]
      BY <1>2, <1>3, <1>4, <1>4a DEF StillThere
    <3>1. q # r /\ MayDebit(q) /\ q \in Creates \cup Fulfils
      BY <1>4 DEF MayDebit
    <3>2. DebitWallet(q) # DebitWallet(r)
      BY <2>2, <3>1 DEF Covered, SoleDebitor
    <3>3. balance'[caller[q]][DebitCur(q)] = balance[caller[q]][DebitCur(q)]
      <4>1. /\ DebitWallet(q) = <<caller[q], DebitCur(q)>> /\ DebitWallet(r) = <<l.user, l.cur>>
            /\ caller[q] \in Users /\ DebitCur(q) \in Currency
        BY <2>1, <3>1, DebitType DEF DebitWallet
      <4> QED BY <1>5, <3>2, <4>1
    <3> QED BY <3>1, <3>3 DEF Covered, StillThere
  <2> QED BY <1>6, <2>4, <2>5 DEF Covered
<1> QED BY <1>7, <1>8

LEMMA InitCovered == Init => Covered
<1> SUFFICES ASSUME Init PROVE Covered
  OBVIOUS
<1>1. \A r \in Requests : ~MayDebit(r)
  BY DEF Init, MayDebit
<1>2. NoOverdraftWithoutRace
  BY AmountAssumption DEF Init, NoOverdraftWithoutRace
<1> QED BY <1>1, <1>2 DEF Covered, CheckedCovers, SoleDebitor, StillThere, Checked

LEMMA CoveredStep ==
  TypeOK /\ Control /\ Books /\ Covered /\ [Next]_vars => Covered'
<1> SUFFICES ASSUME TypeOK, Control, Books, Covered, [Next]_vars PROVE Covered'
  OBVIOUS
<1> USE DEF Goto, inputs, database
<1>0. /\ pc \in [Requests -> PcVal] /\ call \in [Requests -> CallVal]
      /\ applied \in [Requests -> SUBSET (0..3)] /\ seen \in [Requests -> Int]
  BY DEF TypeOK
<1>c. \A r \in Requests : ControlOf(r)
  BY DEF Control
<1>1. ASSUME NEW r \in Creates, GetHoldWallet(r) PROVE Covered'
  <2>1. /\ pc[r] = "new" /\ call[r] = "none" /\ ReadWallet(r)
        /\ pc' = [pc EXCEPT ![r] = "wallet"]
        /\ UNCHANGED <<caller, target, dto, cost, balance, call, applied>>
    BY <1>c, <1>1 DEF GetHoldWallet, Admitted, ControlOf
  <2>2. ~MayDebit(r) /\ ~Checked(r)'
    BY <1>0, <1>1, <2>1 DEF MayDebit, Checked
  <2>3. \A q \in Requests \ {r} : (MayDebit(q)' <=> MayDebit(q)) /\ (Checked(q)' <=> Checked(q))
    BY <1>0, <1>1, <2>1 DEF MayDebit, Checked
  <2> QED BY <1>1, <2>1, <2>2, <2>3, CoveredRead
<1>2. ASSUME NEW r \in Creates, PriceOrder(r) PROVE Covered'
  BY <1>2, CoveredPrice
<1>3. ASSUME NEW r \in Fulfils, FindOrderToFulfil(r) PROVE Covered'
  <2>1. \A q \in Requests : (MayDebit(q)' => MayDebit(q)) /\ (Checked(q)' => Checked(q))
    BY <1>0, <1>3 DEF FindOrderToFulfil, Admitted, MayDebit, Checked
  <2> QED BY <1>3, <2>1, CoveredFrame DEF FindOrderToFulfil
<1>4. ASSUME NEW r \in Cancels, FindOrderToCancel(r) PROVE Covered'
  <2>1. \A q \in Requests : (MayDebit(q)' => MayDebit(q)) /\ (Checked(q)' => Checked(q))
    BY <1>0, <1>4 DEF FindOrderToCancel, Admitted, MayDebit, Checked
  <2> QED BY <1>4, <2>1, CoveredFrame DEF FindOrderToCancel
<1>5. ASSUME NEW r \in Fulfils, GetPayWallet(r) PROVE Covered'
  <2>1. /\ pc[r] = "found" /\ call[r] = "none" /\ ReadWallet(r) /\ r \notin Creates
        /\ pc' = [pc EXCEPT ![r] = IF seen'[r] >= Pay(target[r]) THEN "checked" ELSE "failed"]
        /\ UNCHANGED <<caller, target, dto, cost, balance, call, applied>>
    BY <1>c, <1>5 DEF GetPayWallet, CanPay, ControlOf
  <2>2. ~MayDebit(r) /\ (Checked(r)' => seen'[r] >= Debit(r))
    BY <1>0, <1>5, <2>1 DEF MayDebit, Checked, Debit
  <2>3. \A q \in Requests \ {r} : (MayDebit(q)' <=> MayDebit(q)) /\ (Checked(q)' <=> Checked(q))
    BY <1>0, <1>5, <2>1 DEF MayDebit, Checked
  <2> QED BY <1>5, <2>1, <2>2, <2>3, CoveredRead
<1>6. ASSUME NEW r \in Resolvers, LockOrder(r) PROVE Covered'
  <2>1. \A q \in Requests : (MayDebit(q)' => MayDebit(q)) /\ (Checked(q)' => Checked(q))
    BY <1>0, <1>6 DEF LockOrder, SendLeg, MayDebit, Checked
  <2> QED BY <1>6, <2>1, CoveredFrame DEF LockOrder
<1>7. ASSUME NEW r \in Requests, WalletUpdate(r) PROVE Covered'
  BY <1>7, CoveredUpdate
<1>8. ASSUME NEW r \in Requests, WalletRefuse(r) PROVE Covered'
  <2>1. \A q \in Requests : (MayDebit(q)' => MayDebit(q)) /\ (Checked(q)' => Checked(q))
    BY <1>0, <1>8 DEF WalletRefuse, MayDebit, Checked
  <2> QED BY <1>8, <2>1, CoveredFrame DEF WalletRefuse
<1>17. ASSUME NEW r \in Requests, WalletUnread(r) PROVE Covered'
  <2>1. \A q \in Requests : (MayDebit(q)' => MayDebit(q)) /\ (Checked(q)' => Checked(q))
    BY <1>0, <1>c, <1>17 DEF WalletUnread, Admitted, MayDebit, Checked, ControlOf
  <2> QED BY <1>17, <2>1, CoveredFrame DEF WalletUnread
<1>9. ASSUME NEW r \in Requests, LegRefused(r) PROVE Covered'
  <2>1. \A q \in Requests : (MayDebit(q)' => MayDebit(q)) /\ (Checked(q)' => Checked(q))
    BY <1>0, <1>9 DEF LegRefused, Rollback, MayDebit, Checked
  <2> QED BY <1>9, <2>1, CoveredFrame DEF LegRefused
<1>10. ASSUME NEW r \in Requests, NextLeg(r) PROVE Covered'
  <2>1. /\ 1 \in applied[r] /\ call' = [call EXCEPT ![r] = "sent"]
        /\ UNCHANGED <<pc, applied>>
    BY <1>c, <1>10 DEF NextLeg, Answered, SendLeg, ControlOf, LastLeg
  <2>2. \A q \in Requests : (MayDebit(q)' => MayDebit(q)) /\ (Checked(q)' => Checked(q))
    BY <1>0, <1>10, <2>1 DEF MayDebit, Checked
  <2> QED BY <1>10, <2>2, CoveredFrame DEF NextLeg
<1>11. ASSUME NEW r \in Requests, LegsDone(r) PROVE Covered'
  <2>1. \A q \in Requests : (MayDebit(q)' => MayDebit(q)) /\ (Checked(q)' => Checked(q))
    BY <1>0, <1>11 DEF LegsDone, Answered, AfterLegs, MayDebit, Checked
  <2> QED BY <1>11, <2>1, CoveredFrame DEF LegsDone
<1>12. ASSUME NEW r \in Fulfils, RecordFulfilment(r) PROVE Covered'
  <2>1. /\ UNCHANGED <<inputs, seen, cost, leg, call, balance, applied, raced>>
        /\ pc[r] = "record"
        /\ pc' = [pc EXCEPT ![r] = "commit"] \/ pc' = [pc EXCEPT ![r] = "failed"]
    BY <1>12 DEF RecordFulfilment, Rollback
  <2>2. \A q \in Requests : (MayDebit(q)' => MayDebit(q)) /\ (Checked(q)' => Checked(q))
    BY <1>0, <1>12, <2>1 DEF MayDebit, Checked
  <2> QED BY <2>1, <2>2, CoveredFrame
<1>13. ASSUME NEW r \in Requests, CommitRows(r) PROVE Covered'
  <2>1. \A q \in Requests : (MayDebit(q)' => MayDebit(q)) /\ (Checked(q)' => Checked(q))
    BY <1>0, <1>13 DEF CommitRows, MayDebit, Checked
  <2> QED BY <1>13, <2>1, CoveredFrame DEF CommitRows
<1>14. ASSUME NEW r \in Requests, Abort(r) PROVE Covered'
  <2>1. \A q \in Requests : (MayDebit(q)' => MayDebit(q)) /\ (Checked(q)' => Checked(q))
    BY <1>0, <1>c, <1>14 DEF Abort, Rollback, MayDebit, Checked, ControlOf
  <2> QED BY <1>14, <2>1, CoveredFrame DEF Abort
<1>15. CASE Restart
  <2>1. \A q \in Requests : (MayDebit(q)' => MayDebit(q)) /\ (Checked(q)' => Checked(q))
    BY <1>0, <1>c, <1>15 DEF Restart, InFlight, MayDebit, Checked, ControlOf
  <2> QED BY <1>15, <2>1, CoveredFrame DEF Restart
<1>16. CASE UNCHANGED vars
  BY <1>16, CoveredFrame DEF vars, MayDebit, Checked
<1> QED
  BY <1>1, <1>2, <1>3, <1>4, <1>5, <1>6, <1>7, <1>8, <1>9, <1>10, <1>11, <1>12, <1>13,
     <1>14, <1>15, <1>16, <1>17
     DEF Next, RequestStep, Arrival, HandlerStep, Commit, CommitUnanswered

(* A wallet goes below zero only after two debits of it overlapped, or     *)
(* after a deposit of a negative amount, which no check precedes.          *)
THEOREM OverdraftNeedsRace == Spec => []NoOverdraftWithoutRace
<1>1. Init => Bookkeeping /\ Covered
  BY InitTypeOK, InitControl, InitLocks, InitBooks, InitFresh, InitCovered DEF Bookkeeping
<1>2. Bookkeeping /\ Covered /\ [Next]_vars => Bookkeeping' /\ Covered'
  BY TypeStep, ControlStep, LockStep, BooksStep, FreshStep, CoveredStep DEF Bookkeeping
<1>3. Covered => NoOverdraftWithoutRace
  BY DEF Covered
<1> QED BY <1>1, <1>2, <1>3, PTL DEF Spec

-------------------------------------------------------------------------------
(* Notifications.                                                          *)

(* Who was notified of made all three updates, and is about to commit, has *)
(* committed, or was cut off before it could.                              *)
Announced ==
  \A f \in Fulfils :
    /\ f \in notified => /\ call[f] = "applied" /\ leg[f] = 3
                         /\ pc[f] \in {"commit", "done"} \/ (pc[f] = "failed" /\ f \in cut)
    /\ pc[f] \in {"commit", "done"} => f \in notified

(* A step of r that notifies nobody and does not take r past the emit.     *)
LEMMA AnnouncedFrame ==
  ASSUME Announced, notified' = notified, NEW r \in Requests,
         \A q \in Requests \ {r} : pc'[q] = pc[q] /\ call'[q] = call[q] /\ leg'[q] = leg[q],
         cut \subseteq cut',
         r \in Fulfils /\ r \in notified =>
           /\ pc'[r] \in {"commit", "done"} \/ (pc'[r] = "failed" /\ r \in cut')
           /\ call'[r] = call[r] /\ leg'[r] = leg[r],
         r \in Fulfils /\ pc'[r] \in {"commit", "done"} => pc[r] \in {"commit", "done"}
  PROVE  Announced'
BY DEF Announced, Requests, Resolvers

LEMMA AnnouncedStep == TypeOK /\ Control /\ Announced /\ [Next]_vars => Announced'
<1> SUFFICES ASSUME TypeOK, Control, Announced, [Next]_vars PROVE Announced'
  OBVIOUS
<1> USE DEF Goto
<1>0. \A f \in Fulfils : f \in notified =>
        /\ call[f] = "applied"
        /\ pc[f] \in {"commit", "done"} \/ (pc[f] = "failed" /\ f \in cut)
  BY DEF Announced
<1>1. ASSUME NEW r \in Creates, GetHoldWallet(r) \/ PriceOrder(r) PROVE Announced'
  <2>1. /\ notified' = notified /\ cut' = cut /\ r \notin Fulfils /\ r \in Requests
        /\ \A q \in Requests \ {r} : pc'[q] = pc[q] /\ call'[q] = call[q] /\ leg'[q] = leg[q]
    BY <1>1, RequestAssumption DEF GetHoldWallet, PriceOrder, SendLeg, TypeOK, Requests, Resolvers
  <2> QED BY <2>1, AnnouncedFrame
<1>11. ASSUME NEW r \in Requests, WalletUnread(r) PROVE Announced'
  <2>1. /\ notified' = notified /\ cut' = cut /\ pc[r] \in {"new", "found", "checked"} /\ pc'[r] = "failed"
        /\ \A q \in Requests \ {r} : pc'[q] = pc[q] /\ call'[q] = call[q] /\ leg'[q] = leg[q]
    BY <1>11 DEF WalletUnread, Admitted, TypeOK
  <2> QED BY <1>0, <2>1, AnnouncedFrame
<1>2. ASSUME NEW r \in Resolvers, FindOrderToFulfil(r) \/ FindOrderToCancel(r) \/ GetPayWallet(r)
      PROVE  Announced'
  <2>1. /\ notified' = notified /\ cut' = cut /\ r \in Requests
        /\ pc[r] \in {"new", "found"} /\ pc'[r] \in {"found", "checked", "failed"}
        /\ \A q \in Requests \ {r} : pc'[q] = pc[q] /\ call'[q] = call[q] /\ leg'[q] = leg[q]
    BY <1>2 DEF FindOrderToFulfil, FindOrderToCancel, GetPayWallet, Admitted, TypeOK, Requests
  <2> QED BY <1>0, <2>1, AnnouncedFrame
<1>3. ASSUME NEW r \in Resolvers, LockOrder(r) PROVE Announced'
  <2>1. /\ notified' = notified /\ cut' = cut /\ r \in Requests /\ pc[r] = "checked" /\ pc'[r] = "call"
        /\ \A q \in Requests \ {r} : pc'[q] = pc[q] /\ call'[q] = call[q] /\ leg'[q] = leg[q]
    BY <1>3 DEF LockOrder, SendLeg, TypeOK, Requests
  <2> QED BY <1>0, <2>1, AnnouncedFrame
<1>4. ASSUME NEW r \in Requests, WalletUpdate(r) \/ WalletRefuse(r) PROVE Announced'
  <2>1. /\ notified' = notified /\ cut' = cut /\ call[r] = "sent" /\ pc' = pc
        /\ \A q \in Requests \ {r} : pc'[q] = pc[q] /\ call'[q] = call[q] /\ leg'[q] = leg[q]
    BY <1>4 DEF WalletUpdate, WalletRefuse, TypeOK
  <2> QED BY <1>0, <2>1, AnnouncedFrame
<1>5. ASSUME NEW r \in Requests, LegRefused(r) \/ NextLeg(r) \/ Abort(r) PROVE Announced'
  <2>1. /\ notified' = notified /\ cut \subseteq cut'
        /\ \A q \in Requests \ {r} : pc'[q] = pc[q] /\ call'[q] = call[q] /\ leg'[q] = leg[q]
        /\ pc'[r] \in {"call", "failed"}
    BY <1>5 DEF LegRefused, NextLeg, Abort, Rollback, Answered, SendLeg, TypeOK
  <2>2. r \in Fulfils /\ r \in notified =>
          /\ pc'[r] = "failed" /\ r \in cut'
          /\ call'[r] = call[r] /\ leg'[r] = leg[r]
    BY <1>0, <1>5 DEF LegRefused, NextLeg, Abort, Rollback, Answered, TypeOK, Open, InFlight
  <2> QED BY <2>1, <2>2, AnnouncedFrame
<1>6. ASSUME NEW r \in Requests, LegsDone(r) PROVE Announced'
  <2>1. /\ notified' = notified /\ cut' = cut /\ pc[r] = "call"
        /\ \A q \in Requests \ {r} : pc'[q] = pc[q] /\ call'[q] = call[q] /\ leg'[q] = leg[q]
        /\ r \in Fulfils => pc'[r] = "record"
    BY <1>6 DEF LegsDone, Answered, AfterLegs, TypeOK
  <2> QED BY <1>0, <2>1, AnnouncedFrame
<1>7. ASSUME NEW r \in Fulfils, RecordFulfilment(r) PROVE Announced'
  <2>1. pc[r] = "record" /\ call[r] = "applied" /\ leg[r] = 3 /\ r \in Requests
    BY <1>7 DEF RecordFulfilment, Control, ControlOf, LastLeg, Requests, Resolvers
  <2>2. CASE UQ_order_user(target[r], caller[r])
    <3>1. notified' = notified \cup {r} /\ pc' = [pc EXCEPT ![r] = "commit"] /\ cut' = cut
      BY <1>7, <2>2 DEF RecordFulfilment
    <3>2. UNCHANGED <<call, leg>>
      BY <1>7 DEF RecordFulfilment
    <3> QED BY <2>1, <3>1, <3>2 DEF Announced, TypeOK, Requests, Resolvers
  <2>3. CASE ~UQ_order_user(target[r], caller[r])
    <3>1. notified' = notified /\ pc' = [pc EXCEPT ![r] = "failed"] /\ UNCHANGED <<call, leg, cut>>
      BY <1>7, <2>3 DEF RecordFulfilment, Rollback
    <3> QED BY <1>0, <2>1, <3>1, AnnouncedFrame DEF TypeOK
  <2> QED BY <2>2, <2>3
<1>8. ASSUME NEW r \in Requests, CommitRows(r), cut \subseteq cut' PROVE Announced'
  <2>1. /\ notified' = notified /\ pc[r] = "commit" /\ pc'[r] = "done" /\ UNCHANGED <<call, leg>>
        /\ \A q \in Requests \ {r} : pc'[q] = pc[q]
    BY <1>8 DEF CommitRows, TypeOK
  <2> QED BY <1>8, <2>1, AnnouncedFrame
<1>9. CASE Restart
  BY <1>9 DEF Restart, Announced, InFlight, Open, Requests, Resolvers
<1>10. CASE UNCHANGED vars
  BY <1>10 DEF Announced, vars
<1> QED
  BY <1>1, <1>2, <1>3, <1>4, <1>5, <1>6, <1>7, <1>8, <1>9, <1>10, <1>11
     DEF Next, RequestStep, Arrival, HandlerStep, Commit, CommitUnanswered, Resolvers

(* A notification tells of three wallet updates that took effect, and no   *)
(* fulfilment commits without one.                                         *)
THEOREM NotifiedOfPaid == Spec => []NotificationTracksFulfilment
<1>1. Init => Announced
  BY DEF Init, Announced, Requests, Resolvers
<1>2. TypeOK /\ Control /\ Announced => NotificationTracksFulfilment
  <2> SUFFICES ASSUME TypeOK, Control, Announced PROVE NotificationTracksFulfilment
    OBVIOUS
  <2>1. ASSUME NEW f \in notified PROVE applied[f] = Legs(f)
    <3>1. f \in Fulfils /\ f \in Requests
      BY DEF TypeOK, Requests, Resolvers
    <3>2. applied[f] = 1..3
      BY <3>1 DEF Announced, Control, ControlOf
    <3> QED BY <3>1, <3>2 DEF Legs
  <2> QED BY <2>1 DEF Announced, NotificationTracksFulfilment, TypeOK
<1> QED
  BY <1>1, <1>2, AnnouncedStep, InitTypeOK, TypeStep, InitControl, ControlStep, PTL DEF Spec

-------------------------------------------------------------------------------
(* When nothing fails.                                                     *)

(* No update is refused, and a handler that has ended awaits none.         *)
Undisturbed ==
  \A r \in Requests : call[r] # "refused" /\ (pc[r] = "failed" => call[r] # "sent")

LEMMA UndisturbedStep ==
  ASSUME Faults = {}
  PROVE  TypeOK /\ Control /\ Undisturbed /\ [Next]_vars => Undisturbed'
<1> SUFFICES ASSUME TypeOK, Control, Undisturbed, [Next]_vars PROVE Undisturbed'
  OBVIOUS
<1> USE DEF Goto
<1>0. /\ pc \in [Requests -> PcVal] /\ call \in [Requests -> CallVal]
      /\ \A r \in Requests : ControlOf(r)
  BY DEF TypeOK, Control
<1>1. ASSUME NEW r \in Requests, Arrival(r) PROVE Undisturbed'
  <2>1. call' = call /\ pc[r] = "new" /\ \A q \in Requests \ {r} : pc'[q] = pc[q]
    BY <1>0, <1>1 DEF Arrival, GetHoldWallet, FindOrderToFulfil, FindOrderToCancel, Admitted
  <2> QED BY <1>0, <2>1 DEF Undisturbed, ControlOf
<1>2. ASSUME NEW r \in Creates, PriceOrder(r) PROVE Undisturbed'
  <2>1. /\ pc[r] = "wallet"
        /\ \/ /\ call' = [call EXCEPT ![r] = "sent"] /\ pc' = [pc EXCEPT ![r] = "call"]
           \/ /\ call' = call /\ pc' = [pc EXCEPT ![r] = "failed"]
    BY <1>2 DEF PriceOrder, SendLeg
  <2> QED BY <1>0, <2>1 DEF Undisturbed, ControlOf
<1>3. ASSUME NEW r \in Fulfils, GetPayWallet(r) \/ RecordFulfilment(r) PROVE Undisturbed'
  <2>1. /\ call' = call /\ pc[r] \in {"found", "record"}
        /\ \A q \in Requests \ {r} : pc'[q] = pc[q]
    BY <1>0, <1>3 DEF GetPayWallet, RecordFulfilment, Rollback
  <2> QED BY <1>0, <2>1 DEF Undisturbed, ControlOf
<1>4. ASSUME NEW r \in Requests, LockOrder(r) \/ NextLeg(r) PROVE Undisturbed'
  <2>1. /\ call' = [call EXCEPT ![r] = "sent"] /\ pc'[r] = "call"
        /\ \A q \in Requests \ {r} : pc'[q] = pc[q]
    BY <1>0, <1>4 DEF LockOrder, NextLeg, Answered, SendLeg
  <2> QED BY <1>0, <2>1 DEF Undisturbed
<1>5. ASSUME NEW r \in Requests, WalletUpdate(r) PROVE Undisturbed'
  BY <1>0, <1>5 DEF WalletUpdate, Undisturbed
<1>6. ASSUME NEW r \in Requests, WalletRefuse(r) \/ WalletUnread(r) \/ LegRefused(r) \/ Abort(r)
      PROVE  FALSE
  BY <1>6 DEF WalletRefuse, WalletUnread, LegRefused, Abort, Undisturbed
<1>7. ASSUME NEW r \in Requests, LegsDone(r) \/ CommitRows(r) PROVE Undisturbed'
  <2>1. call' = call /\ pc'[r] # "failed" /\ \A q \in Requests \ {r} : pc'[q] = pc[q]
    BY <1>0, <1>7 DEF LegsDone, AfterLegs, CommitRows
  <2> QED BY <2>1 DEF Undisturbed
<1>8. CASE Restart
  BY <1>8 DEF Restart
<1>9. CASE UNCHANGED vars
  BY <1>9 DEF vars, Undisturbed
<1> QED
  BY <1>1, <1>2, <1>3, <1>4, <1>5, <1>6, <1>7, <1>8, <1>9
     DEF Next, RequestStep, HandlerStep, Commit, CommitUnanswered

-------------------------------------------------------------------------------
(* Money that a rolled back request has moved.                             *)

(* A handler that ended while its wallet update was under way was cut off. *)
Severed == \A r \in Requests : pc[r] = "failed" /\ call[r] = "sent" => r \in cut

(* What excuses a rolled back request that has moved money.                *)
Repeated(r) ==
  \E f \in Fulfils \ {r} : target[f] = target[r] /\ caller[f] = caller[r] /\ pc[f] = "done"

Excused(r) == r \in cut \/ (r \in Fulfils /\ (call[r] = "refused" \/ Repeated(r)))

Accounted == StrandedHasCause /\ Severed

(* A step of r after which r itself is accounted for.                      *)
LEMMA AccountedFrame ==
  ASSUME Accounted, NEW r \in Requests, UNCHANGED <<caller, target>>, cut \subseteq cut',
         \A q \in Requests \ {r} : pc'[q] = pc[q] /\ call'[q] = call[q] /\ applied'[q] = applied[q],
         pc[r] # "done" \/ pc'[r] = "done",
         pc'[r] = "failed" /\ applied'[r] # {} => Excused(r)',
         pc'[r] = "failed" /\ call'[r] = "sent" => r \in cut'
  PROVE  Accounted'
<1>1. \A q \in Requests : Repeated(q) => Repeated(q)'
  BY DEF Repeated
<1>2. StrandedHasCause'
  <2> SUFFICES ASSUME NEW q \in Requests, pc'[q] = "failed", applied'[q] # {}
               PROVE  Excused(q)'
    BY DEF StrandedHasCause, Excused, Repeated
  <2>1. q # r => Excused(q)
    BY DEF Accounted, StrandedHasCause, Excused, Repeated
  <2> QED BY <1>1, <2>1 DEF Excused
<1>3. Severed'
  BY DEF Accounted, Severed
<1> QED BY <1>2, <1>3 DEF Accounted

LEMMA AccountedStep == Bookkeeping /\ Accounted /\ [Next]_vars => Accounted'
<1> SUFFICES ASSUME Bookkeeping, Accounted, [Next]_vars PROVE Accounted'
  OBVIOUS
<1> USE DEF Goto, inputs
<1>0. /\ pc \in [Requests -> PcVal] /\ applied \in [Requests -> SUBSET (0..3)]
      /\ call \in [Requests -> CallVal] /\ \A r \in Requests : ControlOf(r)
  BY DEF Bookkeeping, TypeOK, Control
<1>a. \A r \in Requests : call[r] = "none" => applied[r] = {}
  BY <1>0 DEF ControlOf
<1>1. ASSUME NEW r \in Requests, Arrival(r) \/ WalletUnread(r) PROVE Accounted'
  <2>1. /\ UNCHANGED <<caller, target, applied, call, cut>>
        /\ pc[r] \in {"new", "found", "checked"}
        /\ \A q \in Requests \ {r} : pc'[q] = pc[q]
    BY <1>0, <1>1 DEF Arrival, GetHoldWallet, FindOrderToFulfil, FindOrderToCancel, WalletUnread,
                      Admitted
  <2>2. applied[r] = {} /\ call[r] = "none"
    BY <1>0, <1>a, <2>1 DEF ControlOf
  <2> QED BY <2>1, <2>2, AccountedFrame
<1>2. ASSUME NEW r \in Creates, PriceOrder(r) PROVE Accounted'
  <2>1. /\ UNCHANGED <<caller, target, applied, cut>> /\ pc[r] = "wallet"
        /\ \/ pc' = [pc EXCEPT ![r] = "call"] /\ call' = [call EXCEPT ![r] = "sent"]
           \/ pc' = [pc EXCEPT ![r] = "failed"] /\ call' = call
    BY <1>2 DEF PriceOrder, SendLeg
  <2>2. applied[r] = {} /\ call[r] = "none"
    BY <1>0, <1>a, <1>2, <2>1 DEF ControlOf
  <2>3. /\ \A q \in Requests \ {r} : pc'[q] = pc[q] /\ call'[q] = call[q]
        /\ pc'[r] = "failed" => call'[r] = "none"
    BY <1>0, <1>2, <2>1, <2>2
  <2> QED BY <1>2, <2>1, <2>2, <2>3, AccountedFrame
<1>3. ASSUME NEW r \in Fulfils, GetPayWallet(r) PROVE Accounted'
  <2>1. /\ UNCHANGED <<caller, target, applied, call, cut>> /\ pc[r] = "found"
        /\ \A q \in Requests \ {r} : pc'[q] = pc[q]
    BY <1>0, <1>3 DEF GetPayWallet
  <2>2. applied[r] = {} /\ call[r] = "none"
    BY <1>0, <1>a, <1>3, <2>1 DEF ControlOf
  <2> QED BY <1>3, <2>1, <2>2, AccountedFrame
<1>4. ASSUME NEW r \in Fulfils, RecordFulfilment(r) PROVE Accounted'
  <2>1. /\ UNCHANGED <<caller, target, applied, call, cut>> /\ pc[r] = "record"
        /\ call[r] = "applied"
    BY <1>0, <1>4 DEF RecordFulfilment, ControlOf
  <2>2. CASE UQ_order_user(target[r], caller[r])
    <3>1. pc' = [pc EXCEPT ![r] = "commit"]
      BY <1>4, <2>2 DEF RecordFulfilment
    <3>2. pc'[r] # "failed" /\ \A q \in Requests \ {r} : pc'[q] = pc[q]
      BY <1>0, <1>4, <3>1
    <3> QED BY <1>4, <2>1, <3>2, AccountedFrame
  <2>3. CASE ~UQ_order_user(target[r], caller[r])
    <3>1. pc' = [pc EXCEPT ![r] = "failed"]
      BY <1>4, <2>3 DEF RecordFulfilment, Rollback
    <3>2. target[r] \in Creates /\ caller[r] \in Users /\ caller[r] # caller[target[r]]
      BY <1>4, <2>1 DEF Bookkeeping, TypeOK, Books, EngagedOnly, Engaged
    <3>3. PICK f \in Fulfils : f # r /\ target[f] = target[r] /\ caller[f] = caller[r] /\ pc[f] = "done"
      <4>1. txn[target[r]][caller[r]] # "absent"
        BY <2>3 DEF UQ_order_user
      <4> QED BY <2>1, <3>2, <4>1 DEF Bookkeeping, Books, TxnBy, FulfilledBy, ResolversOf, Done
    <3>4. \A q \in Requests \ {r} : pc'[q] = pc[q]
      BY <1>4, <3>1
    <3>5. Excused(r)'
      BY <2>1, <3>3, <3>4 DEF Excused, Repeated
    <3> QED BY <1>4, <2>1, <3>4, <3>5, AccountedFrame
  <2> QED BY <2>2, <2>3
<1>5. ASSUME NEW r \in Requests, LockOrder(r) \/ NextLeg(r) \/ LegsDone(r) PROVE Accounted'
  <2>1. /\ UNCHANGED <<caller, target, applied, cut>>
        /\ pc[r] \in InFlight /\ pc'[r] # "failed"
        /\ \A q \in Requests \ {r} : pc'[q] = pc[q] /\ call'[q] = call[q]
    BY <1>0, <1>5 DEF LockOrder, NextLeg, LegsDone, Answered, AfterLegs, InFlight, SendLeg
  <2> QED BY <2>1, AccountedFrame DEF InFlight
<1>6. ASSUME NEW r \in Requests, CommitRows(r), cut \subseteq cut' PROVE Accounted'
  <2>1. /\ UNCHANGED <<caller, target, applied, call>>
        /\ pc[r] = "commit" /\ pc'[r] = "done"
        /\ \A q \in Requests \ {r} : pc'[q] = pc[q]
    BY <1>0, <1>6 DEF CommitRows
  <2> QED BY <1>6, <2>1, AccountedFrame
<1>7. ASSUME NEW r \in Requests, WalletUpdate(r) \/ WalletRefuse(r) PROVE Accounted'
  <2>1. /\ UNCHANGED <<caller, target, pc, cut>> /\ call[r] = "sent" /\ call'[r] # "sent"
        /\ \A q \in Requests \ {r} : applied'[q] = applied[q] /\ call'[q] = call[q]
    BY <1>0, <1>7 DEF WalletUpdate, WalletRefuse
  <2>2. pc[r] # "done" /\ (pc[r] = "failed" => r \in cut)
    BY <1>0, <2>1 DEF Accounted, Severed, ControlOf
  <2> QED BY <2>1, <2>2, AccountedFrame DEF Excused
<1>8. ASSUME NEW r \in Requests, LegRefused(r) PROVE Accounted'
  <2>1. /\ UNCHANGED <<caller, target, applied, call, cut>>
        /\ pc[r] = "call" /\ pc'[r] = "failed" /\ call[r] = "refused"
        /\ \A q \in Requests \ {r} : pc'[q] = pc[q]
    BY <1>0, <1>8 DEF LegRefused, Rollback
  <2>2. applied[r] # {} => r \in Fulfils
    BY <1>0, <2>1 DEF ControlOf, LastLeg
  <2> QED BY <2>1, <2>2, AccountedFrame DEF Excused
<1>9. ASSUME NEW r \in Requests, Abort(r) PROVE Accounted'
  <2>1. /\ UNCHANGED <<caller, target, applied, call>> /\ cut' = cut \cup ({r} \cap Open)
        /\ pc[r] \in InFlight /\ \A q \in Requests \ {r} : pc'[q] = pc[q]
    BY <1>0, <1>9 DEF Abort, Rollback
  <2>2. r \notin Open => applied[r] = {} /\ call[r] = "none"
    BY <1>0, <1>a, <2>1 DEF Open, InFlight, ControlOf
  <2>3. r \in Open => r \in cut'
    BY <2>1
  <2> QED BY <2>1, <2>2, <2>3, AccountedFrame DEF Excused, InFlight
<1>10. CASE Restart
  <2>1. /\ UNCHANGED <<caller, target, applied, call>> /\ cut' = cut \cup Open
        /\ \A q \in Requests : pc'[q] = IF pc[q] \in InFlight THEN "failed" ELSE pc[q]
    BY <1>10 DEF Restart
  <2>2. \A q \in Requests : pc[q] \in InFlight /\ q \notin cut' => applied[q] = {} /\ call[q] = "none"
    BY <1>0, <1>a, <2>1 DEF Open, InFlight, ControlOf
  <2>3. \A q \in Requests : Repeated(q) => Repeated(q)'
    BY <2>1 DEF Repeated, InFlight
  <2>4. StrandedHasCause'
    <3> SUFFICES ASSUME NEW q \in Requests, pc'[q] = "failed", applied'[q] # {}
                 PROVE  Excused(q)'
      BY DEF StrandedHasCause, Excused, Repeated
    <3>1. CASE pc[q] \in InFlight
      BY <2>1, <2>2, <3>1 DEF Excused
    <3>2. CASE pc[q] \notin InFlight
      <4>1. Excused(q)
        BY <2>1, <3>2 DEF Accounted, StrandedHasCause, Excused, Repeated
      <4> QED BY <2>1, <2>3, <4>1 DEF Excused
    <3> QED BY <3>1, <3>2
  <2>5. Severed'
    BY <2>1, <2>2 DEF Accounted, Severed
  <2> QED BY <2>4, <2>5 DEF Accounted
<1>11. CASE UNCHANGED vars
  BY <1>11 DEF vars, Accounted, StrandedHasCause, Severed
<1> QED
  BY <1>1, <1>2, <1>3, <1>4, <1>5, <1>6, <1>7, <1>8, <1>9, <1>10, <1>11
     DEF Next, RequestStep, HandlerStep, Commit, CommitUnanswered

LEMMA InitAccounted == Init => Accounted
BY DEF Init, Accounted, StrandedHasCause, Severed

(* A request that was rolled back after it moved money was cut off by a    *)
(* fault in its transaction, or is a fulfil that was refused a later       *)
(* update or repeats a committed one, whatever faults occur.               *)
THEOREM StrandedMoney == Spec => []StrandedHasCause
<1>1. Init => Bookkeeping /\ Accounted
  BY InitTypeOK, InitControl, InitLocks, InitBooks, InitFresh, InitAccounted DEF Bookkeeping
<1>2. Bookkeeping /\ Accounted /\ [Next]_vars => Bookkeeping' /\ Accounted'
  BY TypeStep, ControlStep, LockStep, BooksStep, FreshStep, AccountedStep DEF Bookkeeping
<1>3. Accounted => StrandedHasCause
  BY DEF Accounted
<1> QED BY <1>1, <1>2, <1>3, PTL DEF Spec

-------------------------------------------------------------------------------
(* Late resolvers.                                                         *)

(* r has not passed the check of an order that is resolved for good.       *)
Late(r) == pc[r] \in {"new", "failed"} /\ status[target[r]] \in Resolved

LEMMA LateStep ==
  ASSUME NEW r \in Resolvers
  PROVE  Bookkeeping /\ Late(r) /\ [Next]_vars => Late(r)'
<1> SUFFICES ASSUME Bookkeeping, Late(r), [Next]_vars PROVE Late(r)'
  OBVIOUS
<1> USE DEF Goto, inputs, database
<1>0. /\ pc \in [Requests -> PcVal] /\ target[r] \in Creates /\ status \in [Creates -> StatusVal]
      /\ \A q \in Requests : ControlOf(q)
  BY DEF Bookkeeping, TypeOK, Control
<1>1. ASSUME NEW q \in Requests, CommitRows(q) PROVE Late(r)'
  <2>1. /\ target' = target /\ pc[q] = "commit" /\ q # r /\ pc'[r] = pc[r]
    BY <1>0, <1>1 DEF CommitRows, Late
  <2>2. CASE q \in Creates
    <3>1. status[q] = "absent" /\ status' = [status EXCEPT ![q] = "pending"]
      BY <1>1, <2>1, <2>2 DEF CommitRows, CommitCreate, Bookkeeping, Books, Listed, Done
    <3> QED BY <1>0, <2>1, <3>1 DEF Late, Resolved
  <2>3. CASE q \in Resolvers
    <3>1. \/ status' = [status EXCEPT ![target[q]] = "completed"]
          \/ status' = [status EXCEPT ![target[q]] = "cancelled"]
      BY <1>1, <2>3 DEF CommitRows, CommitFulfil, CommitCancel
    <3> QED BY <1>0, <2>1, <3>1 DEF Late, Resolved
  <2> QED BY <2>2, <2>3
<1>2. ASSUME NEW q \in Requests, Arrival(q) PROVE Late(r)'
  <2>1. /\ UNCHANGED <<target, status>>
        /\ q = r => pc'[r] = "failed"
        /\ q # r => pc'[r] = pc[r]
    BY <1>0, <1>2 DEF Arrival, GetHoldWallet, FindOrderToFulfil, FindOrderToCancel, Admitted,
                      MayFulfil, MayCancel, Late, Resolved
  <2> QED BY <2>1 DEF Late
<1>3. ASSUME NEW q \in Requests,
             \/ HandlerStep(q) /\ ~CommitRows(q)
             \/ WalletUpdate(q) \/ WalletUnread(q) \/ WalletRefuse(q) \/ Abort(q)
      PROVE  Late(r)'
  <2>1. /\ UNCHANGED <<target, status>>
        /\ pc'[r] # pc[r] => pc'[r] = "failed"
    <3>1. ASSUME q \in Creates, PriceOrder(q) PROVE UNCHANGED <<target, status>> /\ pc'[r] = pc[r]
      BY <1>0, <3>1 DEF PriceOrder
    <3>2. ASSUME q \in Fulfils, GetPayWallet(q) \/ RecordFulfilment(q)
          PROVE  UNCHANGED <<target, status>> /\ pc'[r] = pc[r]
      BY <1>0, <3>2 DEF GetPayWallet, RecordFulfilment, Rollback, Late
    <3>3. ASSUME LockOrder(q) \/ NextLeg(q) \/ LegsDone(q)
          PROVE  UNCHANGED <<target, status>> /\ pc'[r] = pc[r]
      BY <1>0, <3>3 DEF LockOrder, NextLeg, LegsDone, Answered, Late
    <3>4. ASSUME LegRefused(q) \/ WalletUpdate(q) \/ WalletUnread(q) \/ WalletRefuse(q) \/ Abort(q)
          PROVE  UNCHANGED <<target, status>> /\ (pc'[r] # pc[r] => pc'[r] = "failed")
      BY <1>0, <3>4 DEF LegRefused, WalletUpdate, WalletUnread, WalletRefuse, Abort, Rollback
    <3> QED BY <1>3, <3>1, <3>2, <3>3, <3>4 DEF HandlerStep, Commit
  <2> QED BY <2>1 DEF Late
<1>4. CASE Restart
  BY <1>0, <1>4 DEF Restart, InFlight, Late
<1>5. CASE UNCHANGED vars
  BY <1>5 DEF vars, Late
<1> QED
  BY <1>1, <1>2, <1>3, <1>4, <1>5
     DEF Next, RequestStep, HandlerStep, Commit, CommitUnanswered

(* A fulfil or a cancel that arrives late never commits.                   *)
THEOREM LateNeverCommits == Spec => LateResolverFails
<1> SUFFICES ASSUME NEW r \in Resolvers
             PROVE  Spec => [](pc[r] = "new" /\ status[target[r]] \in Resolved => [](pc[r] # "done"))
  BY DEF LateResolverFails
<1>1. pc[r] = "new" /\ status[target[r]] \in Resolved => Late(r)
  BY DEF Late
<1>2. Late(r) => pc[r] # "done"
  BY DEF Late
<1>3. Bookkeeping /\ Late(r) /\ [Next]_vars => Late(r)'
  BY LateStep
<1> QED BY <1>1, <1>2, <1>3, BookkeepingInvariant, PTL DEF Spec

===============================================================================
