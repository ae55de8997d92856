----------------------------- MODULE ExchangeProofs -----------------------------
(***************************************************************************)
(* The order service and the wallet service together implement             *)
(* OrderService, for any requests, amounts, bounds and faults: the one     *)
(* atomic step that OrderService makes of an update is justified.          *)
(* OrderService's safety theorems therefore hold of the two together.      *)
(***************************************************************************)
EXTENDS Exchange, TLAPS

USE RequestAssumption DEF Resolvers, Requests, Order!Resolvers, Order!Requests

-------------------------------------------------------------------------------
(* Where the wallet service is with a call, and what that says about the   *)
(* update: until the UPDATE has run it has not happened, and a handler     *)
(* sends its updates one by one.                                           *)

ServedOf(r) ==
  /\ applied[r] = 1..leg[r] \/ (leg[r] # 0 /\ applied[r] = 1..(leg[r] - 1))
  /\ leg[r] \in Nat
  /\ leg[r] = 0 <=> call[r] = "none"
  /\ call[r] = "applied" => leg[r] \in applied[r]
  /\ call[r] # "sent" => upc[r] = "new"
  /\ call[r] = "sent" /\ upc[r] \in {"new", "found"} => leg[r] \notin applied[r]
  /\ upc[r] \in {"changed", "done"} => leg[r] \in applied[r]
  /\ pc[r] \in {"new", "wallet", "found", "checked"} => leg[r] = 0
  /\ call[r] = "sent" => pc[r] = "call" \/ r \in cut
  /\ pc[r] \in {"record", "commit"} => call[r] = "applied"

Shape ==
  /\ pc \in [Requests -> PcVal]
  /\ leg \in [Requests -> Nat]
  /\ call \in [Requests -> CallVal]
  /\ applied \in [Requests -> SUBSET Nat]
  /\ cut \subseteq Requests
  /\ upc \in [Requests -> {"new", "found", "changed", "done", "failed"}]

Served == Shape /\ \A r \in Requests : ServedOf(r)

LEMMA ServedInit == ExchangeInit => Served
BY DEF ExchangeInit, Init, Served, Shape, ServedOf, PcVal, CallVal

(* What a step of one request leaves alone of the others.                  *)
Only(r) ==
  \A q \in Requests \ {r} :
    /\ pc'[q] = pc[q] /\ leg'[q] = leg[q] /\ call'[q] = call[q]
    /\ applied'[q] = applied[q] /\ upc'[q] = upc[q]
    /\ q \in cut' <=> q \in cut

LEMMA ServedOnly ==
  ASSUME Served, NEW r \in Requests, Only(r), Shape', ServedOf(r)'
  PROVE  Served'
BY DEF Served, Only, ServedOf

-------------------------------------------------------------------------------
LEMMA OrderStepServed ==
  ASSUME Served, NEW r \in Requests, OrderStep(r)
  PROVE  Served'
<1> USE DEF Goto, PcVal, InFlight, Ended, CallVal, walletVars, Served, Shape, Only, ServedOf
<1>1. upc' = upc
  BY DEF OrderStep
<1>2. CASE Arrival(r)
  <2>1. pc[r] = "new" /\ pc'[r] \in {"wallet", "found", "checked", "failed"}
    BY <1>2 DEF Arrival, GetHoldWallet, FindOrderToFulfil, FindOrderToCancel, Admitted
  <2>2. /\ \A q \in Requests \ {r} : pc'[q] = pc[q]
        /\ pc' \in [Requests -> PcVal]
        /\ UNCHANGED <<leg, call, applied, cut>>
    BY <1>2 DEF Arrival, GetHoldWallet, FindOrderToFulfil, FindOrderToCancel
  <2>3. ServedOf(r)'
    BY <1>1, <2>1, <2>2
  <2> QED BY <1>1, <2>2, <2>3, ServedOnly
<1>3. CASE PriceOrder(r)
  <2>1. CASE SendLeg(r, 1) /\ Goto(r, "call") /\ pc[r] = "wallet" /\ UNCHANGED <<applied, cut>>
    <3>1. applied[r] = 1..(1 - 1) /\ upc[r] = "new"
      BY <2>1
    <3>2. leg'[r] = 1 /\ call'[r] = "sent" /\ pc'[r] = "call" /\ applied'[r] = applied[r]
      BY <2>1 DEF SendLeg
    <3>3. ServedOf(r)'
      BY <1>1, <3>1, <3>2
    <3> QED BY <1>1, <2>1, <3>3, ServedOnly DEF SendLeg
  <2>2. CASE Goto(r, "failed") /\ pc[r] = "wallet" /\ UNCHANGED <<leg, call, applied, cut>>
    BY <1>1, <2>2
  <2> QED BY <1>3, <2>1, <2>2 DEF PriceOrder
<1>4. CASE LockOrder(r)
  <2>1. applied[r] = 1..(1 - 1) /\ upc[r] = "new"
    BY <1>4 DEF LockOrder
  <2>2. leg'[r] = 1 /\ call'[r] = "sent" /\ pc'[r] = "call" /\ applied'[r] = applied[r]
    BY <1>4 DEF LockOrder, SendLeg
  <2>3. ServedOf(r)'
    BY <1>1, <2>1, <2>2
  <2> QED BY <1>1, <1>4, <2>3, ServedOnly DEF LockOrder, SendLeg
<1>5. CASE NextLeg(r)
  <2>1. applied[r] = 1..leg[r] /\ leg'[r] = leg[r] + 1 /\ call'[r] = "sent" /\ upc[r] = "new"
    BY <1>5 DEF NextLeg, Answered, SendLeg
  <2>2. UNCHANGED <<pc, applied, cut>> /\ pc[r] = "call"
    BY <1>5 DEF NextLeg, Answered
  <2>3. ServedOf(r)'
    BY <1>1, <2>1, <2>2
  <2> QED BY <1>1, <1>5, <2>2, <2>3, ServedOnly DEF NextLeg, SendLeg
<1>6. CASE \/ GetPayWallet(r) \/ RecordFulfilment(r) \/ LegsDone(r) \/ LegRefused(r) \/ Abort(r)
           \/ CommitRows(r) /\ cut' \in {cut, cut \cup {r}}
  <2> USE DEF GetPayWallet, RecordFulfilment, LegsDone, LegRefused, CommitRows, Abort, Rollback
  <2>1. UNCHANGED <<leg, call, applied>>
    BY <1>6
  <2>2. PICK l \in PcVal : pc' = [pc EXCEPT ![r] = l]
    BY <1>6 DEF AfterLegs
  <2>3. l \in {"new", "wallet", "found", "checked"} => pc[r] = "found"
    BY <1>6, <2>2 DEF AfterLegs
  <2>4. cut \subseteq cut' /\ cut' \subseteq cut \cup {r}
    BY <1>6
  <2>5. call[r] = "sent" /\ pc[r] = "call" => r \in cut'
    BY <1>6 DEF Answered, Open
  <2>6. l \in {"record", "commit"} => call[r] = "applied"
    BY <1>6, <2>2 DEF AfterLegs, Answered
  <2>7. ServedOf(r)'
    BY <1>1, <2>1, <2>2, <2>3, <2>4, <2>5, <2>6
  <2> QED BY <1>1, <2>1, <2>2, <2>4, <2>7, ServedOnly
<1> QED
  BY <1>2, <1>3, <1>4, <1>5, <1>6 DEF OrderStep, HandlerStep, Commit, CommitUnanswered

(* The statements of the wallet service, in the terms of Exchange.         *)
LEMMA QueryMeans ==
  ASSUME Served, NEW r \in Requests, QueryWallet(r)
  PROVE  /\ call[r] = "sent" /\ UNCHANGED <<vars, members>>
         /\ \/ upc[r] = "new" /\ \E l \in {"found", "failed"} : upc' = [upc EXCEPT ![r] = l]
            \/ upc[r] = "changed" /\ \E l \in {"done", "failed"} : upc' = [upc EXCEPT ![r] = l]
            \/ upc[r] = "found" /\ upc' = [upc EXCEPT ![r] = "failed"]
BY DEF QueryWallet, Wallet!FindWallet, Wallet!ReadBack, Wallet!AbortUpdate

(* balance and applied change together, or neither does.                   *)
LEMMA ExecuteMeans ==
  ASSUME Served, NEW r \in Requests, ExecuteUpdate(r)
  PROVE  LET l == Leg(r, leg[r])
         IN  /\ call[r] = "sent" /\ upc[r] = "found"
             /\ UNCHANGED <<inputs, database, pc, seen, cost, leg, call, notified, cut, raced, members>>
             /\ \/ /\ upc' = [upc EXCEPT ![r] = "changed"]
                   /\ balance' = [balance EXCEPT ![l.user][l.cur] = @ + l.delta]
                   /\ applied' = [applied EXCEPT ![r] = @ \cup {leg[r]}]
                \/ /\ upc' = [upc EXCEPT ![r] = "failed"]
                   /\ UNCHANGED <<balance, applied>>
<1> DEFINE l == Leg(r, leg[r])
           posted == {q \in Requests : leg[q] \in applied[q]}
<1>1. /\ call[r] = "sent" /\ upc[r] = "found"
      /\ UNCHANGED <<inputs, database, pc, seen, cost, leg, call, notified, cut, raced, members>>
  BY DEF ExecuteUpdate, Wallet!ChangeBalance
<1>2. r \notin posted
  BY <1>1 DEF Served, ServedOf
<1>3. \/ upc' = [upc EXCEPT ![r] = "changed"] /\ posted' = posted \cup {r}
      \/ /\ upc' = [upc EXCEPT ![r] = "failed"] /\ posted' = posted
         /\ [w \in Users \X Currency |-> balance[w[1]][w[2]]]'
              = [w \in Users \X Currency |-> balance[w[1]][w[2]]]
  BY DEF ExecuteUpdate, Wallet!ChangeBalance
<1>4. \/ /\ balance' = [balance EXCEPT ![l.user][l.cur] = @ + l.delta]
         /\ applied' = [applied EXCEPT ![r] = @ \cup {leg[r]}]
      \/ UNCHANGED <<balance, applied>>
  BY DEF ExecuteUpdate
<1>5. applied' = [applied EXCEPT ![r] = @ \cup {leg[r]}] => r \in posted'
  BY <1>1 DEF Served, Shape, vars
<1>6. applied' = applied => posted' = posted
  BY <1>1
<1> QED BY <1>1, <1>2, <1>3, <1>4, <1>5, <1>6

LEMMA CallStepServed ==
  ASSUME Served, NEW r \in Requests, CallStep(r)
  PROVE  Served'
<1> USE DEF PcVal, CallVal, Shape, Only, ServedOf
<1>1. CASE QueryWallet(r)
  <2>1. UNCHANGED <<pc, leg, call, applied, cut>>
    BY <1>1, QueryMeans DEF vars
  <2>2. ServedOf(r)'
    BY <1>1, <2>1, QueryMeans DEF Served
  <2>3. PICK l \in {"found", "done", "failed"} : upc' = [upc EXCEPT ![r] = l]
    BY <1>1, QueryMeans
  <2>4. Only(r) /\ Shape'
    BY <2>1, <2>3 DEF Served
  <2> QED BY <2>2, <2>4, ServedOnly
<1>2. CASE ExecuteUpdate(r)
  <2>1. UNCHANGED <<pc, leg, call, cut>> /\ call[r] = "sent" /\ upc[r] = "found"
    BY <1>2, ExecuteMeans DEF Served
  <2>2. applied[r] = 1..(leg[r] - 1) /\ leg[r] # 0 /\ leg[r] \in Nat
    BY <2>1 DEF Served
  <2>3. CASE upc' = [upc EXCEPT ![r] = "failed"] /\ applied' = applied
    BY <2>1, <2>2, <2>3, ServedOnly DEF Served
  <2>4. CASE /\ upc' = [upc EXCEPT ![r] = "changed"]
             /\ applied' = [applied EXCEPT ![r] = @ \cup {leg[r]}]
    <3>1. applied'[r] = 1..leg[r]
      <4>1. (1..(leg[r] - 1)) \cup {leg[r]} = 1..leg[r]
        BY <2>2
      <4> QED BY <2>2, <2>4, <4>1 DEF Served
    <3> QED BY <2>1, <2>2, <2>4, <3>1, ServedOnly DEF Served
  <2> QED BY <1>2, <2>3, <2>4, ExecuteMeans
<1>3. CASE Deliver(r)
  BY <1>3, ServedOnly DEF Deliver, Reply, Served
<1>4. CASE LoseCall(r)
  BY <1>4, ServedOnly DEF LoseCall, walletVars, Served
<1> QED BY <1>1, <1>2, <1>3, <1>4 DEF CallStep

LEMMA RestartMeans ==
  ASSUME Served, RestartWalletService
  PROVE  /\ UNCHANGED <<vars, members>>
         /\ upc' = [r \in Requests |-> IF upc[r] \in {"found", "changed"} THEN "failed" ELSE upc[r]]
BY DEF RestartWalletService, Wallet!RestartWallet

LEMMA ServedStep == Served /\ [ExchangeNext]_evars => Served'
<1> SUFFICES ASSUME Served, [ExchangeNext]_evars PROVE Served'
  OBVIOUS
<1>1. ASSUME NEW r \in Requests, ReadFails(r) PROVE Served'
  <2> USE DEF Goto, walletVars, PcVal, Ended, Served, Shape, ServedOf, Only
  <2>1. /\ pc[r] \in {"new", "found", "checked"} /\ pc' = [pc EXCEPT ![r] = "failed"]
        /\ UNCHANGED <<leg, call, applied, cut, upc>>
    BY <1>1 DEF ReadFails, Admitted
  <2>2. leg[r] = 0 /\ call[r] = "none"
    BY <2>1
  <2>3. ServedOf(r)'
    BY <2>1, <2>2
  <2> QED BY <2>1, <2>3, ServedOnly
<1>2. ASSUME NEW u \in Users, Join(u) PROVE Served'
  BY <1>2 DEF Join, vars, Served, Shape, ServedOf
<1>3. CASE RestartWalletService
  BY <1>3, RestartMeans DEF vars, Served, Shape, ServedOf
<1>4. CASE Restart /\ UNCHANGED walletVars
  <2> USE DEF walletVars, PcVal, InFlight, Ended, Served, Shape, ServedOf
  <2>1. /\ pc' = [r \in Requests |-> IF pc[r] \in InFlight THEN "failed" ELSE pc[r]]
        /\ cut' = cut \cup Open /\ UNCHANGED <<leg, call, applied, upc>>
    BY <1>4 DEF Restart
  <2>2. ASSUME NEW r \in Requests PROVE ServedOf(r)'
    BY <2>1, <2>2 DEF Open
  <2>3. Shape'
    BY <2>1 DEF Open
  <2> QED BY <2>2, <2>3
<1>5. CASE UNCHANGED evars
  BY <1>5 DEF evars, vars, Served, Shape, ServedOf
<1>6. ASSUME NEW r \in Requests, OrderStep(r) \/ CallStep(r) PROVE Served'
  BY <1>6, OrderStepServed, CallStepServed
<1> QED BY <1>1, <1>2, <1>3, <1>4, <1>5, <1>6 DEF ExchangeNext

-------------------------------------------------------------------------------
(* The refinement.  CallSeen differs from call only for an update that has *)
(* happened and whose answer is under way, or was an error.                *)

(* A handler of OrderService may be told what a handler was told here.     *)
LEMMA SendSeen ==
  ASSUME Served, NEW r \in Requests, NEW i \in Nat, i \notin applied[r],
         SendLeg(r, i), applied' = applied
  PROVE  Order!SendLeg(r, i)
BY DEF Served, Shape, SendLeg, Order!SendLeg, CallSeen

LEMMA CallKept == UNCHANGED <<leg, applied, call>> => CallSeen' = CallSeen
BY DEF CallSeen

LEMMA CutKept == UNCHANGED <<pc, leg, applied, call, cut>> => CutSeen' = CutSeen
BY DEF CutSeen, Misled

LEMMA CutAdded ==
  ASSUME Served, Shape', NEW r \in Requests, Only(r), NEW C \in SUBSET {r},
         r \in CutSeen' <=> r \in CutSeen \/ r \in C
  PROVE  CutSeen' = CutSeen \cup C
<1>1. CutSeen \subseteq Requests /\ CutSeen' \subseteq Requests
  BY DEF Served, Shape, CutSeen
<1>2. \A q \in Requests \ {r} : q \in CutSeen' <=> q \in CutSeen
  BY DEF Only, CutSeen, Misled
<1> QED BY <1>1, <1>2

LEMMA OrderStepOnly ==
  ASSUME Served, NEW r \in Requests, OrderStep(r)
  PROVE  Only(r)
<1> USE DEF Served, Shape, Only, Goto, Rollback, SendLeg, walletVars
<1>1. CASE Arrival(r)
  BY <1>1 DEF OrderStep, Arrival, GetHoldWallet, FindOrderToFulfil, FindOrderToCancel
<1>2. CASE PriceOrder(r) \/ LockOrder(r) \/ NextLeg(r)
  BY <1>2 DEF OrderStep, PriceOrder, LockOrder, NextLeg
<1>3. CASE GetPayWallet(r) \/ RecordFulfilment(r) \/ LegsDone(r) \/ LegRefused(r)
  BY <1>3 DEF OrderStep, GetPayWallet, RecordFulfilment, LegsDone, LegRefused
<1>4. CASE Commit(r) \/ CommitUnanswered(r) \/ Abort(r)
  BY <1>4 DEF OrderStep, Commit, CommitUnanswered, CommitRows, Abort
<1> QED BY <1>1, <1>2, <1>3, <1>4 DEF OrderStep, HandlerStep

(* A handler that ends by itself is not told an error after the fact, but  *)
(* by LegRefused.                                                          *)
LEMMA CutUnmoved ==
  ASSUME Served, Served', NEW r \in Requests, OrderStep(r), Arrival(r) \/ HandlerStep(r),
         LegRefused(r) => leg[r] \notin applied[r]
  PROVE  CutSeen' = CutSeen
<1> USE DEF Served, Shape, ServedOf, Goto, Rollback
<1>1. pc[r] # "failed"
  BY DEF Arrival, GetHoldWallet, FindOrderToFulfil, FindOrderToCancel, Admitted, HandlerStep,
         PriceOrder, LockOrder, NextLeg, GetPayWallet, RecordFulfilment, LegsDone, LegRefused,
         Answered, Commit, CommitRows
<1>2. cut' = cut
  BY DEF Arrival, GetHoldWallet, FindOrderToFulfil, FindOrderToCancel, HandlerStep,
         PriceOrder, LockOrder, NextLeg, GetPayWallet, RecordFulfilment, LegsDone, LegRefused, Commit
<1>3. ~Misled(r)'
  <2>1. CASE Arrival(r)
    BY <2>1 DEF Arrival, GetHoldWallet, FindOrderToFulfil, FindOrderToCancel, Admitted, Misled
  <2>2. CASE PriceOrder(r)
    BY <2>2 DEF PriceOrder, SendLeg, Misled
  <2>3. CASE LockOrder(r) \/ NextLeg(r)
    BY <2>3 DEF LockOrder, NextLeg, Answered, Misled
  <2>4. CASE GetPayWallet(r) \/ RecordFulfilment(r)
    BY <2>4 DEF GetPayWallet, RecordFulfilment, Misled
  <2>5. CASE LegsDone(r) \/ Commit(r)
    BY <2>5 DEF LegsDone, AfterLegs, Commit, CommitRows, Misled
  <2>6. CASE LegRefused(r)
    BY <2>6 DEF LegRefused, Misled
  <2> QED BY <2>1, <2>2, <2>3, <2>4, <2>5, <2>6 DEF HandlerStep
<1>4. CutSeen' = CutSeen \cup {}
  BY <1>1, <1>2, <1>3, OrderStepOnly, CutAdded DEF CutSeen, Misled
<1> QED BY <1>4

(* The steps that end a handler inside its transaction.                    *)
LEMMA CutGrows ==
  ASSUME Served, Served', NEW r \in Requests, OrderStep(r)
  PROVE  /\ LegRefused(r) /\ leg[r] \in applied[r] => CutSeen' = CutSeen \cup {r}
         /\ CommitUnanswered(r) => CutSeen' = CutSeen \cup {r}
         /\ Abort(r) => CutSeen' = CutSeen \cup ({r} \cap Open)
<1> USE OrderStepOnly, CutAdded DEF Served, Shape, ServedOf
<1>1. ASSUME LegRefused(r), leg[r] \in applied[r] PROVE CutSeen' = CutSeen \cup {r}
  <2>1. Misled(r)' /\ cut' = cut
    BY <1>1 DEF LegRefused, Rollback, Goto, Misled
  <2> QED BY <1>1, <2>1 DEF CutSeen
<1>2. ASSUME CommitUnanswered(r) PROVE CutSeen' = CutSeen \cup {r}
  <2>1. r \in cut'
    BY <1>2 DEF CommitUnanswered
  <2> QED BY <1>2, <2>1 DEF CutSeen
<1>3. ASSUME Abort(r) PROVE CutSeen' = CutSeen \cup ({r} \cap Open)
  <2>1. cut' = cut \cup ({r} \cap Open) /\ pc[r] # "failed" /\ pc'[r] = "failed"
        /\ UNCHANGED <<leg, call, applied>>
    BY <1>3 DEF Abort, InFlight, Rollback, Goto
  <2>2. Misled(r)' => r \in Open
    BY <1>3, <2>1 DEF Misled, Open, Abort, InFlight
  <2> QED BY <2>1, <2>2 DEF CutSeen, Misled
<1> QED BY <1>1, <1>2, <1>3


LEMMA AnsweredSeen ==
  ASSUME Served, NEW r \in Requests, Answered(r)
  PROVE  Order!Answered(r)
BY DEF Served, Shape, ServedOf, Answered, Order!Answered, CallSeen

LEMMA DebitSeen ==
  ASSUME NEW q \in Requests
  PROVE  DebitCur(q) = Order!DebitCur(q) /\ DebitWallet(q) = Order!DebitWallet(q)
BY DEF DebitWallet, Order!DebitWallet, DebitCur, Order!DebitCur, HoldCur, Order!HoldCur,
       PayCur, Order!PayCur, Quote, Order!Quote, Other, Order!Other

LEMMA ReadSeen ==
  ASSUME Served, NEW r \in Requests, ReadWallet(r)
  PROVE  Order!ReadWallet(r)
<1>1. ASSUME NEW q \in Requests PROVE MayDebit(q) <=> Order!MayDebit(q)
  <2>1. call[q] = "sent" /\ 1 \notin applied[q] <=> CallSeen[q] = "sent" /\ 1 \notin applied[q]
    BY DEF Served, Shape, ServedOf, CallSeen
  <2> QED BY <2>1 DEF MayDebit, Order!MayDebit
<1> QED BY <1>1, DebitSeen DEF ReadWallet, Order!ReadWallet

(* What does not depend on call or on the faults is the same for both.     *)
LEMMA SameTerms ==
  /\ Order!InFlight = InFlight /\ Order!Ended = Ended /\ Order!Open = Open
  /\ \A r \in Requests, i \in Nat : Order!Leg(r, i) = Leg(r, i)
  /\ \A r \in Requests : Order!LastLeg(r) = LastLeg(r)
  /\ \A r \in Requests : Order!AfterLegs(r) = AfterLegs(r)
  /\ \A r \in Requests : Order!Unlocked(r) = Unlocked(r)
  /\ \A f \in Fulfils : Order!Pay(target[f]) = Pay(target[f])
<1> USE DEF Cents, Order!Cents, HalfUp, Order!HalfUp, Truncated, Order!Truncated,
            StoredAmount, Order!StoredAmount, StoredCost, Order!StoredCost
<1>1. \A o : /\ Order!HoldCur(o) = HoldCur(o) /\ Order!PayCur(o) = PayCur(o)
             /\ Order!Pay(o) = Pay(o) /\ Order!Payout(o) = Payout(o) /\ Order!Hold(o) = Hold(o)
             /\ Order!StoredCost(o) = StoredCost(o)
  BY DEF HoldCur, Order!HoldCur, PayCur, Order!PayCur, Quote, Order!Quote, Other, Order!Other,
         Pay, Order!Pay, Payout, Order!Payout, Hold, Order!Hold, HoldAt, Order!HoldAt
<1>2. ASSUME NEW r \in Requests, NEW i \in Nat PROVE Order!Leg(r, i) = Leg(r, i)
  BY <1>1 DEF Leg, Order!Leg, CreateLeg, Order!CreateLeg, FulfilLeg, Order!FulfilLeg,
              CancelLeg, Order!CancelLeg, Update, Order!Update
<1> QED
  BY <1>1, <1>2 DEF InFlight, Order!InFlight, Ended, Order!Ended, Open, Order!Open, LastLeg, Order!LastLeg,
                    AfterLegs, Order!AfterLegs, Unlocked, Order!Unlocked

LEMMA SameCardinality == ASSUME NEW S PROVE Order!Cardinality(S) = Cardinality(S)
BY DEF Cardinality, Order!Cardinality

LEMMA SameAdmitted == ASSUME NEW r, Admitted(r) PROVE Order!Admitted(r)
BY SameCardinality, SameTerms DEF Admitted, Order!Admitted

LEMMA ArrivalSeen ==
  ASSUME Served, NEW r \in Requests, Arrival(r), CutSeen' = CutSeen
  PROVE  Order!Arrival(r)
<1> USE SameAdmitted DEF Goto, Order!Goto, inputs, Order!inputs, database, Order!database
<1>1. CASE r \in Creates /\ GetHoldWallet(r)
  BY <1>1, ReadSeen, CallKept DEF GetHoldWallet, Order!GetHoldWallet, Order!Arrival
<1>2. CASE r \in Fulfils /\ FindOrderToFulfil(r)
  BY <1>2, CallKept DEF FindOrderToFulfil, Order!FindOrderToFulfil, MayFulfil, Order!MayFulfil,
                        Order!Arrival
<1>3. CASE r \in Cancels /\ FindOrderToCancel(r)
  BY <1>3, CallKept DEF FindOrderToCancel, Order!FindOrderToCancel, MayCancel, Order!MayCancel,
                        Order!Arrival
<1> QED BY <1>1, <1>2, <1>3 DEF Arrival

LEMMA PriceSeen ==
  ASSUME Served, NEW r \in Creates, PriceOrder(r), CutSeen' = CutSeen
  PROVE  Order!PriceOrder(r)
<1> USE DEF Goto, Order!Goto, inputs, Order!inputs, database, Order!database
<1>1. \A total : /\ Order!Affordable(r, total) <=> Affordable(r, total)
                 /\ Order!Storable(r, total) <=> Storable(r, total)
  BY DEF Affordable, Order!Affordable, HoldAt, Order!HoldAt, Storable, Order!Storable,
         Cents, Order!Cents, HalfUp, Order!HalfUp, Truncated, Order!Truncated
<1>2. SendLeg(r, 1) => Order!SendLeg(r, 1)
  BY SendSeen DEF PriceOrder, Served, Shape, ServedOf
<1>3. pc[r] = "wallet" /\ UNCHANGED <<dto, caller, target, status, txn, holder, seen, balance, notified, applied, raced>>
  BY DEF PriceOrder
<1> QED
  BY <1>1, <1>2, <1>3, CallKept DEF PriceOrder, Order!PriceOrder, calculateTotalCost,
     Order!calculateTotalCost

LEMMA CommitSeen == ASSUME NEW r \in Requests, CommitRows(r) PROVE Order!CommitRows(r)
BY SameTerms, CallKept DEF CommitRows, Order!CommitRows, CommitCreate, Order!CommitCreate,
   CommitFulfil, Order!CommitFulfil, CommitCancel, Order!CommitCancel, Goto, Order!Goto,
   inputs, Order!inputs

LEMMA HandlerSeen ==
  ASSUME Served, NEW r \in Requests, HandlerStep(r), CutSeen' = CutSeen,
         LegRefused(r) => leg[r] \notin applied[r]
  PROVE  Order!HandlerStep(r)
<1> USE SameTerms DEF Goto, Order!Goto, inputs, Order!inputs, database, Order!database
<1>2. CASE r \in Creates /\ PriceOrder(r)
  BY <1>2, PriceSeen DEF Order!HandlerStep
<1>3. CASE r \in Fulfils /\ GetPayWallet(r)
  BY <1>3, ReadSeen, CallKept DEF GetPayWallet, Order!GetPayWallet, CanPay, Order!CanPay,
                                  Order!HandlerStep
<1>4. CASE r \in Fulfils /\ RecordFulfilment(r)
  BY <1>4, CallKept DEF RecordFulfilment, Order!RecordFulfilment, UQ_order_user,
     Order!UQ_order_user, Rollback, Order!Rollback, Order!HandlerStep
<1>5. CASE r \in Resolvers /\ LockOrder(r)
  <2>1. 1 \notin applied[r]
    BY <1>5 DEF LockOrder, Served, Shape, ServedOf
  <2>2. Order!SendLeg(r, 1)
    BY <1>5, <2>1, SendSeen DEF LockOrder
  <2> QED BY <1>5, <2>2 DEF LockOrder, Order!LockOrder, RowFree, Order!RowFree, Order!HandlerStep
<1>6. CASE NextLeg(r)
  <2>1. leg[r] + 1 \in Nat /\ leg[r] + 1 \notin applied[r]
    BY DEF Served, Shape, ServedOf
  <2>2. Order!SendLeg(r, leg[r] + 1) /\ Order!Answered(r)
    BY <1>6, <2>1, SendSeen, AnsweredSeen DEF NextLeg
  <2> QED BY <1>6, <2>2 DEF NextLeg, Order!NextLeg, Order!HandlerStep
<1>7. CASE LegsDone(r)
  BY <1>7, AnsweredSeen, CallKept DEF LegsDone, Order!LegsDone, Order!HandlerStep
<1>8. CASE LegRefused(r)
  <2>1. CallSeen' = CallSeen /\ Order!Rollback(r) /\ CallSeen[r] = "refused"
    BY <1>8, CallKept DEF LegRefused, Rollback, Order!Rollback, CallSeen
  <2> QED BY <1>8, <2>1 DEF LegRefused, Order!LegRefused, Order!HandlerStep
<1>9. CASE Commit(r)
  BY <1>9, CommitSeen DEF Commit, Order!Commit, Order!HandlerStep
<1> QED
  BY <1>2, <1>3, <1>4, <1>5, <1>6, <1>7, <1>8, <1>9 DEF HandlerStep

(* The steps that end a handler inside its transaction.                    *)
LEMMA EndSeen ==
  ASSUME Served, Served', NEW r \in Requests, OrderStep(r),
         \/ Abort(r) \/ CommitUnanswered(r)
         \/ LegRefused(r) /\ leg[r] \in applied[r]
  PROVE  Order!Abort(r) \/ Order!CommitUnanswered(r)
<1> USE SameTerms DEF inputs, Order!inputs, Goto, Order!Goto, Rollback, Order!Rollback
<1>1. CASE Abort(r)
  BY <1>1, CutGrows, CallKept DEF Abort, Order!Abort
<1>2. CASE CommitUnanswered(r)
  BY <1>2, CutGrows, CommitSeen DEF CommitUnanswered, Order!CommitUnanswered
<1>3. CASE LegRefused(r) /\ leg[r] \in applied[r]
  <2>1. CutSeen' = CutSeen \cup {r}
    BY <1>3, CutGrows
  <2>2. r \in Open /\ pc[r] \in InFlight
    BY <1>3 DEF LegRefused, Open, InFlight
  <2>3. CutSeen' = CutSeen \cup ({r} \cap Open)
    BY <2>1, <2>2
  <2> QED BY <1>3, <2>2, <2>3, CallKept DEF LegRefused, Order!Abort
<1> QED BY <1>1, <1>2, <1>3

LEMMA OrderStepSeen ==
  ASSUME Served, Served', NEW r \in Requests, OrderStep(r)
  PROVE  Order!RequestStep(r)
<1>1. CASE Abort(r) \/ CommitUnanswered(r) \/ (LegRefused(r) /\ leg[r] \in applied[r])
  BY <1>1, EndSeen DEF Order!RequestStep
<1>2. CASE Arrival(r) \/ (HandlerStep(r) /\ ~(LegRefused(r) /\ leg[r] \in applied[r]))
  <2>1. CutSeen' = CutSeen
    BY <1>2, CutUnmoved DEF Arrival, GetHoldWallet, FindOrderToFulfil, FindOrderToCancel,
       Admitted, LegRefused
  <2> QED BY <1>2, <2>1, ArrivalSeen, HandlerSeen DEF Order!RequestStep
<1> QED BY <1>1, <1>2 DEF OrderStep

(* The update happens when the UPDATE is executed; an error answer that    *)
(* was none before it is a refusal.                                        *)
LEMMA CallStepSeen ==
  ASSUME Served, Served', NEW r \in Requests, CallStep(r)
  PROVE  [Order!Next]_(Order!vars)
<1> USE DEF inputs, Order!inputs, database, Order!database
<1>0. SUFFICES \/ Order!WalletUpdate(r) \/ Order!WalletRefuse(r) \/ UNCHANGED Order!vars
  BY DEF Order!Next, Order!RequestStep
<1>1. CASE QueryWallet(r)
  BY <1>1, QueryMeans, CallKept, CutKept DEF Order!vars, vars
<1>2. CASE ExecuteUpdate(r)
  <2> DEFINE l == Leg(r, leg[r])
  <2>1. /\ call[r] = "sent" /\ leg[r] \notin applied[r] /\ leg[r] \in Nat
        /\ CallSeen[r] = "sent" /\ Order!Leg(r, leg[r]) = l
    BY <1>2, ExecuteMeans, SameTerms DEF Served, ServedOf, CallSeen
  <2>2. CASE /\ balance' = [balance EXCEPT ![l.user][l.cur] = @ + l.delta]
             /\ applied' = [applied EXCEPT ![r] = @ \cup {leg[r]}]
    <3>1. CallSeen' = [CallSeen EXCEPT ![r] = "applied"]
      BY <1>2, <2>2, ExecuteMeans DEF Served, Shape, CallSeen
    <3>2. CutSeen' = CutSeen
      BY <1>2, <2>1, <2>2, ExecuteMeans DEF Served, Shape, CutSeen, Misled
    <3> QED BY <1>2, <2>1, <2>2, <3>1, <3>2, ExecuteMeans DEF Order!WalletUpdate
  <2>3. CASE UNCHANGED <<balance, applied>>
    BY <1>2, <2>3, ExecuteMeans, CallKept, CutKept DEF Order!vars
  <2> QED BY <1>2, <2>2, <2>3, ExecuteMeans
<1>3. ASSUME NEW v \in {"applied", "refused"}, call' = [call EXCEPT ![r] = v], call[r] = "sent",
             v = "refused" \/ leg[r] \in applied[r],
             UNCHANGED <<inputs, database, pc, seen, cost, leg, balance, notified, cut, applied, raced>>
      PROVE  Order!WalletRefuse(r) \/ UNCHANGED Order!vars
  <2>0. CutSeen' = CutSeen
    BY <1>3 DEF Served, Shape, ServedOf, CutSeen, Misled
  <2>1. CASE leg[r] \in applied[r]
    <3>1. CallSeen' = CallSeen
      BY <1>3, <2>1 DEF Served, Shape, CallSeen
    <3> QED BY <1>3, <2>0, <3>1 DEF Order!vars
  <2>2. CASE leg[r] \notin applied[r]
    <3>1. CallSeen[r] = "sent" /\ CallSeen' = [CallSeen EXCEPT ![r] = "refused"]
      BY <1>3, <2>2 DEF Served, Shape, CallSeen
    <3> QED BY <1>3, <2>0, <3>1 DEF Order!WalletRefuse
  <2> QED BY <2>1, <2>2
<1>4. CASE Deliver(r)
  <2>1. /\ call[r] = "sent" /\ call' = [call EXCEPT ![r] = Reply(r)]
        /\ UNCHANGED <<inputs, database, pc, seen, cost, leg, balance, notified, cut, applied, raced>>
    BY <1>4 DEF Deliver
  <2>2. Reply(r) \in {"applied", "refused"} /\ (Reply(r) = "refused" \/ leg[r] \in applied[r])
    BY DEF Reply, Served, ServedOf
  <2> QED BY <1>3, <2>1, <2>2
<1>5. CASE LoseCall(r)
  <2>1. /\ call[r] = "sent" /\ call' = [call EXCEPT ![r] = "refused"]
        /\ UNCHANGED <<inputs, database, pc, seen, cost, leg, balance, notified, cut, applied, raced>>
    BY <1>5 DEF LoseCall
  <2> QED BY <1>3, <2>1
<1> QED BY <1>1, <1>2, <1>4, <1>5 DEF CallStep

LEMMA StepSeen == Served /\ [ExchangeNext]_evars => [Order!Next]_(Order!vars)
<1> SUFFICES ASSUME Served, [ExchangeNext]_evars PROVE [Order!Next]_(Order!vars)
  OBVIOUS
<1> USE DEF inputs, Order!inputs, database, Order!database
<1>0. Served'
  BY ServedStep
<1>1. ASSUME NEW r \in Requests, OrderStep(r) PROVE Order!Next
  BY <1>0, <1>1, OrderStepSeen DEF Order!Next
<1>2. ASSUME NEW r \in Requests, ReadFails(r) PROVE Order!Next
  <2>1. pc' = [pc EXCEPT ![r] = "failed"] /\ call[r] = "none" /\ UNCHANGED <<call, leg, applied, cut>>
    BY <1>2 DEF ReadFails, Admitted, Goto, Served, ServedOf
  <2>2. pc[r] # "failed"
    BY <1>2 DEF ReadFails, Admitted
  <2>3. CutSeen' = CutSeen
    BY <2>1, <2>2 DEF CutSeen, Misled, Served, Shape
  <2> QED BY <1>2, <2>3, SameAdmitted, CallKept DEF ReadFails, Order!WalletUnread, Goto, Order!Goto,
          Order!Next, Order!RequestStep
<1>3. ASSUME NEW u \in Users, Join(u) PROVE UNCHANGED Order!vars
  BY <1>3, CallKept, CutKept DEF Join, vars, Order!vars
<1>4. CASE RestartWalletService
  BY <1>4, RestartMeans, CallKept, CutKept DEF vars, Order!vars
<1>5. CASE Restart
  <2>1. /\ pc' = [r \in Requests |-> IF pc[r] \in InFlight THEN "failed" ELSE pc[r]]
        /\ cut' = cut \cup Open /\ UNCHANGED <<leg, call, applied>>
    BY <1>5 DEF Restart
  <2>2. ASSUME NEW r \in Requests PROVE r \in CutSeen' <=> r \in CutSeen \cup Open
    BY <2>1, <2>2 DEF Served, ServedOf, CutSeen, Misled, Open, InFlight
  <2>3. CutSeen \subseteq Requests /\ CutSeen' \subseteq Requests /\ Open \subseteq Requests
    BY <1>0 DEF Served, Shape, CutSeen, Open
  <2>4. CutSeen' = CutSeen \cup Open
    BY <2>2, <2>3
  <2> QED BY <1>5, <2>4, SameTerms, CallKept DEF Restart, Order!Restart, Order!Next
<1>6. CASE UNCHANGED evars
  BY <1>6, CallKept, CutKept DEF evars, vars, Order!vars
<1> QED BY <1>0, <1>1, <1>2, <1>3, <1>4, <1>5, <1>6, CallStepSeen DEF ExchangeNext

LEMMA InitSeen == ExchangeInit => Order!Init
<1> SUFFICES ASSUME ExchangeInit PROVE Order!Init
  OBVIOUS
<1>1. CallSeen = [r \in Requests |-> "none"] /\ CutSeen = {}
  BY DEF ExchangeInit, Init, CallSeen, CutSeen, Misled
<1> QED BY <1>1 DEF ExchangeInit, Init, Order!Init, Dto, Order!Dto, Currency, Order!Currency

(* Whatever the two services, their faults and the registration of users   *)
(* do, the wallet calls of the order service behave like the atomic ones   *)
(* of OrderService, so the theorems about OrderService that hold for all   *)
(* faults hold of the two services together.                               *)
THEOREM ExchangeImplementsOrderService == ExchangeSpec => ImplementsOrderService
<1> QED
  BY ServedInit, ServedStep, InitSeen, StepSeen, PTL DEF ExchangeSpec, ImplementsOrderService, Order!Spec

-------------------------------------------------------------------------------
(* What OrderServiceProofs proves of OrderService holds of the two         *)
(* services.  Theory is the same instance of OrderService as Order, with   *)
(* its theorems.                                                           *)
Theory == INSTANCE OrderServiceProofs WITH
  call   <- CallSeen,
  cut    <- CutSeen,
  Faults <- Faults \cup {"refuse", "abort"}

LEMMA TheoryApplies ==
  Theory!CentAssumption /\ Theory!RequestAssumption /\ Theory!AmountAssumption /\ Theory!BoundAssumption
<1>1. Theory!CentAssumption
  BY CentAssumption DEF Theory!CentAssumption
<1>2. Theory!RequestAssumption
  BY RequestAssumption DEF Theory!RequestAssumption, Theory!Requests, Theory!Resolvers
<1>3. Theory!AmountAssumption
  BY AmountAssumption DEF Theory!AmountAssumption, Theory!Currency, Currency
<1>4. Theory!BoundAssumption
  BY BoundAssumption DEF Theory!BoundAssumption, Theory!FaultKinds, FaultKinds
<1> QED BY <1>1, <1>2, <1>3, <1>4

LEMMA TheoryInit == Order!Init => Theory!Init
BY DEF Order!Init, Theory!Init, Order!Dto, Theory!Dto, Order!Currency, Theory!Currency,
       Theory!Requests, Theory!Resolvers

LEMMA TheoryStep ==
  ASSUME NEW r \in Requests
  PROVE  Order!RequestStep(r) => Theory!RequestStep(r)
<1> USE DEF Theory!Requests, Theory!Resolvers, Order!Goto, Theory!Goto,
            Order!inputs, Theory!inputs, Order!database, Theory!database,
            Order!SendLeg, Theory!SendLeg, Order!Rollback, Theory!Rollback,
            Order!Unlocked, Theory!Unlocked, Order!InFlight, Theory!InFlight,
            Order!LastLeg, Theory!LastLeg, Order!Answered, Theory!Answered
<1> USE DEF Order!Quote, Theory!Quote, Order!Other, Theory!Other, Order!HoldCur, Theory!HoldCur,
            Order!PayCur, Theory!PayCur, Order!HoldAt, Theory!HoldAt, Order!Cents, Theory!Cents,
            Order!HalfUp, Theory!HalfUp, Order!Truncated, Theory!Truncated
<1>1. Order!Admitted(r) => Theory!Admitted(r)
  <2>1. \A S : Order!Cardinality(S) = Theory!Cardinality(S)
    BY DEF Order!Cardinality, Theory!Cardinality
  <2> QED BY <2>1 DEF Order!Admitted, Theory!Admitted
<1>2. Order!ReadWallet(r) => Theory!ReadWallet(r)
  <2>1. \A q \in Requests : /\ Order!MayDebit(q) <=> Theory!MayDebit(q)
                           /\ Order!DebitWallet(q) = Theory!DebitWallet(q)
                           /\ Order!DebitCur(q) = Theory!DebitCur(q)
    BY DEF Order!MayDebit, Theory!MayDebit, Order!DebitWallet, Theory!DebitWallet,
           Order!DebitCur, Theory!DebitCur
  <2> QED BY <2>1 DEF Order!ReadWallet, Theory!ReadWallet
<1>3. \A o : /\ Order!StoredAmount(o) = Theory!StoredAmount(o)
             /\ Order!StoredCost(o) = Theory!StoredCost(o)
             /\ Order!Pay(o) = Theory!Pay(o) /\ Order!Payout(o) = Theory!Payout(o)
             /\ Order!Hold(o) = Theory!Hold(o)
  BY DEF Order!StoredAmount, Theory!StoredAmount, Order!StoredCost, Theory!StoredCost,
         Order!Pay, Theory!Pay, Order!Payout, Theory!Payout, Order!Hold, Theory!Hold
<1>4. \A i : Order!Leg(r, i) = Theory!Leg(r, i)
  BY <1>3 DEF Order!Leg, Theory!Leg, Order!CreateLeg, Theory!CreateLeg, Order!FulfilLeg,
     Theory!FulfilLeg, Order!CancelLeg, Theory!CancelLeg, Order!Update, Theory!Update
<1>5. Order!Arrival(r) => Theory!Arrival(r)
  BY <1>1, <1>2 DEF Order!Arrival, Theory!Arrival, Order!GetHoldWallet, Theory!GetHoldWallet,
     Order!FindOrderToFulfil, Theory!FindOrderToFulfil, Order!FindOrderToCancel,
     Theory!FindOrderToCancel, Order!MayFulfil, Theory!MayFulfil, Order!MayCancel, Theory!MayCancel
<1>6. Order!PriceOrder(r) => Theory!PriceOrder(r)
  <2>1. \A total : /\ Order!Affordable(r, total) <=> Theory!Affordable(r, total)
                   /\ Order!Storable(r, total) <=> Theory!Storable(r, total)
    BY DEF Order!Affordable, Theory!Affordable, Order!Storable, Theory!Storable
  <2> QED BY <2>1 DEF Order!PriceOrder, Theory!PriceOrder, Order!calculateTotalCost,
          Theory!calculateTotalCost
<1>7. ASSUME r \in Fulfils, Order!GetPayWallet(r) PROVE Theory!GetPayWallet(r)
  BY <1>2, <1>3, <1>7 DEF Order!GetPayWallet, Theory!GetPayWallet, Order!CanPay, Theory!CanPay
<1>8. Order!RecordFulfilment(r) => Theory!RecordFulfilment(r)
  BY DEF Order!RecordFulfilment, Theory!RecordFulfilment, Order!UQ_order_user, Theory!UQ_order_user
<1>9. Order!LockOrder(r) => Theory!LockOrder(r)
  BY DEF Order!LockOrder, Theory!LockOrder, Order!RowFree, Theory!RowFree
<1>10. Order!NextLeg(r) \/ Order!LegsDone(r) \/ Order!LegRefused(r)
         => Theory!NextLeg(r) \/ Theory!LegsDone(r) \/ Theory!LegRefused(r)
  BY DEF Order!NextLeg, Theory!NextLeg, Order!LegsDone, Theory!LegsDone, Order!AfterLegs,
         Theory!AfterLegs, Order!LegRefused, Theory!LegRefused
<1>11. Order!CommitRows(r) => Theory!CommitRows(r)
  BY DEF Order!CommitRows, Theory!CommitRows, Order!CommitCreate, Theory!CommitCreate,
         Order!CommitFulfil, Theory!CommitFulfil, Order!CommitCancel, Theory!CommitCancel
<1>12. Order!HandlerStep(r) => Theory!HandlerStep(r)
  BY <1>6, <1>7, <1>8, <1>9, <1>10, <1>11 DEF Order!HandlerStep, Theory!HandlerStep,
     Order!Commit, Theory!Commit
<1>13. Order!WalletUpdate(r) => Theory!WalletUpdate(r)
  BY <1>4 DEF Order!WalletUpdate, Theory!WalletUpdate
<1>14. Order!WalletUnread(r) => Theory!WalletUnread(r)
  BY <1>1 DEF Order!WalletUnread, Theory!WalletUnread
<1>15. Order!WalletRefuse(r) \/ Order!Abort(r) => Theory!WalletRefuse(r) \/ Theory!Abort(r)
  BY DEF Order!WalletRefuse, Theory!WalletRefuse, Order!Abort, Theory!Abort, Order!Open, Theory!Open
<1>16. Order!CommitUnanswered(r) => Theory!CommitUnanswered(r)
  BY <1>11 DEF Order!CommitUnanswered, Theory!CommitUnanswered
<1> QED
  BY <1>5, <1>12, <1>13, <1>14, <1>15, <1>16 DEF Order!RequestStep, Theory!RequestStep

LEMMA ExchangeIsTheory == ExchangeSpec => Theory!Spec
<1>1. [Order!Next]_(Order!vars) => [Theory!Next]_(Theory!vars)
  <2>1. UNCHANGED Order!vars => UNCHANGED Theory!vars
    BY DEF Order!vars, Theory!vars
  <2>2. Order!Restart => Theory!Restart
    BY DEF Order!Restart, Theory!Restart, Order!inputs, Theory!inputs, Order!InFlight,
           Order!Open, Theory!Open,
           Theory!InFlight, Theory!Requests, Theory!Resolvers
  <2> QED BY <2>1, <2>2, TheoryStep DEF Order!Next, Theory!Next, Theory!Requests, Theory!Resolvers
<1> QED
  BY <1>1, TheoryInit, ExchangeImplementsOrderService, PTL
     DEF ImplementsOrderService, Order!Spec, Theory!Spec

(* However the statements of the two services interleave, whatever is      *)
(* refused or cut off in either of them, an order that can be seen is paid *)
(* for, one that is resolved was resolved by a request that made all its   *)
(* updates, nobody is paid before the fulfiller has paid, no user fulfils  *)
(* an order twice, and the tables of the order database agree.             *)
THEOREM ExchangeIsSafe ==
  ExchangeSpec => [](/\ OrdersAreFunded
                     /\ ResolutionIsPaid
                     /\ CreditOnlyAfterDebit
                     /\ PendingMeansUnresolved
                     /\ BooksAgree
                     /\ NobodyFulfilsTwice)
<1> USE DEF Theory!Requests, Theory!Resolvers
<1>1. /\ Theory!OrdersAreFunded => OrdersAreFunded
      /\ Theory!ResolutionIsPaid => ResolutionIsPaid
      /\ Theory!CreditOnlyAfterDebit => CreditOnlyAfterDebit
      /\ Theory!PendingMeansUnresolved => PendingMeansUnresolved
      /\ Theory!BooksAgree => BooksAgree
      /\ Theory!NobodyFulfilsTwice => NobodyFulfilsTwice
  BY DEF Theory!OrdersAreFunded, OrdersAreFunded, Theory!ResolutionIsPaid, ResolutionIsPaid,
         Theory!CreditOnlyAfterDebit, CreditOnlyAfterDebit, Theory!Legs, Legs,
         Theory!PendingMeansUnresolved, PendingMeansUnresolved, Theory!ResolversOf, ResolversOf,
         Theory!BooksAgree, BooksAgree, Theory!NobodyFulfilsTwice, NobodyFulfilsTwice
<1>2. /\ Theory!CentAssumption /\ Theory!RequestAssumption
      /\ Theory!AmountAssumption /\ Theory!BoundAssumption
  BY TheoryApplies
<1>3. Theory!Spec => []Theory!OrdersAreFunded
  BY <1>2, Theory!Funded
<1>4. Theory!Spec => []Theory!ResolutionIsPaid
  BY <1>2, Theory!Paid
<1>5. Theory!Spec => []Theory!CreditOnlyAfterDebit
  BY <1>2, Theory!DebitFirst
<1>6. Theory!Spec => []Theory!PendingMeansUnresolved
  BY <1>2, Theory!PendingIsUnresolved
<1>7. Theory!Spec => []Theory!BooksAgree
  BY <1>2, Theory!TablesAgree
<1>8. Theory!Spec => []Theory!NobodyFulfilsTwice
  BY <1>2, Theory!FulfilledOnce
<1> QED
  BY <1>1, <1>3, <1>4, <1>5, <1>6, <1>7, <1>8, ExchangeIsTheory, PTL
===============================================================================
