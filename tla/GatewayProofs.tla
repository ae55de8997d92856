----------------------------- MODULE GatewayProofs -----------------------------
(***************************************************************************)
(* Theorems of the marketplace behind its gateway, for any number of       *)
(* users, calls and orders and any set of faults.  Seen from the order     *)
(* service a client and a gateway only choose which requests arrive, so    *)
(* what OrderServiceProofs proves holds here too.                          *)
(***************************************************************************)
EXTENDS Gateway, OrderServiceProofs

USE RequestAssumption DEF Resolvers, Requests

-------------------------------------------------------------------------------
LEMMA HandlerStepOrStutter == [GatewayNext]_gvars => [Next]_vars
<1>1. ASSUME NEW r \in Requests, CallStep(r) PROVE [Next]_vars
  BY <1>1 DEF CallStep, SendCall, RefuseHeader, Serve, Behind, Answer, ReadBackFails, LoseConnection, Next
<1>2. ASSUME NEW f \in Fulfils, MailStep(f) PROVE UNCHANGED vars
  BY <1>2 DEF MailStep, Consume, SendEmail
<1>3. MailFault => UNCHANGED vars
  BY DEF MailFault, RestartBroker, RestartNotification
<1>4. UNCHANGED gvars => UNCHANGED vars
  BY DEF gvars
<1>5. Restart => Next
  BY DEF Next
<1> QED BY <1>1, <1>2, <1>3, <1>4, <1>5 DEF GatewayNext

(* What clients do through the gateway is behaviour of the order service.  *)
THEOREM GatewayImplementsOrderService == GatewaySpec => Spec
<1>1. GatewayInit => Init
  BY DEF GatewayInit
<1> QED BY <1>1, HandlerStepOrStutter, PTL DEF GatewaySpec, Spec

-------------------------------------------------------------------------------
(* Steps of a request, seen from the others and from itself.               *)

LEMMA OthersKept ==
  ASSUME TypeOK, NEW q \in Requests, RequestStep(q), NEW r \in Requests \ {q}
  PROVE  /\ pc'[r] = pc[r] /\ applied'[r] = applied[r] /\ call'[r] = call[r]
         /\ r \in cut' <=> r \in cut
<1> USE DEF Goto
<1>0. /\ pc \in [Requests -> PcVal] /\ applied \in [Requests -> SUBSET (0..3)]
      /\ call \in [Requests -> CallVal]
  BY DEF TypeOK
<1>1. CASE Arrival(q)
  BY <1>0, <1>1 DEF Arrival, GetHoldWallet, FindOrderToFulfil, FindOrderToCancel
<1>2. CASE HandlerStep(q)
  BY <1>0, <1>2 DEF HandlerStep, PriceOrder, GetPayWallet, LockOrder, LegRefused, NextLeg,
                    LegsDone, RecordFulfilment, Commit, CommitRows, Rollback, SendLeg
<1>3. CASE WalletUpdate(q) \/ WalletUnread(q) \/ WalletRefuse(q) \/ Abort(q) \/ CommitUnanswered(q)
  BY <1>0, <1>3 DEF WalletUpdate, WalletUnread, WalletRefuse, Abort, Rollback, CommitUnanswered,
                    CommitRows
<1> QED BY <1>1, <1>2, <1>3 DEF RequestStep

(* Nothing is left to do for a handler that has ended but the wallet       *)
(* update it had sent.                                                     *)
LEMMA EndedStep ==
  ASSUME TypeOK, NEW r \in Requests, pc[r] \in Ended, RequestStep(r)
  PROVE  /\ call[r] = "sent" /\ UNCHANGED <<pc, cut>>
         /\ call'[r] \in {"applied", "refused"}
         /\ applied'[r] = applied[r] \/ applied'[r] = applied[r] \cup {leg[r]}
<1>0. applied \in [Requests -> SUBSET (0..3)] /\ call \in [Requests -> CallVal]
  BY DEF TypeOK
<1>1. pc[r] \notin InFlight \cup {"new"}
  BY DEF Ended, InFlight
<1>2. ~Arrival(r)
  BY <1>1 DEF Arrival, GetHoldWallet, FindOrderToFulfil, FindOrderToCancel, Admitted
<1>3. ~HandlerStep(r)
  BY <1>1 DEF InFlight, HandlerStep, PriceOrder, GetPayWallet, LockOrder, LegRefused, NextLeg,
              LegsDone, RecordFulfilment, Commit, CommitRows, Answered
<1>4. ~(WalletUnread(r) \/ Abort(r) \/ CommitUnanswered(r))
  BY <1>1 DEF InFlight, WalletUnread, Admitted, Abort, CommitUnanswered, CommitRows
<1> QED BY <1>0, <1>2, <1>3, <1>4 DEF RequestStep, WalletUpdate, WalletRefuse

(* A resolver that arrives when its order is not pending is refused.       *)
LEMMA ArrivesLate ==
  ASSUME TypeOK, Control, NEW r \in Resolvers, pc[r] = "new", status[target[r]] # "pending",
         RequestStep(r)
  PROVE  pc'[r] = "failed" /\ applied' = applied
<1> USE DEF Goto
<1>0. pc \in [Requests -> PcVal] /\ call[r] = "none"
  BY DEF TypeOK, Control, ControlOf
<1>1. ~HandlerStep(r) /\ ~CommitUnanswered(r)
  BY DEF HandlerStep, PriceOrder, GetPayWallet, LockOrder, LegRefused, NextLeg,
         LegsDone, RecordFulfilment, Commit, CommitUnanswered, CommitRows, Answered
<1>2. CASE Arrival(r)
  BY <1>0, <1>2 DEF Arrival, FindOrderToFulfil, FindOrderToCancel, MayFulfil, MayCancel
<1>3. CASE WalletUpdate(r) \/ WalletUnread(r) \/ WalletRefuse(r) \/ Abort(r)
  BY <1>0, <1>3 DEF WalletUpdate, WalletUnread, WalletRefuse, Abort, Rollback
<1> QED BY <1>1, <1>2, <1>3 DEF RequestStep

-------------------------------------------------------------------------------
(* Calls.  A call that was not sent has no handler, one that was answered  *)
(* has ended, or was refused by the gateway, and a patient client has one  *)
(* call open at a time.                                                    *)

HopOf(r) ==
  /\ hop[r] = "idle" => pc[r] = "new"
  /\ hop[r] = "ok" => pc[r] = "done"
  /\ hop[r] = "error" => pc[r] \in Ended \cup {"new"}

OneOpen ==
  \A r, q \in Requests :
    r # q /\ caller[r] = caller[q] /\ caller[r] \in Patient => hop[r] # "open" \/ hop[q] # "open"

Calls == /\ hop \in [Requests -> HopVal]
         /\ \A r \in Requests : HopOf(r)
         /\ OneOpen

Healthy == Bookkeeping /\ Accounted

LEMMA HealthyStep == Healthy /\ [Next]_vars => Healthy'
BY TypeStep, ControlStep, LockStep, BooksStep, FreshStep, AccountedStep
   DEF Bookkeeping, Healthy

(* Steps that serve no request.                                            *)
Hopping(r) == SendCall(r) \/ RefuseHeader(r) \/ Answer(r) \/ ReadBackFails(r) \/ LoseConnection(r)

LEMMA HopStep ==
  ASSUME Calls, NEW r \in Requests, Hopping(r)
  PROVE  /\ UNCHANGED vars
         /\ hop' \in [Requests -> HopVal]
         /\ hop'[r] \in {"open", "ok", "error", "lost"}
         /\ hop'[r] = "open" => MaySend(r)
         /\ hop[r] \in {"idle", "open"}
         /\ hop[r] = "idle" => hop'[r] \in {"open", "error"} /\ MaySend(r)
         /\ hop'[r] = "ok" => pc[r] = "done"
         /\ hop'[r] = "error" => pc[r] \in Ended \/ hop[r] = "idle"
         /\ \A q \in Requests \ {r} : hop'[q] = hop[q]
BY DEF Calls, Hopping, SendCall, RefuseHeader, Answer, ReadBackFails, LoseConnection, MaySend, Move,
       HopVal, Answerable, Errored, Ended

LEMMA GatewaySteps ==
  [GatewayNext]_gvars =>
    \/ \E r \in Requests : Hopping(r)
    \/ \E r \in Requests : Serve(r)
    \/ Restart /\ hop' = hop
    \/ UNCHANGED <<vars, hop>>
<1>1. ASSUME NEW r \in Requests, CallStep(r) PROVE Hopping(r) \/ Serve(r)
  BY <1>1 DEF CallStep, Hopping
<1>2. ASSUME NEW f \in Fulfils, MailStep(f) PROVE UNCHANGED vars
  BY <1>2 DEF MailStep, Consume, SendEmail
<1>3. MailFault => UNCHANGED vars
  BY DEF MailFault, RestartBroker, RestartNotification
<1>4. UNCHANGED gvars => UNCHANGED <<vars, hop>>
  BY DEF gvars
<1> QED BY <1>1, <1>2, <1>3, <1>4 DEF GatewayNext

(* A request that is served has been sent, or has ended already.           *)
LEMMA ServedWasSent ==
  ASSUME Calls, NEW r \in Requests, Serve(r)
  PROVE  /\ hop' = hop /\ RequestStep(r)
         /\ hop[r] \in {"idle", "ok", "error"} => pc[r] \in Ended
BY DEF Calls, HopOf, Serve, Behind, Sent, Ended

(* A restart of the order service ends no handler that has an answer.      *)
LEMMA RestartKeeps ==
  ASSUME Restart, NEW r \in Requests, pc[r] \in Ended \cup {"new"}
  PROVE  pc'[r] = pc[r] /\ applied' = applied /\ call' = call /\ (r \in cut' <=> r \in cut)
BY DEF Restart, Ended, InFlight, Open

LEMMA CallsStep == Healthy /\ Calls /\ [GatewayNext]_gvars => Calls'
<1> SUFFICES ASSUME Healthy, Calls, [GatewayNext]_gvars PROVE Calls'
  OBVIOUS
<1>0. TypeOK /\ Control /\ UNCHANGED inputs
  BY HandlerStepOrStutter, InputsKept DEF Healthy, Bookkeeping
<1>1. ASSUME NEW r \in Requests, Hopping(r) PROVE Calls'
  <2>1. UNCHANGED <<caller, pc>>
    BY <1>1, HopStep DEF vars
  <2>2. \A q \in Requests : HopOf(q)'
    BY <1>1, <2>1, HopStep DEF Calls, HopOf
  <2>3. OneOpen'
    <3>1. CASE hop'[r] = "open"
      <4>1. \A q \in Requests : caller[q] = caller[r] /\ caller[r] \in Patient => hop[q] # "open"
        BY <1>1, <3>1, HopStep DEF MaySend
      <4> QED BY <1>1, <2>1, <4>1, HopStep DEF Calls, OneOpen
    <3>2. CASE hop'[r] # "open"
      BY <1>1, <2>1, <3>2, HopStep DEF Calls, OneOpen
    <3> QED BY <3>1, <3>2
  <2> QED BY <1>1, <2>2, <2>3, HopStep DEF Calls
<1>2. ASSUME NEW r \in Requests, Serve(r) PROVE Calls'
  <2>1. hop' = hop /\ caller' = caller /\ RequestStep(r)
    BY <1>0, <1>2, ServedWasSent DEF inputs
  <2>2. hop[r] \in {"idle", "ok", "error"} => pc'[r] = pc[r]
    BY <1>0, <1>2, ServedWasSent, EndedStep
  <2>3. \A q \in Requests \ {r} : pc'[q] = pc[q]
    BY <1>0, <2>1, OthersKept
  <2>4. \A q \in Requests : HopOf(q)'
    BY <2>1, <2>2, <2>3 DEF Calls, HopOf
  <2> QED BY <2>1, <2>4 DEF Calls, OneOpen
<1>3. CASE Restart /\ hop' = hop
  <2>1. \A q \in Requests : hop[q] \in {"idle", "ok", "error"} => pc'[q] = pc[q]
    BY <1>3, RestartKeeps DEF Calls, HopOf, Ended
  <2>2. \A q \in Requests : HopOf(q)'
    BY <1>3, <2>1 DEF Calls, HopOf
  <2> QED BY <1>0, <1>3, <2>2 DEF Calls, OneOpen, inputs
<1>4. CASE UNCHANGED <<vars, hop>>
  BY <1>4 DEF vars, Calls, HopOf, OneOpen
<1> QED BY <1>1, <1>2, <1>3, <1>4, GatewaySteps

-------------------------------------------------------------------------------
(* The call q of a client that awaits its answers, when another call of it *)
(* for the same order was answered and had moved money for good.           *)

Settled(r) == hop[r] \in {"ok", "error"} /\ applied[r] # {} /\ ~Stranded(r)

Twin(r, q) ==
  r # q /\ caller[r] = caller[q] /\ target[r] = target[q] /\ caller[r] \in Patient

Spent(q) == pc[q] \in {"new", "failed"} /\ applied[q] = {}

Harmless ==
  \A r, q \in Resolvers :
    Twin(r, q) /\ Settled(r) /\ hop[q] # "lost" => Spent(q) \/ Stranded(q)

(* A handler that failed with an update under way is stranded.             *)
LEMMA UnderWay ==
  ASSUME Healthy, NEW r \in Requests, pc[r] \in Ended, call[r] = "sent"
  PROVE  pc[r] = "failed" /\ r \in cut /\ Stranded(r)
<1>1. pc[r] = "failed"
  BY DEF Healthy, Bookkeeping, Control, ControlOf, Ended
<1> QED BY <1>1 DEF Healthy, Accounted, Severed, Stranded

LEMMA SettledMeans ==
  ASSUME Healthy, Calls, NEW r \in Resolvers, Settled(r)
  PROVE  pc[r] \in Ended /\ status[target[r]] # "pending"
<1>1. pc[r] = "new" => applied[r] = {}
  BY DEF Healthy, Bookkeeping, Control, ControlOf
<1>2. pc[r] \in Ended
  BY <1>1 DEF Settled, Calls, HopOf, Ended
<1>3. PICK f \in Resolvers : target[f] = target[r] /\ pc[f] = "done"
  <2>1. CASE pc[r] = "done"
    BY <2>1
  <2>2. CASE pc[r] = "failed"
    BY <2>2 DEF Healthy, Accounted, StrandedHasCause, Settled, Stranded
  <2> QED BY <1>2, <2>1, <2>2 DEF Ended
<1>4. target[r] \in Creates
  BY DEF Healthy, Bookkeeping, TypeOK
<1>5. status[target[r]] # "pending"
  BY <1>3, <1>4 DEF Healthy, Bookkeeping, Books, PendingMeansUnresolved, ResolversOf
<1> QED BY <1>2, <1>5

LEMMA HarmlessStep == Healthy /\ Calls /\ Harmless /\ [GatewayNext]_gvars => Harmless'
<1> SUFFICES ASSUME Healthy, Calls, Harmless, [GatewayNext]_gvars,
                    NEW r \in Resolvers, NEW q \in Resolvers,
                    Twin(r, q)', Settled(r)', hop'[q] # "lost"
             PROVE  (Spent(q) \/ Stranded(q))'
  BY DEF Harmless
<1>0. TypeOK /\ Control /\ UNCHANGED <<caller, target>>
  BY HandlerStepOrStutter, InputsKept DEF Healthy, Bookkeeping, inputs
<1>1. Twin(r, q)
  BY <1>0 DEF Twin
<1>2. ASSUME NEW s \in Requests, Hopping(s) PROVE (Spent(q) \/ Stranded(q))'
  <2>1. UNCHANGED vars
    BY <1>2, HopStep
  <2>2. hop[q] # "lost"
    BY <1>2, HopStep
  <2>3. SUFFICES Spent(q) \/ Stranded(q)
    BY <2>1 DEF Spent, Stranded, vars
  <2>a. applied[r] # {} /\ ~Stranded(r) /\ hop'[r] \in {"ok", "error"}
    BY <2>1 DEF Settled, Stranded, vars
  <2>4. CASE Settled(r)
    BY <1>1, <2>2, <2>4 DEF Harmless
  <2>5. CASE ~Settled(r)
    <3>1. s = r
      BY <1>2, <2>a, <2>5, HopStep DEF Settled
    <3>2. hop[r] = "open"
      BY <1>0, <1>2, <2>a, <3>1, HopStep DEF Calls, HopOf, Control, ControlOf
    <3>3. hop[q] \in {"idle", "ok", "error"}
      BY <1>1, <2>2, <3>2 DEF Calls, OneOpen, Twin, HopVal
    <3>4. Stranded(q) \/ applied[q] = {}
      <4>1. CASE hop[q] = "idle"
        BY <1>0, <4>1 DEF Calls, HopOf, Control, ControlOf
      <4>2. CASE hop[q] \in {"ok", "error"}
        <5>1. Twin(q, r)
          BY <1>1 DEF Twin
        <5> QED BY <2>a, <3>2, <4>2, <5>1 DEF Harmless, Settled, Spent
      <4> QED BY <3>3, <4>1, <4>2
    <3>5. pc[q] \in {"new"} \cup Ended
      BY <3>3 DEF Calls, HopOf, Ended
    <3>6. pc[q] = "done" => applied[q] # {}
      BY <1>0 DEF Control, ControlOf, LastLeg
    <3> QED BY <3>4, <3>5, <3>6 DEF Spent, Ended, Stranded
  <2> QED BY <2>4, <2>5
<1>3. ASSUME NEW s \in Requests, Serve(s) PROVE (Spent(q) \/ Stranded(q))'
  <2>1. hop' = hop /\ RequestStep(s)
    BY <1>3, ServedWasSent
  <2>3. s # r
    <3> SUFFICES ASSUME s = r PROVE FALSE
      OBVIOUS
    <3>1. hop[r] \in {"ok", "error"}
      BY <2>1 DEF Settled
    <3>2. pc[r] \in Ended
      BY <1>3, <3>1, ServedWasSent
    <3>3. call[r] = "sent" /\ UNCHANGED <<pc, cut>>
      BY <1>0, <2>1, <3>2, EndedStep
    <3>4. pc[r] = "failed" /\ r \in cut
      BY <3>2, <3>3, UnderWay
    <3> QED BY <3>3, <3>4 DEF Settled, Stranded
  <2>4. /\ pc'[r] = pc[r] /\ applied'[r] = applied[r] /\ call'[r] = call[r]
        /\ r \in cut' <=> r \in cut
    BY <1>0, <2>1, <2>3, OthersKept
  <2>5. Settled(r) /\ hop[q] # "lost"
    BY <2>1, <2>4 DEF Settled, Stranded
  <2>6. Spent(q) \/ Stranded(q)
    BY <1>1, <2>5 DEF Harmless
  <2>7. CASE s = q /\ pc[q] \in Ended
    <3>1. call[q] = "sent" /\ UNCHANGED <<pc, cut>>
      BY <1>0, <2>1, <2>7, EndedStep
    <3>2. pc[q] = "failed" /\ q \in cut
      BY <2>7, <3>1, UnderWay
    <3> QED BY <3>1, <3>2 DEF Stranded
  <2>8. CASE s = q /\ pc[q] \notin Ended
    <3>1. pc[q] = "new" /\ applied[q] = {}
      BY <2>6, <2>8 DEF Spent, Stranded, Ended
    <3>2. status[target[q]] # "pending"
      BY <1>1, <2>5, SettledMeans DEF Twin
    <3> QED BY <1>0, <2>1, <2>8, <3>1, <3>2, ArrivesLate DEF Spent
  <2>9. CASE s # q
    <3>1. /\ pc'[q] = pc[q] /\ applied'[q] = applied[q] /\ call'[q] = call[q]
          /\ q \in cut' <=> q \in cut
      BY <1>0, <2>1, <2>9, OthersKept
    <3> QED BY <2>6, <3>1 DEF Spent, Stranded
  <2> QED BY <2>7, <2>8, <2>9
<1>4. CASE Restart /\ hop' = hop
  <2>1. pc[r] \in Ended \cup {"new"}
    BY <1>4 DEF Settled, Calls, HopOf, Ended
  <2>2. Settled(r) /\ hop[q] # "lost"
    BY <1>4, <2>1, RestartKeeps DEF Settled, Stranded
  <2>3. Spent(q) \/ Stranded(q)
    BY <1>1, <2>2 DEF Harmless
  <2>4. pc[q] \in Ended \cup {"new"}
    BY <2>3 DEF Spent, Stranded, Ended
  <2> QED BY <1>4, <2>3, <2>4, RestartKeeps DEF Spent, Stranded
<1>5. CASE UNCHANGED <<vars, hop>>
  BY <1>1, <1>5 DEF vars, Harmless, Settled, Spent, Stranded
<1> QED BY <1>2, <1>3, <1>4, <1>5, GatewaySteps

LEMMA InitGateway == GatewayInit => Healthy /\ Calls /\ Harmless
<1> SUFFICES ASSUME GatewayInit PROVE Healthy /\ Calls /\ Harmless
  OBVIOUS
<1>1. Init /\ hop = [r \in Requests |-> "idle"]
  BY DEF GatewayInit
<1>2. Healthy
  BY <1>1, InitTypeOK, InitControl, InitLocks, InitBooks, InitFresh, InitAccounted
     DEF Healthy, Bookkeeping
<1>3. Calls /\ Harmless
  BY <1>1 DEF Init, Calls, HopOf, HopVal, OneOpen, Harmless, Settled
<1> QED BY <1>2, <1>3

LEMMA CallsInvariant == GatewaySpec => [](Healthy /\ Calls /\ Harmless)
<1>1. Healthy /\ Calls /\ Harmless /\ [GatewayNext]_gvars => Healthy' /\ Calls' /\ Harmless'
  BY HealthyStep, CallsStep, HarmlessStep, HandlerStepOrStutter
<1> QED BY InitGateway, <1>1, PTL DEF GatewaySpec

(* A client that awaits its answers moves money once, however often it     *)
(* repeats a call and whatever fails, unless the gateway lost one of the   *)
(* calls while it was being served or a fault rolled one of them back.     *)
THEOREM RepeatsAreSafe == GatewaySpec => []RepeatsAreSafeUnlessLost
<1>1. Healthy /\ Calls /\ Harmless => RepeatsAreSafeUnlessLost
  <2> SUFFICES ASSUME Healthy, Calls, Harmless, NEW r \in Resolvers, NEW q \in Resolvers,
                      Twin(r, q), applied[r] # {}, applied[q] # {},
                      hop[r] # "lost", hop[q] # "lost", ~Stranded(r), ~Stranded(q)
               PROVE  FALSE
    BY DEF RepeatsAreSafeUnlessLost, Twin
  <2>1. pc[r] # "new" /\ pc[q] # "new"
    BY DEF Healthy, Bookkeeping, Control, ControlOf
  <2>2. hop[r] \in {"open", "ok", "error"} /\ hop[q] \in {"open", "ok", "error"}
    BY <2>1 DEF Calls, HopOf, HopVal
  <2>3. hop[r] # "open" \/ hop[q] # "open"
    BY DEF Calls, OneOpen, Twin
  <2>4. Twin(q, r)
    BY DEF Twin
  <2> QED BY <2>2, <2>3, <2>4 DEF Harmless, Settled, Spent
<1> QED BY <1>1, CallsInvariant, PTL

(* A step that leaves an answered call as it was, but for the one wallet   *)
(* update that was under way when its handler failed.                      *)
Final(r) ==
  /\ pc'[r] = pc[r]
  /\ hop'[r] = hop[r]
  /\ applied'[r] # applied[r] =>
       /\ hop[r] = "error" /\ pc[r] = "failed" /\ call[r] = "sent"
       /\ applied'[r] = applied[r] \cup {leg[r]}
  /\ call'[r] # call[r] => call'[r] \in {"applied", "refused"}

(* Nothing is done for a call after its answer, whatever fails, but for a  *)
(* wallet update that was under way when the handler failed.               *)
THEOREM AnswersStand == GatewaySpec => AnswersAreFinal
<1>1. ASSUME Healthy, Calls, [GatewayNext]_gvars, NEW r \in Requests, hop[r] \in {"ok", "error"}
      PROVE  Final(r)
  <2>0. TypeOK
    BY <1>1 DEF Healthy, Bookkeeping
  <2>1. ASSUME NEW s \in Requests, Hopping(s) PROVE Final(r)
    BY <1>1, <2>1, HopStep DEF vars, Final
  <2>2. ASSUME NEW s \in Requests, Serve(s) PROVE Final(r)
    <3>1. hop' = hop /\ RequestStep(s)
      BY <1>1, <2>2, ServedWasSent
    <3>2. CASE s # r
      BY <2>0, <3>1, <3>2, OthersKept DEF Final
    <3>3. CASE s = r
      <4>1. pc[r] \in Ended
        BY <1>1, <2>2, <3>3, ServedWasSent
      <4>2. /\ call[r] = "sent" /\ UNCHANGED pc /\ call'[r] \in {"applied", "refused"}
            /\ applied'[r] = applied[r] \/ applied'[r] = applied[r] \cup {leg[r]}
        BY <2>0, <3>1, <3>3, <4>1, EndedStep
      <4>3. pc[r] = "failed"
        BY <1>1, <4>1, <4>2, UnderWay
      <4>4. hop[r] = "error"
        BY <1>1, <4>3 DEF Calls, HopOf
      <4> QED BY <3>1, <4>2, <4>3, <4>4 DEF Final
    <3> QED BY <3>2, <3>3
  <2>3. CASE Restart /\ hop' = hop
    <3>1. pc[r] \in Ended \cup {"new"}
      BY <1>1 DEF Calls, HopOf, Ended
    <3> QED BY <2>3, <3>1, RestartKeeps DEF Final
  <2>4. CASE UNCHANGED <<vars, hop>>
    BY <2>4 DEF vars, Final
  <2> QED BY <1>1, <2>1, <2>2, <2>3, <2>4, GatewaySteps
<1>2. Healthy /\ Calls /\ [GatewayNext]_gvars
        => [\A r \in Requests : hop[r] \in {"ok", "error"} => Final(r)]_gvars
  BY <1>1
<1>3. Healthy /\ Calls /\ [GatewayNext]_gvars
        => [\A r \in Requests :
              hop[r] \in {"ok", "error"} =>
                /\ pc'[r] = pc[r]
                /\ hop'[r] = hop[r]
                /\ applied'[r] # applied[r] =>
                     /\ hop[r] = "error" /\ pc[r] = "failed" /\ call[r] = "sent"
                     /\ applied'[r] = applied[r] \cup {leg[r]}
                /\ call'[r] # call[r] => call'[r] \in {"applied", "refused"}]_gvars
  BY <1>2 DEF Final
<1> QED BY <1>3, CallsInvariant, PTL DEF GatewaySpec, AnswersAreFinal

===============================================================================
