-------------------------------- MODULE Exchange --------------------------------
(***************************************************************************)
(* The order service and the wallet service together.  The order service   *)
(* is OrderService but for its wallet calls, which here are served by the  *)
(* statements of WalletService: each request has at most one call, so an   *)
(* update is named by the request that sent it.  A call that ends with an  *)
(* error may have changed the balance, and two calls may be between the    *)
(* same two statements for the same wallet.                                *)
(***************************************************************************)
EXTENDS OrderService

CONSTANTS
  Members,       \* users who have their wallets from the start
  MaxBalance,    \* largest absolute value of wallet.balance
  None,          \* no answer
  WalletFaults   \* faults of the wallet service: see WalletService

ASSUME MemberAssumption ==
  /\ Members \subseteq Users
  /\ \A u \in Users \ Members, c \in Currency : Funds[u][c] = 0
  /\ MaxBalance \in Nat
  /\ None \notin Int
  /\ WalletFaults \subseteq {"abort", "restart"}

VARIABLES
  members,   \* users whose two wallets are committed
  upc,       \* where the UpdateWallet handler of each request's call is
  answer     \* the balance it returned

walletVars == <<members, upc, answer>>
evars == <<vars, members, upc, answer>>

(* Withdrawals are the first update of a create and of a fulfil.           *)
UpdateTypeOf(r) == IF r \in Cancels \/ leg[r] > 1 THEN "DEPOSIT" ELSE "WITHDRAWAL"

(* The body of the call of r that is under way.                            *)
RequestOf(r) ==
  LET l == Leg(r, leg[r])
  IN  [userId     |-> l.user,
       walletId   |-> <<l.user, l.cur>>,
       updateType |-> UpdateTypeOf(r),
       amount     |-> IF UpdateTypeOf(r) = "DEPOSIT" THEN l.delta ELSE -l.delta]

Wallet == INSTANCE WalletService WITH
  FirstCurrency <- "USD",
  Updates  <- Requests,
  Amounts  <- Int,
  Faults   <- WalletFaults,
  request  <- [r \in Requests |-> RequestOf(r)],
  queue    <- {},
  handling <- [u \in Users |-> IF u \in members THEN "created" ELSE "none"],
  draft    <- [u \in Users |-> {}],
  wallets  <- members \X Currency,
  balance  <- [w \in Users \X Currency |-> balance[w[1]][w[2]]],
  posted   <- {r \in Requests : leg[r] \in applied[r]}

ExchangeInit ==
  /\ Init
  /\ members = Members
  /\ upc = [r \in Requests |-> "new"]
  /\ answer = [r \in Requests |-> None]

(* createWallets commits; Registration shows the way there.                *)
Join(u) ==
  /\ u \notin members
  /\ members' = members \cup {u}
  /\ UNCHANGED <<vars, upc, answer>>

-------------------------------------------------------------------------------
(* The order service.                                                      *)

(* The wallets a request looks up: getWalletByCurrency, by user.           *)
Wallets(r) == IF r \in Fulfils THEN {caller[r], caller[target[r]]} ELSE {caller[r]}

(* The steps of a handler that begin with its wallet reads.                *)
Reads(r) ==
  \/ r \in Creates \cup Cancels /\ pc[r] = "new"
  \/ r \in Fulfils /\ pc[r] = "found"

OrderStep(r) ==
  /\ Reads(r) => Wallets(r) \subseteq members
  /\ Arrival(r) \/ HandlerStep(r) \/ Abort(r) \/ CommitUnanswered(r)
  /\ UNCHANGED walletVars

(* "Wallet not found", or a wallet read fails.                             *)
ReadFails(r) ==
  /\ ~(Wallets(r) \subseteq members) \/ WalletFaults # {}
  /\ \/ r \in Creates \cup Cancels /\ Admitted(r)
     \/ r \in Fulfils /\ pc[r] \in {"found", "checked"}
  /\ Goto(r, "failed")
  /\ UNCHANGED <<inputs, database, seen, cost, leg, call, balance, notified, cut, applied, raced>>
  /\ UNCHANGED walletVars

-------------------------------------------------------------------------------
(* The wallet service.                                                     *)

(* findOne, and the read after the change.                                 *)
QueryWallet(r) ==
  /\ call[r] = "sent"
  /\ UNCHANGED <<vars, members>>
  /\ Wallet!FindWallet(r) \/ Wallet!ReadBack(r) \/ Wallet!AbortUpdate(r)

(* The UPDATE: what becomes of balance and applied is what WalletService   *)
(* says of its balance and posted.                                         *)
ExecuteUpdate(r) ==
  LET l == Leg(r, leg[r])
  IN  /\ call[r] = "sent"
      /\ \/ /\ balance' = [balance EXCEPT ![l.user][l.cur] = @ + l.delta]
            /\ applied' = [applied EXCEPT ![r] = @ \cup {leg[r]}]
         \/ UNCHANGED <<balance, applied>>
      /\ UNCHANGED <<inputs, database, pc, seen, cost, leg, call, notified, cut, raced, members>>
      /\ Wallet!ChangeBalance(r)

RestartWalletService ==
  /\ UNCHANGED <<vars, members>>
  /\ Wallet!RestartWallet

(* Mutant: a call that ended with an error is sent again.                  *)
Reply_Retry(r) == IF upc[r] = "done" THEN "applied" ELSE "sent"
Reply(r) == IF upc[r] = "done" THEN "applied" ELSE "refused"

(* The answer arrives at the handler, if that still waits for it.          *)
Deliver(r) ==
  /\ call[r] = "sent"
  /\ upc[r] \in {"done", "failed"}
  /\ call' = [call EXCEPT ![r] = Reply(r)]
  /\ upc' = [upc EXCEPT ![r] = "new"]
  /\ answer' = [answer EXCEPT ![r] = None]
  /\ UNCHANGED <<inputs, database, pc, seen, cost, leg, balance, notified, cut, applied, raced, members>>

(* A call does not reach the wallet service, or its guard refuses it: it   *)
(* was lost with the handler that sent it, or its access token is expired. *)
LoseCall(r) ==
  /\ call[r] = "sent"
  /\ upc[r] = "new"
  /\ pc[r] = "failed" \/ WalletFaults # {}
  /\ call' = [call EXCEPT ![r] = "refused"]
  /\ UNCHANGED <<inputs, database, pc, seen, cost, leg, balance, notified, cut, applied, raced>>
  /\ UNCHANGED walletVars

-------------------------------------------------------------------------------
CallStep(r) == QueryWallet(r) \/ ExecuteUpdate(r) \/ Deliver(r) \/ LoseCall(r)

ExchangeNext ==
  \/ \E r \in Requests : OrderStep(r) \/ ReadFails(r) \/ CallStep(r)
  \/ \E u \in Users : Join(u)
  \/ RestartWalletService
  \/ Restart /\ UNCHANGED walletVars
  \/ Quiet /\ UNCHANGED evars

ExchangeSpec == ExchangeInit /\ [][ExchangeNext]_evars

-------------------------------------------------------------------------------
(* For the order service an update has happened as soon as the UPDATE has, *)
(* whatever the handler will be told.                                      *)
CallSeen == [r \in Requests |-> IF leg[r] \in applied[r] THEN "applied" ELSE call[r]]

(* A handler that ended on an error answer to an update that has happened: *)
(* to it a fault like any other that ends a handler in its transaction.    *)
Misled(r) == pc[r] = "failed" /\ call[r] = "refused" /\ leg[r] \in applied[r]

CutSeen == cut \cup {r \in Requests : Misled(r)}

Order == INSTANCE OrderService WITH
  call   <- CallSeen,
  cut    <- CutSeen,
  Faults <- Faults \cup {"refuse", "abort"}

(* The three statements of updateWalletBalance, interleaved, refused by    *)
(* the column or cut off at any point, are to the order service what       *)
(* OrderService says: an atomic update at most once for each step of a     *)
(* handler, or an error, before which the update may have happened.        *)
ImplementsOrderService == Order!Spec
===============================================================================
