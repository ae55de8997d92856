----------------------------- MODULE WalletService -----------------------------
(***************************************************************************)
(* The wallet service: it consumes "wallet.worker" messages, each the id   *)
(* of a user whose two wallets it inserts in one transaction, and serves   *)
(* UpdateWallet (gRPC).  The queue is not durable and messages are         *)
(* acknowledged on delivery, so each is handled at most once.  Reading     *)
(* wallets (listWallets, getWalletByCurrency) changes nothing.             *)
(***************************************************************************)
EXTENDS Integers

CONSTANTS
  Users,
  Currency,
  FirstCurrency, \* the currency whose wallet is inserted first: USD
  Updates,       \* the UpdateWallet calls
  Amounts,       \* values of UpdateWalletRequest.amount
  MaxBalance,    \* largest absolute value of wallet.balance, numeric(18,8)
  None,          \* no answer
  Faults         \* the faults the environment may inject

ASSUME CurrencyAssumption == FirstCurrency \in Currency
ASSUME NumberAssumption ==
  /\ Amounts \subseteq Int
  /\ MaxBalance \in Nat
  /\ None \notin Int
ASSUME FaultAssumption == Faults \subseteq {"abort", "restart", "broker"}

(* The id of a wallet names its row: every user has at most one row of     *)
(* each currency, since its message is handled at most once.               *)
Wallets == Users \X Currency
WalletsOf(u) == {u} \X Currency

UpdateType == {"DEPOSIT", "WITHDRAWAL"}
UpdateWalletRequest ==
  [userId : Users, walletId : Wallets, updateType : UpdateType, amount : Amounts]

VARIABLES
  request,   \* the body of each UpdateWallet call    (fixed by the caller)
  queue,     \* user ids in wallet_queue
  handling,  \* what became of the message of each user
  draft,     \* rows inserted by createWallets' open transaction
  wallets,   \* committed wallet rows
  balance,   \* their balances
  upc,       \* where each UpdateWallet handler is
  answer,    \* the balance an UpdateWallet call returned
  posted     \* history: the updates whose statement was executed

creation == <<queue, handling, draft, wallets>>
updating == <<balance, upc, answer, posted>>
wvars == <<request, queue, handling, draft, wallets, balance, upc, answer, posted>>

WalletInit ==
  /\ request \in [Updates -> UpdateWalletRequest]
  /\ queue = {}
  /\ handling = [u \in Users |-> "none"]
  /\ draft = [u \in Users |-> {}]
  /\ wallets = {}
  /\ balance = [w \in Wallets |-> 0]
  /\ upc = [q \in Updates |-> "new"]
  /\ answer = [q \in Updates |-> None]
  /\ posted = {}

-------------------------------------------------------------------------------
(* createWallets                                                           *)

(* A new user's id arrives in the queue; registration sends it once.       *)
Enqueue(u) ==
  /\ handling[u] = "none"
  /\ handling' = [handling EXCEPT ![u] = "queued"]
  /\ queue' = queue \cup {u}
  /\ UNCHANGED <<draft, wallets, updating, request>>

(* The message is taken, and acknowledged, and a transaction is opened.    *)
Receive(u) ==
  /\ u \in queue
  /\ queue' = queue \ {u}
  /\ handling' = [handling EXCEPT ![u] = "open"]
  /\ UNCHANGED <<draft, wallets, updating, request>>

(* One save per currency, the USD wallet before the NGN wallet.            *)
InsertWallet(u) ==
  /\ handling[u] = "open"
  /\ \E c \in Currency \ draft[u] :
       /\ draft[u] = {} => c = FirstCurrency
       /\ draft' = [draft EXCEPT ![u] = @ \cup {c}]
  /\ UNCHANGED <<queue, handling, wallets, updating, request>>

(* Mutant: each wallet is saved outside the transaction.                   *)
AllInserted_First(u) == draft[u] # {}
AllInserted(u) == draft[u] = Currency

CommitWallets(u) ==
  /\ handling[u] = "open"
  /\ AllInserted(u)
  /\ wallets' = wallets \cup ({u} \X draft[u])
  /\ handling' = [handling EXCEPT ![u] = "created"]
  /\ draft' = [draft EXCEPT ![u] = {}]
  /\ UNCHANGED <<queue, updating, request>>

(* An insert or the commit fails: the transaction is rolled back and the   *)
(* message, acknowledged already, is gone.                                 *)
AbortCreation(u) ==
  /\ "abort" \in Faults
  /\ handling[u] = "open"
  /\ handling' = [handling EXCEPT ![u] = "lost"]
  /\ draft' = [draft EXCEPT ![u] = {}]
  /\ UNCHANGED <<queue, wallets, updating, request>>

-------------------------------------------------------------------------------
(* updateWalletBalance                                                     *)

(* The controller makes DEPOSIT an INCREMENT and all else a DECREMENT.     *)
Delta(q) ==
  IF request[q].updateType = "DEPOSIT" THEN request[q].amount ELSE -request[q].amount

(* Mutant: the wallet is looked up by its id alone.                        *)
Owned_IdOnly(q) == request[q].walletId \in wallets

(* findOne({id, userId})                                                   *)
Owned(q) == request[q].walletId \in wallets \cap WalletsOf(request[q].userId)

FindWallet(q) ==
  /\ upc[q] = "new"
  /\ upc' = [upc EXCEPT ![q] = IF Owned(q) THEN "found" ELSE "failed"]
  /\ UNCHANGED <<creation, balance, answer, posted, request>>

(* Mutant: the column takes any number.                                    *)
Fits_Always(x) == TRUE

(* numeric(18,8) refuses what does not fit.                                *)
Fits(x) == -MaxBalance <= x /\ x <= MaxBalance

(* One UPDATE: PostgreSQL adds to the balance the row has now, whatever    *)
(* findOne read.                                                           *)
ChangeBalance(q) ==
  LET w == request[q].walletId
      x == balance[w] + Delta(q)
  IN  /\ upc[q] = "found"
      /\ IF Fits(x)
         THEN /\ balance' = [balance EXCEPT ![w] = x]
              /\ posted' = posted \cup {q}
              /\ upc' = [upc EXCEPT ![q] = "changed"]
         ELSE upc' = [upc EXCEPT ![q] = "failed"] /\ UNCHANGED <<balance, posted>>
      /\ UNCHANGED <<creation, answer, request>>

(* The balance is read back and returned.                                  *)
ReadBack(q) ==
  /\ upc[q] = "changed"
  /\ answer' = [answer EXCEPT ![q] = balance[request[q].walletId]]
  /\ upc' = [upc EXCEPT ![q] = "done"]
  /\ UNCHANGED <<creation, balance, posted, request>>

(* A query fails or its connection is lost: the caller sees an error, also *)
(* when the balance has been changed.                                      *)
AbortUpdate(q) ==
  /\ "abort" \in Faults
  /\ upc[q] \in {"found", "changed"}
  /\ upc' = [upc EXCEPT ![q] = "failed"]
  /\ UNCHANGED <<creation, balance, answer, posted, request>>

-------------------------------------------------------------------------------
(* The wallet service restarts: open transactions are rolled back, and     *)
(* what was being served or handled is lost.                               *)
RestartWallet ==
  /\ "restart" \in Faults
  /\ handling' = [u \in Users |-> IF handling[u] = "open" THEN "lost" ELSE handling[u]]
  /\ draft' = [u \in Users |-> {}]
  /\ upc' = [q \in Updates |-> IF upc[q] \in {"found", "changed"} THEN "failed" ELSE upc[q]]
  /\ UNCHANGED <<queue, wallets, balance, answer, posted, request>>

(* RabbitMQ restarts: wallet_queue is not durable.                         *)
RestartBroker ==
  /\ "broker" \in Faults
  /\ queue' = {}
  /\ handling' = [u \in Users |-> IF handling[u] = "queued" THEN "lost" ELSE handling[u]]
  /\ UNCHANGED <<draft, wallets, updating, request>>

CreationStep(u) == Receive(u) \/ InsertWallet(u) \/ CommitWallets(u)
UpdateStep(q) == FindWallet(q) \/ ChangeBalance(q) \/ ReadBack(q)

(* Everything but the arrival of messages.                                 *)
WalletStep ==
  \/ \E u \in Users : CreationStep(u) \/ AbortCreation(u)
  \/ \E q \in Updates : UpdateStep(q) \/ AbortUpdate(q)
  \/ RestartWallet
  \/ RestartBroker

WalletNext == WalletStep \/ \E u \in Users : Enqueue(u)

WalletSpec == WalletInit /\ [][WalletNext]_wvars

-------------------------------------------------------------------------------
HandlingVal == {"none", "queued", "open", "created", "lost"}
UpcVal == {"new", "found", "changed", "done", "failed"}

(* Types; a balance is what its numeric(18,8) column can hold.             *)
WalletTypeOK ==
  /\ request \in [Updates -> UpdateWalletRequest]
  /\ queue \subseteq Users
  /\ handling \in [Users -> HandlingVal]
  /\ draft \in [Users -> SUBSET Currency]
  /\ wallets \subseteq Wallets
  /\ balance \in [Wallets -> -MaxBalance..MaxBalance]
  /\ upc \in [Updates -> UpcVal]
  /\ answer \in [Updates -> Int \cup {None}]
  /\ posted \subseteq Updates

(* A user has the wallets of all currencies or none of them, in every      *)
(* state another request can read and after any failure (createWallets     *)
(* inserts both in one transaction), and a message whose handling failed   *)
(* leaves none.                                                            *)
WalletsComeInPairs ==
  \A u \in Users :
    IF handling[u] = "created" THEN WalletsOf(u) \subseteq wallets
                               ELSE WalletsOf(u) \cap wallets = {}

(* createWallets and updateWalletBalance, interleaved, refused and cut     *)
(* off at any point, do what WalletLedger says: no update is lost or       *)
(* doubled although each handler reads the balance twice.                  *)
Ledger == INSTANCE WalletLedger WITH
  entry  <- [q \in Updates |-> [user   |-> request[q].userId,
                                wallet |-> request[q].walletId,
                                amount |-> Delta(q)]],
  opened <- wallets,
  funds  <- balance,
  reply  <- answer

ImplementsLedger == Ledger!Spec
==============================================================================
