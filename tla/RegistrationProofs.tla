-------------------------- MODULE RegistrationProofs --------------------------
(***************************************************************************)
(* First of WalletService, for every set of users, updates and amounts and *)
(* whatever faults the environment injects: type correctness, that wallets *)
(* come in pairs, and that the service implements WalletLedger.            *)
(* Then of Registration: wallets have users, and the registration handlers *)
(* are an environment WalletService can have, so what is proved of         *)
(* WalletService holds of the composed system.                             *)
(***************************************************************************)
EXTENDS Registration, TLAPS

USE CurrencyAssumption, NumberAssumption, FaultAssumption

(* What an UpdateWallet call has done so far follows from where it is.     *)
CallsTracked ==
  \A q \in Updates :
    /\ upc[q] = "found" => Owned(q)
    /\ upc[q] \in {"new", "found"} => q \notin posted
    /\ upc[q] = "changed" => q \in posted
    /\ upc[q] # "done" => answer[q] = None

(* A message is in the queue until its handling begins.                    *)
QueuedOnce == \A u \in Users : u \in queue <=> handling[u] = "queued"

Inv == WalletTypeOK /\ WalletsComeInPairs /\ QueuedOnce /\ CallsTracked

LEMMA DeltaIsInt ==
  ASSUME request \in [Updates -> UpdateWalletRequest], NEW q \in Updates
  PROVE  /\ Delta(q) \in Int
         /\ request[q].userId \in Users
         /\ request[q].walletId \in Wallets
<1>1. request[q] \in UpdateWalletRequest
  OBVIOUS
<1>2. /\ request[q].userId \in Users
      /\ request[q].walletId \in Wallets
      /\ request[q].amount \in Int
  BY <1>1 DEF UpdateWalletRequest
<1>3. QED
  BY <1>2 DEF Delta

LEMMA InitInv == WalletInit => Inv
<1> SUFFICES ASSUME WalletInit PROVE Inv
  OBVIOUS
<1>1. WalletTypeOK
  <2>1. 0 \in -MaxBalance..MaxBalance
    OBVIOUS
  <2>2. QED
    BY <2>1 DEF WalletInit, WalletTypeOK, HandlingVal, UpcVal
<1>2. WalletsComeInPairs /\ QueuedOnce /\ CallsTracked
  BY DEF WalletInit, WalletsComeInPairs, QueuedOnce, CallsTracked
<1>3. QED
  BY <1>1, <1>2 DEF Inv

-------------------------------------------------------------------------------
(* Type correctness.                                                       *)
LEMMA TypeStep == WalletTypeOK /\ [WalletNext]_wvars => WalletTypeOK'
<1> SUFFICES ASSUME WalletTypeOK, [WalletNext]_wvars
             PROVE  WalletTypeOK'
  OBVIOUS
<1> USE DEF WalletTypeOK
<1>1. CASE UNCHANGED wvars
  BY <1>1 DEF wvars
<1>2. ASSUME NEW u \in Users, Enqueue(u)  PROVE WalletTypeOK'
  BY <1>2 DEF Enqueue, updating, HandlingVal
<1>3. ASSUME NEW u \in Users, Receive(u)  PROVE WalletTypeOK'
  BY <1>3 DEF Receive, updating, HandlingVal
<1>4. ASSUME NEW u \in Users, InsertWallet(u)  PROVE WalletTypeOK'
  BY <1>4 DEF InsertWallet, updating
<1>5. ASSUME NEW u \in Users, CommitWallets(u)  PROVE WalletTypeOK'
  <2>1. {u} \X draft[u] \subseteq Wallets
    BY DEF Wallets
  <2>2. QED
    BY <1>5, <2>1 DEF CommitWallets, updating, HandlingVal
<1>6. ASSUME NEW u \in Users, AbortCreation(u)  PROVE WalletTypeOK'
  BY <1>6 DEF AbortCreation, updating, HandlingVal
<1>7. ASSUME NEW q \in Updates, FindWallet(q)  PROVE WalletTypeOK'
  BY <1>7 DEF FindWallet, creation, UpcVal
<1>8. ASSUME NEW q \in Updates, ChangeBalance(q)  PROVE WalletTypeOK'
  <2> DEFINE w == request[q].walletId
             x == balance[w] + Delta(q)
  <2>1. w \in Wallets /\ x \in Int
    BY DeltaIsInt
  <2>2. Fits(x) => x \in -MaxBalance..MaxBalance
    BY <2>1 DEF Fits
  <2>3. balance' \in [Wallets -> -MaxBalance..MaxBalance]
    BY <1>8, <2>1, <2>2 DEF ChangeBalance
  <2>4. upc' \in [Updates -> UpcVal] /\ posted' \subseteq Updates
    BY <1>8 DEF ChangeBalance, UpcVal
  <2>5. QED
    BY <1>8, <2>3, <2>4 DEF ChangeBalance, creation
<1>9. ASSUME NEW q \in Updates, ReadBack(q)  PROVE WalletTypeOK'
  <2>1. balance[request[q].walletId] \in Int
    BY DeltaIsInt
  <2>2. QED
    BY <1>9, <2>1 DEF ReadBack, creation, UpcVal
<1>10. ASSUME NEW q \in Updates, AbortUpdate(q)  PROVE WalletTypeOK'
  BY <1>10 DEF AbortUpdate, creation, UpcVal
<1>11. CASE RestartWallet
  BY <1>11 DEF RestartWallet, HandlingVal, UpcVal
<1>12. CASE RestartBroker
  BY <1>12 DEF RestartBroker, updating, HandlingVal
<1>13. QED
  BY <1>1, <1>2, <1>3, <1>4, <1>5, <1>6, <1>7, <1>8, <1>9, <1>10, <1>11, <1>12
     DEF WalletNext, WalletStep, CreationStep, UpdateStep

-------------------------------------------------------------------------------
(* The rows of a user appear when its message becomes "created".           *)
Creation == WalletsComeInPairs /\ QueuedOnce

LEMMA CreationFrame ==
  ASSUME Creation, UNCHANGED <<queue, handling, wallets>>
  PROVE  Creation'
BY DEF Creation, WalletsComeInPairs, QueuedOnce, WalletsOf

(* One user's message moves on, and no row is committed.                   *)
LEMMA CreationRelabel ==
  ASSUME WalletTypeOK, Creation, NEW u \in Users, NEW h \in HandlingVal \ {"created"},
         handling[u] # "created", handling' = [handling EXCEPT ![u] = h],
         queue' = IF h = "queued" THEN queue \cup {u} ELSE queue \ {u},
         UNCHANGED wallets
  PROVE  Creation'
<1>1. WalletsComeInPairs'
  BY DEF WalletTypeOK, Creation, WalletsComeInPairs, WalletsOf
<1>2. QueuedOnce'
  BY DEF WalletTypeOK, Creation, QueuedOnce
<1>3. QED
  BY <1>1, <1>2 DEF Creation

LEMMA CreationStepPairs ==
  WalletTypeOK /\ Creation /\ [WalletNext]_wvars => Creation'
<1> SUFFICES ASSUME WalletTypeOK, Creation, [WalletNext]_wvars
             PROVE  Creation'
  OBVIOUS
<1>1. CASE UNCHANGED wvars
  BY <1>1, CreationFrame DEF wvars
<1>2. ASSUME NEW u \in Users, Enqueue(u)  PROVE Creation'
  BY <1>2, CreationRelabel DEF Enqueue, HandlingVal
<1>3. ASSUME NEW u \in Users, Receive(u)  PROVE Creation'
  BY <1>3, CreationRelabel DEF Receive, HandlingVal, Creation, QueuedOnce
<1>4. ASSUME NEW u \in Users, InsertWallet(u)  PROVE Creation'
  BY <1>4, CreationFrame DEF InsertWallet
<1>5. ASSUME NEW u \in Users, CommitWallets(u)  PROVE Creation'
  <2>1. wallets' = wallets \cup WalletsOf(u) /\ UNCHANGED queue
    BY <1>5 DEF CommitWallets, AllInserted, WalletsOf
  <2>2. handling[u] = "open" /\ handling' = [handling EXCEPT ![u] = "created"]
    BY <1>5 DEF CommitWallets
  <2>3. WalletsComeInPairs'
    BY <2>1, <2>2 DEF WalletTypeOK, Creation, WalletsComeInPairs, WalletsOf
  <2>4. QueuedOnce'
    BY <2>1, <2>2 DEF WalletTypeOK, Creation, QueuedOnce
  <2>5. QED
    BY <2>3, <2>4 DEF Creation
<1>6. ASSUME NEW u \in Users, AbortCreation(u)  PROVE Creation'
  <2>1. u \notin queue
    BY <1>6 DEF AbortCreation, Creation, QueuedOnce
  <2>2. QED
    BY <1>6, <2>1, CreationRelabel DEF AbortCreation, HandlingVal
<1>7. ASSUME NEW q \in Updates, UpdateStep(q) \/ AbortUpdate(q)  PROVE Creation'
  BY <1>7, CreationFrame
     DEF UpdateStep, FindWallet, ChangeBalance, ReadBack, AbortUpdate, creation
<1>8. CASE RestartWallet
  BY <1>8 DEF RestartWallet, WalletTypeOK, Creation, WalletsComeInPairs, QueuedOnce, WalletsOf
<1>9. CASE RestartBroker
  BY <1>9 DEF RestartBroker, WalletTypeOK, Creation, WalletsComeInPairs, QueuedOnce, WalletsOf
<1>10. QED
  BY <1>1, <1>2, <1>3, <1>4, <1>5, <1>6, <1>7, <1>8, <1>9
     DEF WalletNext, WalletStep, CreationStep

-------------------------------------------------------------------------------
(* Wallets are never removed and requests never change.                    *)
LEMMA RowsStay == [WalletNext]_wvars => wallets \subseteq wallets' /\ request' = request
BY DEF WalletNext, WalletStep, CreationStep, UpdateStep, wvars, updating, creation,
       Enqueue, Receive, InsertWallet, CommitWallets, AbortCreation,
       FindWallet, ChangeBalance, ReadBack, AbortUpdate, RestartWallet, RestartBroker

LEMMA CallsFrame ==
  ASSUME CallsTracked, wallets \subseteq wallets', UNCHANGED <<request, upc, posted, answer>>
  PROVE  CallsTracked'
BY DEF CallsTracked, Owned

LEMMA CallsStep == WalletTypeOK /\ CallsTracked /\ [WalletNext]_wvars => CallsTracked'
<1> SUFFICES ASSUME WalletTypeOK, CallsTracked, [WalletNext]_wvars
             PROVE  CallsTracked'
  OBVIOUS
<1>0. wallets \subseteq wallets' /\ request' = request
  BY RowsStay
<1>1. \A q \in Updates : Owned(q) => Owned(q)'
  BY <1>0 DEF Owned
<1>2. CASE UNCHANGED wvars
  BY <1>0, <1>2, CallsFrame DEF wvars
<1>3. ASSUME NEW u \in Users, Enqueue(u) \/ CreationStep(u) \/ AbortCreation(u)
      PROVE  CallsTracked'
  BY <1>0, <1>3, CallsFrame
     DEF Enqueue, CreationStep, Receive, InsertWallet, CommitWallets, AbortCreation, updating
<1>4. ASSUME NEW q \in Updates, FindWallet(q)  PROVE CallsTracked'
  BY <1>1, <1>4 DEF FindWallet, WalletTypeOK, CallsTracked
<1>5. ASSUME NEW q \in Updates, ChangeBalance(q)  PROVE CallsTracked'
  BY <1>1, <1>5 DEF ChangeBalance, WalletTypeOK, CallsTracked
<1>6. ASSUME NEW q \in Updates, ReadBack(q)  PROVE CallsTracked'
  BY <1>1, <1>6 DEF ReadBack, WalletTypeOK, CallsTracked
<1>7. ASSUME NEW q \in Updates, AbortUpdate(q)  PROVE CallsTracked'
  BY <1>1, <1>7 DEF AbortUpdate, WalletTypeOK, CallsTracked
<1>8. CASE RestartWallet
  BY <1>1, <1>8 DEF RestartWallet, WalletTypeOK, CallsTracked
<1>9. CASE RestartBroker
  BY <1>0, <1>9, CallsFrame DEF RestartBroker, updating
<1>10. QED
  BY <1>2, <1>3, <1>4, <1>5, <1>6, <1>7, <1>8, <1>9
     DEF WalletNext, WalletStep, UpdateStep

-------------------------------------------------------------------------------
LEMMA WalletInvariant == WalletSpec => []Inv
<1>1. Inv /\ [WalletNext]_wvars => Inv'
  BY TypeStep, CreationStepPairs, CallsStep DEF Inv, Creation
<1>2. QED
  BY InitInv, <1>1, PTL DEF WalletSpec

(* A balance is always one its column can hold, and the other variables    *)
(* have the values their columns and handlers give them.                   *)
THEOREM WalletTypeCorrect == WalletSpec => []WalletTypeOK
BY WalletInvariant, PTL DEF Inv

(* Both wallets of a user or none, in every state another request can see. *)
THEOREM PairsOrNothing == WalletSpec => []WalletsComeInPairs
BY WalletInvariant, PTL DEF Inv

-------------------------------------------------------------------------------
(* Refinement.                                                             *)
LEMMA LedgerInit == WalletInit => Ledger!Init
<1> SUFFICES ASSUME WalletInit PROVE Ledger!Init
  OBVIOUS
<1>1. \A q \in Updates : Delta(q) \in Int /\ request[q].userId \in Users
                                          /\ request[q].walletId \in Wallets
  BY DeltaIsInt DEF WalletInit
<1>2. QED
  BY <1>1 DEF WalletInit, Ledger!Init, Ledger!Wallets, Wallets

LEMMA LedgerStep == Inv /\ [WalletNext]_wvars => [Ledger!Next]_(Ledger!vars)
<1> SUFFICES ASSUME Inv, [WalletNext]_wvars
             PROVE  Ledger!Next \/ UNCHANGED Ledger!vars
  OBVIOUS
<1>0. request' = request
  BY RowsStay
<1>s. ASSUME UNCHANGED <<wallets, balance, posted, answer>>
      PROVE  UNCHANGED Ledger!vars
  BY <1>0, <1>s DEF Ledger!vars, Delta
<1>1. CASE UNCHANGED wvars
  BY <1>1, <1>s DEF wvars
<1>2. ASSUME NEW u \in Users, Enqueue(u) \/ Receive(u) \/ InsertWallet(u) \/ AbortCreation(u)
      PROVE  UNCHANGED Ledger!vars
  BY <1>2, <1>s DEF Enqueue, Receive, InsertWallet, AbortCreation, updating
<1>3. ASSUME NEW u \in Users, CommitWallets(u)  PROVE Ledger!Open(u)
  <2>1. wallets' = wallets \cup ({u} \X Currency)
    BY <1>3 DEF CommitWallets, AllInserted
  <2>2. ({u} \X Currency) \cap wallets = {}
    BY <1>3 DEF CommitWallets, Inv, WalletsComeInPairs, WalletsOf
  <2>3. UNCHANGED <<balance, posted, answer>>
    BY <1>3 DEF CommitWallets, updating
  <2>4. QED
    BY <1>0, <2>1, <2>2, <2>3 DEF Ledger!Open, Delta
<1>4. ASSUME NEW q \in Updates, FindWallet(q) \/ AbortUpdate(q)
      PROVE  UNCHANGED Ledger!vars
  BY <1>4, <1>s DEF FindWallet, AbortUpdate, creation
<1>5. ASSUME NEW q \in Updates, ChangeBalance(q)
      PROVE  Ledger!Post(q) \/ UNCHANGED Ledger!vars
  <2>1. CASE ~ Fits(balance[request[q].walletId] + Delta(q))
    BY <1>5, <2>1, <1>s DEF ChangeBalance, creation
  <2>2. CASE Fits(balance[request[q].walletId] + Delta(q))
    <3>1. /\ balance' = [balance EXCEPT ![request[q].walletId] = @ + Delta(q)]
          /\ posted' = posted \cup {q}
          /\ UNCHANGED <<wallets, answer>>
      BY <1>5, <2>2 DEF ChangeBalance, creation
    <3>2. q \notin posted /\ Owned(q)
      BY <1>5 DEF ChangeBalance, Inv, CallsTracked
    <3>3. request[q].walletId \in wallets /\ request[q].walletId[1] = request[q].userId
      BY <3>2 DEF Owned, WalletsOf
    <3>4. QED
      BY <1>0, <3>1, <3>2, <3>3 DEF Ledger!Post, Delta
  <2>3. QED
    BY <2>1, <2>2
<1>6. ASSUME NEW q \in Updates, ReadBack(q)  PROVE Ledger!Answer(q)
  <2>1. q \in posted /\ answer[q] = None
    BY <1>6 DEF ReadBack, Inv, CallsTracked
  <2>2. /\ answer' = [answer EXCEPT ![q] = balance[request[q].walletId]]
        /\ UNCHANGED <<wallets, balance, posted>>
    BY <1>6 DEF ReadBack, creation
  <2>3. QED
    BY <1>0, <2>1, <2>2 DEF Ledger!Answer, Delta
<1>7. CASE RestartWallet \/ RestartBroker
  BY <1>7, <1>s DEF RestartWallet, RestartBroker, updating
<1>8. QED
  BY <1>1, <1>2, <1>3, <1>4, <1>5, <1>6, <1>7
     DEF WalletNext, WalletStep, CreationStep, UpdateStep, Ledger!Next

(* createWallets and updateWalletBalance, however their statements         *)
(* interleave and wherever they are cut off, post every update at most     *)
(* once, to a wallet of the user it names, and answer it only then.        *)
THEOREM ServiceImplementsLedger == WalletSpec => ImplementsLedger
<1>1. QED
  BY LedgerInit, LedgerStep, WalletInvariant, PTL DEF WalletSpec, ImplementsLedger, Ledger!Spec

-------------------------------------------------------------------------------
(* Registration.                                                           *)

(* A user exists when its insert was executed; its id is emitted later,    *)
(* by a handler that has not emitted it before.                            *)
Accounts ==
  /\ rpc \in [Users -> {"new", "hashed", "saved", "done", "failed"}]
  /\ registered \subseteq Users
  /\ \A u \in Users : /\ rpc[u] = "saved" => u \in registered
                      /\ rpc[u] \in {"new", "hashed", "saved"} => handling[u] = "none"
                      /\ handling[u] # "none" => u \in registered

(* The steps of the register handlers are, for the wallet service, the     *)
(* arrival of a message or nothing.                                        *)
LEMMA RegisterIsEnvironment ==
  ASSUME WalletTypeOK, Accounts, NEW u \in Users, RegisterStep(u) \/ EmitFails(u)
  PROVE  Enqueue(u) \/ UNCHANGED wvars
<1>1. ASSUME EmitUser(u) PROVE Enqueue(u)
  BY <1>1 DEF EmitUser, MayEmit, Enqueue, Accounts
<1> QED BY <1>1 DEF RegisterStep, HashPassword, SaveUser, EmitFails

LEMMA StepIsWalletStep ==
  WalletTypeOK /\ Accounts /\ [Next]_vars => [WalletNext]_wvars
BY RegisterIsEnvironment DEF Next, WalletNext, RestartAuthentication, vars

(* The wallet service neither registers users nor starts a handling that   *)
(* is not queued.                                                          *)
LEMMA WalletKeepsAccounts ==
  ASSUME WalletTypeOK, QueuedOnce, Accounts, WalletStep, UNCHANGED <<email, rpc, registered>>
  PROVE  Accounts'
<1>1. \A u \in Users : handling'[u] = "none" <=> handling[u] = "none"
  <2>1. ASSUME NEW u \in Users, CreationStep(u) \/ AbortCreation(u)
        PROVE  \A v \in Users : handling'[v] = "none" <=> handling[v] = "none"
    BY <2>1 DEF CreationStep, Receive, InsertWallet, CommitWallets, AbortCreation,
                WalletTypeOK, QueuedOnce
  <2>2. ASSUME NEW q \in Updates, UpdateStep(q) \/ AbortUpdate(q)
        PROVE  \A v \in Users : handling'[v] = "none" <=> handling[v] = "none"
    BY <2>2 DEF UpdateStep, FindWallet, ChangeBalance, ReadBack, AbortUpdate, creation
  <2>3. CASE RestartWallet
    BY <2>3 DEF RestartWallet, WalletTypeOK
  <2>4. CASE RestartBroker
    BY <2>4 DEF RestartBroker, WalletTypeOK
  <2> QED BY <2>1, <2>2, <2>3, <2>4 DEF WalletStep
<1> QED BY <1>1 DEF Accounts

LEMMA AccountsStep ==
  WalletTypeOK /\ QueuedOnce /\ Accounts /\ [Next]_vars => Accounts'
<1> SUFFICES ASSUME WalletTypeOK, QueuedOnce, Accounts, [Next]_vars PROVE Accounts'
  OBVIOUS
<1>1. ASSUME NEW u \in Users, HashPassword(u) PROVE Accounts'
  BY <1>1 DEF HashPassword, Accounts, wvars
<1>2. ASSUME NEW u \in Users, SaveUser(u) PROVE Accounts'
  <2>1. rpc[u] = "hashed" /\ UNCHANGED <<email, handling>>
    BY <1>2 DEF SaveUser, wvars
  <2>2. CASE EmailFree(u)
    <3>1. rpc' = [rpc EXCEPT ![u] = "saved"] /\ registered' = registered \cup {u}
      BY <1>2, <2>2 DEF SaveUser
    <3> QED BY <2>1, <3>1 DEF Accounts
  <2>3. CASE ~ EmailFree(u)
    <3>1. rpc' = [rpc EXCEPT ![u] = "failed"] /\ UNCHANGED registered
      BY <1>2, <2>3 DEF SaveUser
    <3> QED BY <2>1, <3>1 DEF Accounts
  <2> QED BY <2>2, <2>3
<1>3. ASSUME NEW u \in Users, EmitUser(u) PROVE Accounts'
  BY <1>3 DEF EmitUser, MayEmit, Accounts, WalletTypeOK
<1>4. ASSUME NEW u \in Users, EmitFails(u) PROVE Accounts'
  BY <1>4 DEF EmitFails, Accounts, wvars
<1>5. CASE RestartAuthentication
  BY <1>5 DEF RestartAuthentication, Accounts, wvars
<1>6. CASE WalletStep /\ UNCHANGED <<email, rpc, registered>>
  BY <1>6, WalletKeepsAccounts
<1>7. CASE UNCHANGED vars
  BY <1>7 DEF vars, wvars, Accounts
<1> QED
  BY <1>1, <1>2, <1>3, <1>4, <1>5, <1>6, <1>7 DEF Next, RegisterStep

LEMMA RegistrationInvariant == Spec => [](Inv /\ Accounts)
<1>1. Init => Inv /\ Accounts
  <2>1. Init => Accounts
    BY DEF Init, WalletInit, Accounts
  <2> QED BY <2>1, InitInv DEF Init
<1>2. Inv /\ Accounts /\ [Next]_vars => Inv' /\ Accounts'
  BY StepIsWalletStep, AccountsStep, TypeStep, CreationStepPairs, CallsStep DEF Inv, Creation
<1> QED
  BY <1>1, <1>2, PTL DEF Spec

(* Whoever has a wallet, or a message that will create one, is a user.     *)
THEOREM WalletsBelongToUsers == Spec => []WalletsHaveUsers
<1>1. Inv /\ Accounts => WalletsHaveUsers
  BY DEF Inv, WalletsComeInPairs, Accounts, WalletsHaveUsers, WalletsOf
<1> QED
  BY <1>1, RegistrationInvariant, PTL

(* A user's id reaches the queue at most once: the composed system is one  *)
(* of the behaviours WalletService allows.                                 *)
THEOREM RegistrationImplementsWalletService == Spec => ImplementsWalletService
<1>1. Init => WalletInit
  BY DEF Init
<1>2. Inv /\ Accounts /\ [Next]_vars => [WalletNext]_wvars
  BY StepIsWalletStep DEF Inv
<1> QED
  BY <1>1, <1>2, RegistrationInvariant, PTL DEF Spec, ImplementsWalletService, WalletSpec
==============================================================================
