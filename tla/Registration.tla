----------------------------- MODULE Registration -----------------------------
(***************************************************************************)
(* From POST /register to the two wallets: the authentication service      *)
(* inserts the user and emits its id to wallet_queue, where WalletService  *)
(* takes it from.  A register call is named by the uuid of the user it     *)
(* would insert.  Nothing ties the two databases and the queue together:   *)
(* the emit is not awaited, and its failure is not noticed.                *)
(***************************************************************************)
EXTENDS WalletService

CONSTANTS Emails

VARIABLES
  email,       \* dto.email of each register call   (fixed by the caller)
  rpc,         \* where each register handler is
  registered   \* rows of the user table

vars == <<email, rpc, registered, wvars>>

Init ==
  /\ WalletInit
  /\ email \in [Users -> Emails]
  /\ rpc = [u \in Users |-> "new"]
  /\ registered = {}

(* The password is hashed; nothing is looked up first.                     *)
HashPassword(u) ==
  /\ rpc[u] = "new"
  /\ rpc' = [rpc EXCEPT ![u] = "hashed"]
  /\ UNCHANGED <<email, registered, wvars>>

(* register looks for no email before it inserts: the unique column is all *)
(* there is.                                                               *)
EmailFree(u) == \A v \in registered : email[v] # email[u]

SaveUser(u) ==
  /\ rpc[u] = "hashed"
  /\ IF EmailFree(u)
     THEN rpc' = [rpc EXCEPT ![u] = "saved"] /\ registered' = registered \cup {u}
     ELSE rpc' = [rpc EXCEPT ![u] = "failed"] /\ UNCHANGED registered
  /\ UNCHANGED <<email, wvars>>

(* Mutants: the id is emitted when the password is hashed, or whenever the *)
(* call has not failed.                                                    *)
MayEmit_Hashed(u) == rpc[u] \in {"hashed", "saved"}
MayEmit_Again(u) == rpc[u] \in {"saved", "done"}
MayEmit(u) == rpc[u] = "saved"

(* The id is emitted and the call answered, with the row committed.        *)
EmitUser(u) ==
  /\ MayEmit(u)
  /\ rpc' = [rpc EXCEPT ![u] = "done"]
  /\ handling' = [handling EXCEPT ![u] = "queued"]
  /\ queue' = queue \cup {u}
  /\ UNCHANGED <<email, registered, request, draft, wallets, updating>>

(* The broker is not reachable: the call is answered all the same.         *)
EmitFails(u) ==
  /\ "broker" \in Faults
  /\ rpc[u] = "saved"
  /\ rpc' = [rpc EXCEPT ![u] = "done"]
  /\ UNCHANGED <<email, registered, wvars>>

(* The authentication service restarts; users it saved stay.               *)
RestartAuthentication ==
  /\ "restart" \in Faults
  /\ rpc' = [u \in Users |-> IF rpc[u] \in {"hashed", "saved"} THEN "failed" ELSE rpc[u]]
  /\ UNCHANGED <<email, registered, wvars>>

RegisterStep(u) == HashPassword(u) \/ SaveUser(u) \/ EmitUser(u)

Next ==
  \/ \E u \in Users : RegisterStep(u) \/ EmitFails(u)
  \/ RestartAuthentication
  \/ WalletStep /\ UNCHANGED <<email, rpc, registered>>

Spec == Init /\ [][Next]_vars

(* Handlers go on when what they await is answered, and RabbitMQ delivers  *)
(* what it holds.  Nobody has to register.                                 *)
FairSpec ==
  /\ Spec
  /\ \A u \in Users : WF_vars(SaveUser(u) \/ EmitUser(u)) /\ WF_wvars(CreationStep(u))

-------------------------------------------------------------------------------
(* Nobody who is not a registered user has a wallet or a message that will *)
(* create one: the id is emitted after the insert of the user committed.   *)
WalletsHaveUsers ==
  \A u \in Users : handling[u] # "none" \/ WalletsOf(u) \cap wallets # {} => u \in registered

(* The register handler sends a user's id at most once, which is what      *)
(* WalletService assumes of its queue: with no unique constraint on the    *)
(* wallet table a second message would create a second pair of wallets.    *)
ImplementsWalletService == WalletSpec

(* The call was over before the id was emitted, or the message was lost.   *)
LostBefore(u) ==
  handling[u] = "lost" \/ (rpc[u] \in {"done", "failed"} /\ handling[u] = "none")

(* Every registered user gets its wallets, although the call is answered   *)
(* before they exist, or its id was lost on the way: no message stays      *)
(* where it is, and none is handled by half.                               *)
EveryUserGetsWallets ==
  \A u \in Users : u \in registered ~> WalletsOf(u) \subseteq wallets \/ LostBefore(u)
==============================================================================
