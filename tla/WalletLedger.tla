----------------------------- MODULE WalletLedger -----------------------------
(***************************************************************************)
(* What the wallet service promises: a user has both wallets or none, each *)
(* update changes one wallet of the user it names by exactly its amount,   *)
(* at most once and before it is answered, and the answer is a balance     *)
(* that includes it.  An update that is never answered may still have been *)
(* posted.                                                                 *)
(***************************************************************************)
EXTENDS Integers

CONSTANTS
  Users,
  Currency,
  Updates,
  None        \* no answer

Wallets == Users \X Currency

VARIABLES
  entry,     \* what each update asks for: user, wallet and signed amount
  opened,    \* the wallets that exist
  funds,     \* their balances
  posted,    \* the updates that took effect
  reply      \* the balance an update was answered with
vars == <<entry, opened, funds, posted, reply>>

Init ==
  /\ entry \in [Updates -> [user : Users, wallet : Wallets, amount : Int]]
  /\ opened = {}
  /\ funds = [w \in Wallets |-> 0]
  /\ posted = {}
  /\ reply = [q \in Updates |-> None]

Open(u) ==
  /\ ({u} \X Currency) \cap opened = {}
  /\ opened' = opened \cup ({u} \X Currency)
  /\ UNCHANGED <<entry, funds, posted, reply>>

Post(q) ==
  LET w == entry[q].wallet
  IN  /\ q \notin posted
      /\ w \in opened
      /\ w[1] = entry[q].user
      /\ funds' = [funds EXCEPT ![w] = @ + entry[q].amount]
      /\ posted' = posted \cup {q}
      /\ UNCHANGED <<entry, opened, reply>>

Answer(q) ==
  /\ q \in posted
  /\ reply[q] = None
  /\ reply' = [reply EXCEPT ![q] = funds[entry[q].wallet]]
  /\ UNCHANGED <<entry, opened, funds, posted>>

Next == (\E u \in Users : Open(u)) \/ (\E q \in Updates : Post(q) \/ Answer(q))

Spec == Init /\ [][Next]_vars
==============================================================================
