-------------------------------- MODULE Gateway --------------------------------
(***************************************************************************)
(* The marketplace as a client sees it: a call goes through the API        *)
(* gateway, which refuses it for want of an Authorization header or        *)
(* forwards it to the order service and waits, without a timeout, for the  *)
(* answer.  A gateway that loses its connection answers 500 while the      *)
(* handler behind it goes on, and the client may send the call again.  A   *)
(* repeated call is another request with the same caller and target.       *)
(***************************************************************************)
EXTENDS Notification

CONSTANTS
  Patient,      \* users whose client awaits an answer before the next call
  AnswerFaults  \* faults between a handler and its client

ASSUME AnswerFaultAssumption ==
  /\ Patient \subseteq Users
  /\ AnswerFaults \subseteq {"connection", "readback"}

VARIABLE hop    \* what the gateway does with each call, or told its client

HopVal == {"idle", "open", "ok", "error", "lost"}

gvars == <<vars, mail, hop>>

GatewayInit == Init /\ MailInit /\ hop = [r \in Requests |-> "idle"]

Move(r, h) == hop' = [hop EXCEPT ![r] = h]

(* The client of r's caller is free to send r.                             *)
MaySend(r) ==
  /\ hop[r] = "idle"
  /\ caller[r] \in Patient => \A q \in Requests : caller[q] = caller[r] => hop[q] # "open"

(* createOrder, fulfillOrder, cancelOrder: the call is forwarded.          *)
SendCall(r) ==
  /\ MaySend(r)
  /\ Move(r, "open")
  /\ UNCHANGED <<vars, mail>>

(* AuthHeaderGuard: 401, and nothing is forwarded.                         *)
RefuseHeader(r) ==
  /\ MaySend(r)
  /\ Move(r, "error")
  /\ UNCHANGED <<vars, mail>>

(* The order service serves what was forwarded, also when the gateway has  *)
(* given up on it.                                                         *)
Sent(r) == hop[r] \in {"open", "lost"}

Behind(r, step) ==
  /\ pc[r] = "new" => Sent(r)
  /\ step
  /\ Emit
  /\ UNCHANGED hop

Serve(r) == Behind(r, RequestStep(r))

(* Mutant: fulfillOrder and cancelOrder do not await their transaction.    *)
Answerable_Early(r) == pc[r] \in Ended \cup {"call", "record", "commit"}
Answerable(r) == pc[r] \in Ended

(* The handler ended with an error: it was rolled back, or the answer to   *)
(* its COMMIT was lost.                                                    *)
Errored(r) == pc[r] = "failed" \/ r \in cut

(* The status and the body of the answer are passed on (handleHttpError).  *)
Answer(r) ==
  /\ hop[r] = "open"
  /\ Answerable(r)
  /\ Move(r, IF Errored(r) THEN "error" ELSE "ok")
  /\ UNCHANGED <<vars, mail>>

(* fulfillOrder and cancelOrder read the order again after the commit: the *)
(* caller is told of an error although everything is done.                 *)
ReadBackFails(r) ==
  /\ "readback" \in AnswerFaults
  /\ r \in Resolvers
  /\ hop[r] = "open"
  /\ pc[r] = "done" /\ ~Errored(r)
  /\ Move(r, "error")
  /\ UNCHANGED <<vars, mail>>

(* No answer: the gateway, or its connection to the order service, fails.  *)
LoseConnection(r) ==
  /\ "connection" \in AnswerFaults
  /\ hop[r] = "open"
  /\ Move(r, "lost")
  /\ UNCHANGED <<vars, mail>>

CallStep(r) ==
  \/ SendCall(r)
  \/ RefuseHeader(r)
  \/ Serve(r)
  \/ Answer(r)
  \/ ReadBackFails(r)
  \/ LoseConnection(r)

GatewayNext ==
  \/ \E r \in Requests : CallStep(r)
  \/ \E f \in Fulfils : MailStep(f) /\ UNCHANGED hop
  \/ MailFault /\ UNCHANGED hop
  \/ Restart /\ UNCHANGED <<mail, hop>>

GatewaySpec == GatewayInit /\ [][GatewayNext]_gvars

(* What was sent arrives and is served, what was served is answered, and   *)
(* what was queued is consumed.  Nobody has to send anything, and no fault *)
(* has to happen.                                                          *)
Progress(r) ==
  \/ Behind(r, Arrival(r) \/ HandlerStep(r) \/ WalletUpdate(r))
  \/ Answer(r)

GatewayFairness ==
  /\ \A r \in Requests : WF_gvars(Progress(r))
  /\ \A f \in Fulfils : WF_gvars(MailStep(f) /\ UNCHANGED hop)

-------------------------------------------------------------------------------
(* A call that left wallets changed and its order as it was: the handler   *)
(* was rolled back after an update, or while one was under way.            *)
Stranded(r) == pc[r] = "failed" /\ (r \in cut \/ call[r] = "refused")

(* A client that repeats a call only after it was answered moves money for *)
(* one of the two calls, even when it was told of an error after the       *)
(* commit, be it that the answer to the COMMIT or the read after it was    *)
(* lost.  To pay, or to be refunded, twice takes a connection the gateway  *)
(* lost while the first call was being served, or a fault inside the order *)
(* service that rolled one of them back: that error looks the same to the  *)
(* client.                                                                 *)
RepeatsAreSafeUnlessLost ==
  \A r, q \in Resolvers :
    r # q /\ caller[r] = caller[q] /\ target[r] = target[q] /\ caller[r] \in Patient
      /\ applied[r] # {} /\ applied[q] # {}
      => "lost" \in {hop[r], hop[q]} \/ Stranded(r) \/ Stranded(q)

(* What a client was told is final.  After a success the handler does      *)
(* nothing more and no wallet changes for it.  After an error one thing    *)
(* may still happen, whatever fails: the one wallet update that was under  *)
(* way when the handler ended takes effect; it is the last, and the call   *)
(* is not resumed.                                                         *)
AnswersAreFinal ==
  [][\A r \in Requests :
       hop[r] \in {"ok", "error"} =>
         /\ pc'[r] = pc[r]
         /\ hop'[r] = hop[r]
         /\ applied'[r] # applied[r] =>
              /\ hop[r] = "error" /\ pc[r] = "failed" /\ call[r] = "sent"
              /\ applied'[r] = applied[r] \cup {leg[r]}
         /\ call'[r] # call[r] => call'[r] \in {"applied", "refused"}]_gvars

(* Every call that was sent is answered, although neither the gateway nor  *)
(* the order service has a timeout: no handler waits for ever for a row or *)
(* for another handler.                                                    *)
EveryCallIsAnswered == \A r \in Requests : hop[r] = "open" ~> hop[r] # "open"

(* The owner of a fulfilled order is sent an email, or the broker or the   *)
(* notification service failed on the way.                                 *)
OwnerIsMailed == \A f \in Fulfils : pc[f] = "done" ~> mail[f] \in {"sent", "lost"}
===============================================================================
