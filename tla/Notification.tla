----------------------------- MODULE Notification -----------------------------
(***************************************************************************)
(* The notification service behind the order service: a fulfil emits the   *)
(* owner's id to notification_queue, and the consumer sends an email that  *)
(* takes two seconds.  The queue is not durable, a message is acknowledged *)
(* on delivery, and nothing bounds how many emails are sent at once.       *)
(***************************************************************************)
EXTENDS OrderService

CONSTANT MailFaults   \* faults of the broker and of the notification service

ASSUME MailFaultAssumption == MailFaults \subseteq {"broker", "restart"}

VARIABLE mail         \* what became of the notification of each fulfil

MailVal == {"none", "queued", "sending", "sent", "lost"}

MailInit == mail = [f \in Fulfils |-> "none"]

(* emit: what the order service adds to notified is in the queue.  Nobody  *)
(* awaits it: whether the broker had it is not known to the handler.       *)
Emit ==
  mail' = [f \in Fulfils |-> IF f \in notified' \ notified THEN "queued" ELSE mail[f]]

(* consumeBrokerMessage; the message is gone from the queue.               *)
Consume(f) ==
  /\ mail[f] = "queued"
  /\ mail' = [mail EXCEPT ![f] = "sending"]
  /\ UNCHANGED vars

(* sendEmail is over.                                                      *)
SendEmail(f) ==
  /\ mail[f] = "sending"
  /\ mail' = [mail EXCEPT ![f] = "sent"]
  /\ UNCHANGED vars

(* RabbitMQ restarts, or was not reachable when the id was emitted.        *)
RestartBroker ==
  /\ "broker" \in MailFaults
  /\ mail' = [f \in Fulfils |-> IF mail[f] = "queued" THEN "lost" ELSE mail[f]]
  /\ UNCHANGED vars

RestartNotification ==
  /\ "restart" \in MailFaults
  /\ mail' = [f \in Fulfils |-> IF mail[f] = "sending" THEN "lost" ELSE mail[f]]
  /\ UNCHANGED vars

MailStep(f) == Consume(f) \/ SendEmail(f)

MailFault == RestartBroker \/ RestartNotification
===============================================================================
