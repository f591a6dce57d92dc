----------------------------- MODULE MailQueue -----------------------------
(***************************************************************************)
(* The outgoing mail queue: the message_queue records the app enqueues     *)
(* (app/services/message_queue.py) and the mail_sender workers that poll   *)
(* them, one process per app_code; a record with no app_code is visible to *)
(* every worker (ozon_gateway._pending_domain).                            *)
(*                                                                         *)
(* SMTP runs in a thread: when asyncio.wait_for gives up, the thread goes  *)
(* on and may still deliver.  Templates, servers and recipients are        *)
(* abstracted to the set of messages that cannot be rendered.              *)
(***************************************************************************)
EXTENDS Integers, FiniteSets

CONSTANTS
  Messages, Workers, NoMsg,
  Visible,   \* the messages the poll of each worker selects
  Broken,    \* messages with no template, server or recipient: MailError
  Budget     \* how often each kind of environment event may happen

Events == {"blip", "smtp", "crash", "requeue"}
Final == {"inviato", "in_errore"}

ASSUME NoMsgAssumption == NoMsg \notin Messages
ASSUME VisibleAssumption ==
  Visible \in [Workers -> SUBSET Messages] /\ Broken \subseteq Messages
ASSUME BudgetAssumption == Budget \in [Events -> Nat]

VARIABLES
  stato,       \* the record of each message, "none" before it is enqueued
  pc,          \* run_forever, process_once and _process_one of each worker
  batch,       \* the records of the pass not yet taken
  cur,         \* the message being processed
  thread,      \* the SMTP thread the worker waits for
  zombies,     \* messages whose thread the worker no longer waits for
  left,        \* environment events that may still happen
  (* History, read by no action: *)
  started,     \* sends each worker started, by message
  interrupted, \* crashes and failed marks of each worker, by message
  requeues,    \* times a user put the message back in the queue
  delivered,   \* messages an SMTP server accepted
  sendFailed   \* messages whose send failed or timed out

queueVars == <<stato, requeues>>
workVars == <<pc, batch, cur, thread, zombies>>
histVars == <<started, interrupted, delivered, sendFailed>>
mailVars == <<queueVars, workVars, histVars, left>>

MailTypeOK ==
  /\ stato \in [Messages -> {"none", "da_inviare"} \cup Final]
  /\ pc \in [Workers -> {"down", "poll", "next", "load", "send", "markSent", "markError"}]
  /\ batch \in [Workers -> SUBSET Messages]
  /\ cur \in [Workers -> Messages \cup {NoMsg}]
  /\ thread \in [Workers -> {"none", "open", "accepted"}]
  /\ zombies \in [Workers -> SUBSET Messages]
  /\ left \in [Events -> Nat]
  /\ started \in [Workers -> [Messages -> Nat]]
  /\ interrupted \in [Workers -> [Messages -> Nat]]
  /\ requeues \in [Messages -> Nat]
  /\ delivered \subseteq Messages
  /\ sendFailed \subseteq Messages

MailInit ==
  /\ stato = [m \in Messages |-> "none"]
  /\ pc = [w \in Workers |-> "down"]
  /\ batch = [w \in Workers |-> {}]
  /\ cur = [w \in Workers |-> NoMsg]
  /\ thread = [w \in Workers |-> "none"]
  /\ zombies = [w \in Workers |-> {}]
  /\ left = Budget
  /\ started = [w \in Workers |-> [m \in Messages |-> 0]]
  /\ interrupted = [w \in Workers |-> [m \in Messages |-> 0]]
  /\ requeues = [m \in Messages |-> 0]
  /\ delivered = {} /\ sendFailed = {}

Spend(e) == left[e] > 0 /\ left' = [left EXCEPT ![e] = @ - 1]

GoTo(w, p) == pc' = [pc EXCEPT ![w] = p]

\* The loop of process_once goes on with the next record.
NextRecord(w) ==
  /\ GoTo(w, "next")
  /\ cur' = [cur EXCEPT ![w] = NoMsg]
  /\ thread' = [thread EXCEPT ![w] = "none"]

Interrupt(w, m) == interrupted' = [interrupted EXCEPT ![w][m] = @ + 1]

(***************************************************************************)
(* The queue's producers: enqueue, by the endpoint or after a save, and a  *)
(* user who puts a processed message back by editing its record.           *)
(***************************************************************************)

Enqueue(m) ==
  /\ stato[m] = "none"
  /\ stato' = [stato EXCEPT ![m] = "da_inviare"]
  /\ UNCHANGED <<requeues, workVars, histVars, left>>

Requeue(m) ==
  /\ Spend("requeue") /\ stato[m] \in Final
  /\ stato' = [stato EXCEPT ![m] = "da_inviare"]
  /\ requeues' = [requeues EXCEPT ![m] = @ + 1]
  /\ UNCHANGED <<workVars, histVars>>

(***************************************************************************)
(* A worker.                                                               *)
(***************************************************************************)

Start(w) ==
  /\ pc[w] = "down" /\ GoTo(w, "poll")
  /\ UNCHANGED <<queueVars, batch, cur, thread, zombies, histVars, left>>

Pending(w) == {m \in Visible[w] : stato[m] = "da_inviare"}

Poll(w) ==
  /\ pc[w] = "poll" /\ GoTo(w, "next")
  /\ batch' = [batch EXCEPT ![w] = Pending(w)]
  /\ UNCHANGED <<queueVars, cur, thread, zombies, histVars, left>>

PassDone(w) ==
  /\ pc[w] = "next" /\ batch[w] = {} /\ GoTo(w, "poll")
  /\ UNCHANGED <<queueVars, batch, cur, thread, zombies, histVars, left>>

Take(w) ==
  /\ pc[w] = "next" /\ GoTo(w, "load")
  /\ \E m \in batch[w] : /\ cur' = [cur EXCEPT ![w] = m]
                         /\ batch' = [batch EXCEPT ![w] = @ \ {m}]
  /\ UNCHANGED <<queueVars, thread, zombies, histVars, left>>

\* The reads and the rendering of _process_one succeed: the send starts.
StartSend(w) ==
  /\ pc[w] = "load" /\ cur[w] \notin Broken /\ GoTo(w, "send")
  /\ thread' = [thread EXCEPT ![w] = "open"]
  /\ started' = [started EXCEPT ![w][cur[w]] = @ + 1]
  /\ UNCHANGED <<queueVars, batch, cur, zombies, interrupted, delivered, sendFailed, left>>

Reject(w) ==
  /\ pc[w] = "load" /\ cur[w] \in Broken /\ GoTo(w, "markError")
  /\ UNCHANGED <<queueVars, batch, cur, thread, zombies, histVars, left>>

\* TransientError: a read failed, the record stays in the queue.
Postpone(w) ==
  /\ pc[w] = "load" /\ Spend("blip") /\ NextRecord(w)
  /\ UNCHANGED <<queueVars, batch, zombies, histVars>>

\* The SMTP server accepts the message.
Accept(w) ==
  /\ pc[w] = "send" /\ thread[w] = "open"
  /\ thread' = [thread EXCEPT ![w] = "accepted"]
  /\ delivered' = delivered \cup {cur[w]}
  /\ UNCHANGED <<queueVars, pc, batch, cur, zombies, started, interrupted, sendFailed, left>>

SendDone(w) ==
  /\ pc[w] = "send" /\ thread[w] = "accepted" /\ GoTo(w, "markSent")
  /\ UNCHANGED <<queueVars, batch, cur, thread, zombies, histVars, left>>

\* The send raises, before or after the server took the message.
SendFails(w) ==
  /\ pc[w] = "send" /\ Spend("smtp") /\ GoTo(w, "markError")
  /\ sendFailed' = sendFailed \cup {cur[w]}
  /\ UNCHANGED <<queueVars, batch, cur, thread, zombies, started, interrupted, delivered>>

\* Broken variants of SendTimeout: the send is awaited without a limit; the limit is
\* taken for a success.
NoSendTimeout(w) == FALSE
TimeoutAsSent(w) ==
  /\ pc[w] = "send" /\ GoTo(w, "markSent")
  /\ UNCHANGED <<queueVars, batch, cur, thread, zombies, histVars, left>>

\* wait_for gives up after send_timeout; the thread cannot be stopped.
SendTimeout(w) ==
  /\ pc[w] = "send" /\ GoTo(w, "markError")
  /\ sendFailed' = sendFailed \cup {cur[w]}
  /\ zombies' = [zombies EXCEPT ![w] = IF thread[w] = "open" THEN @ \cup {cur[w]} ELSE @]
  /\ UNCHANGED <<queueVars, batch, cur, thread, started, interrupted, delivered, left>>

\* An abandoned thread ends, having delivered or not.
ZombieEnds(w, m) ==
  /\ m \in zombies[w]
  /\ zombies' = [zombies EXCEPT ![w] = @ \ {m}]
  /\ delivered' \in {delivered, delivered \cup {m}}
  /\ UNCHANGED <<queueVars, pc, batch, cur, thread, started, interrupted, sendFailed, left>>

MarkSent(w) ==
  /\ pc[w] = "markSent" /\ NextRecord(w)
  /\ stato' = [stato EXCEPT ![cur[w]] = "inviato"]
  /\ UNCHANGED <<requeues, batch, zombies, histVars, left>>

\* Broken variant of MarkError: the error is logged, the stato is not stored.
MarkErrorLogsOnly(w) ==
  /\ pc[w] = "markError" /\ NextRecord(w)
  /\ UNCHANGED <<queueVars, batch, zombies, histVars, left>>

MarkError(w) ==
  /\ pc[w] = "markError" /\ NextRecord(w)
  /\ stato' = [stato EXCEPT ![cur[w]] = "in_errore"]
  /\ UNCHANGED <<requeues, batch, zombies, histVars, left>>

\* A mark raises, stored or not: the exception ends the pass.
MarkFails(w) ==
  /\ pc[w] \in {"markSent", "markError"} /\ Spend("blip")
  /\ GoTo(w, "poll")
  /\ stato' \in {stato, [stato EXCEPT ![cur[w]] =
                           IF pc[w] = "markSent" THEN "inviato" ELSE "in_errore"]}
  /\ batch' = [batch EXCEPT ![w] = {}]
  /\ cur' = [cur EXCEPT ![w] = NoMsg]
  /\ thread' = [thread EXCEPT ![w] = "none"]
  /\ Interrupt(w, cur[w])
  /\ UNCHANGED <<requeues, zombies, started, delivered, sendFailed>>

\* The process dies, with its threads.
WorkerCrash(w) ==
  /\ pc[w] # "down" /\ Spend("crash") /\ GoTo(w, "down")
  /\ batch' = [batch EXCEPT ![w] = {}]
  /\ cur' = [cur EXCEPT ![w] = NoMsg]
  /\ thread' = [thread EXCEPT ![w] = "none"]
  /\ zombies' = [zombies EXCEPT ![w] = {}]
  /\ IF cur[w] = NoMsg THEN UNCHANGED interrupted ELSE Interrupt(w, cur[w])
  /\ UNCHANGED <<queueVars, started, delivered, sendFailed>>

WorkerStep(w) ==
  \/ Start(w) \/ Poll(w) \/ PassDone(w) \/ Take(w) \/ StartSend(w) \/ Reject(w)
  \/ SendTimeout(w) \/ MarkSent(w) \/ MarkError(w)

\* What the SMTP server makes happen: it may also never answer.
ServerStep(w) == Accept(w) \/ SendDone(w)

WorkerFault(w) == Postpone(w) \/ SendFails(w) \/ MarkFails(w) \/ WorkerCrash(w)

MailNext ==
  \/ \E m \in Messages : Enqueue(m) \/ Requeue(m)
  \/ \E w \in Workers : \/ WorkerStep(w) \/ ServerStep(w) \/ WorkerFault(w)
                        \/ \E m \in Messages : ZombieEnds(w, m)

MailSpec == MailInit /\ [][MailNext]_mailVars

\* The loop of run_forever never dies, a dead worker is restarted, and wait_for
\* ends a send; nothing makes the SMTP server answer.
FairSpec == MailSpec /\ \A w \in Workers : WF_mailVars(WorkerStep(w))

(***************************************************************************)
(* Properties.                                                             *)
(***************************************************************************)

\* A message marked `inviato` was accepted by an SMTP server, whatever other
\* workers, abandoned threads and requeues did to it.
SentMeansDelivered == \A m \in Messages : stato[m] = "inviato" => m \in delivered

\* worker.py:14-22: a failed read never parks a message; `in_errore` means that the
\* message cannot be rendered or that its send failed.
ErrorIsTheMessagesOwn ==
  \A m \in Messages : stato[m] = "in_errore" => m \in Broken \cup sendFailed

\* A worker sends a message again only after a requeue, or after a crash or a failed
\* mark that hit this message in this worker.
ResendNeedsCause ==
  \A w \in Workers, m \in Messages :
    started[w][m] <= 1 + requeues[m] + interrupted[w][m]

\* Every enqueued message is sent or marked as an error, and one that cannot be
\* processed keeps no other from it.
EveryMessageSettles ==
  \A m \in Messages : stato[m] = "da_inviare" ~> stato[m] \in Final
=============================================================================
