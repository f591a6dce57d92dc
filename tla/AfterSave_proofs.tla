-------------------------- MODULE AfterSave_proofs --------------------------
(***************************************************************************)
(* What a save brings about outside its record: the mail it puts in the    *)
(* queue (MailQueue), for every set of messages and workers, every         *)
(* visibility and every budget; the rules of a component it has written    *)
(* (RulesSync), for any number of saves, groups, crashes and failures.     *)
(***************************************************************************)
EXTENDS MailQueue, RulesSync, TLAPS

-----------------------------------------------------------------------------
(* The mail queue: MailQueue. *)

\* A worker holds a message exactly while it processes one, and has taken it out of
\* the batch.
InWork == {"load", "send", "markSent", "markError"}
Holding ==
  \A w \in Workers :
    /\ pc[w] \in InWork => cur[w] \in Messages
    /\ pc[w] \notin InWork => cur[w] = NoMsg
    /\ cur[w] \notin batch[w]

\* What a worker is about to store is true already.
MarksAreTrue ==
  \A w \in Workers :
    /\ pc[w] = "send" /\ thread[w] = "accepted" => cur[w] \in delivered
    /\ pc[w] = "markSent" => cur[w] \in delivered
    /\ pc[w] = "markError" => cur[w] \in Broken \cup sendFailed

\* The worker has no unexplained send of the message behind it.
Room(w, m) == started[w][m] <= requeues[m] + interrupted[w][m]

InHand(w, m) == cur[w] = m /\ pc[w] \in {"send", "markSent", "markError"}

\* A message that a worker may still send has room for it.
RoomToSend ==
  \A w \in Workers, m \in Messages :
    /\ stato[m] \notin Final /\ ~InHand(w, m) => Room(w, m)
    /\ m \in batch[w] => Room(w, m)
    /\ pc[w] = "load" /\ cur[w] = m => Room(w, m)

MailInv ==
  /\ MailTypeOK /\ Holding /\ MarksAreTrue /\ RoomToSend
  /\ SentMeansDelivered /\ ErrorIsTheMessagesOwn /\ ResendNeedsCause

LEMMA MailInitInv == MailInit => MailInv
BY BudgetAssumption, NoMsgAssumption
   DEF MailInit, MailInv, MailTypeOK, Holding, InWork, MarksAreTrue, RoomToSend, Room, InHand,
   SentMeansDelivered, ErrorIsTheMessagesOwn, ResendNeedsCause, Final

LEMMA InterruptEffect ==
  ASSUME MailTypeOK, NEW w \in Workers, NEW m \in Messages, Interrupt(w, m)
  PROVE  /\ interrupted' \in [Workers -> [Messages -> Nat]]
         /\ \A v \in Workers, n \in Messages :
              interrupted'[v][n] = interrupted[v][n] + (IF v = w /\ n = m THEN 1 ELSE 0)
BY DEF MailTypeOK, Interrupt

LEMMA CrashEffect ==
  ASSUME MailTypeOK, NEW w \in Workers, WorkerCrash(w)
  PROVE  /\ interrupted' \in [Workers -> [Messages -> Nat]]
         /\ \A v \in Workers, n \in Messages :
              interrupted'[v][n] = interrupted[v][n] + (IF v = w /\ n = cur[w] THEN 1 ELSE 0)
<1>1. CASE cur[w] = NoMsg
  <2>1. \A n \in Messages : n # cur[w]
    BY <1>1, NoMsgAssumption
  <2>2. interrupted' = interrupted
    BY <1>1 DEF WorkerCrash
  <2> QED BY <2>1, <2>2 DEF MailTypeOK
<1>2. CASE cur[w] # NoMsg
  <2>1. cur[w] \in Messages /\ Interrupt(w, cur[w])
    BY <1>2 DEF WorkerCrash, MailTypeOK
  <2> QED BY <2>1, InterruptEffect
<1> QED BY <1>1, <1>2

LEMMA MailTypeStep ==
  ASSUME MailTypeOK, Holding, MailNext PROVE MailTypeOK' /\ Holding'
<1> USE NoMsgAssumption, VisibleAssumption DEF MailTypeOK, Holding, InWork, Final, Events
<1>1. ASSUME NEW m \in Messages, Enqueue(m) PROVE MailTypeOK' /\ Holding'
  BY <1>1 DEF Enqueue, workVars, histVars
<1>2. ASSUME NEW m \in Messages, Requeue(m) PROVE MailTypeOK' /\ Holding'
  BY <1>2 DEF Requeue, Spend, workVars, histVars
<1>3. ASSUME NEW w \in Workers, Start(w) PROVE MailTypeOK' /\ Holding'
  BY <1>3 DEF Start, GoTo, queueVars, histVars
<1>4. ASSUME NEW w \in Workers, Poll(w) PROVE MailTypeOK' /\ Holding'
  BY <1>4 DEF Poll, GoTo, Pending, queueVars, histVars
<1>5. ASSUME NEW w \in Workers, PassDone(w) PROVE MailTypeOK' /\ Holding'
  BY <1>5 DEF PassDone, GoTo, queueVars, histVars
<1>6. ASSUME NEW w \in Workers, Take(w) PROVE MailTypeOK' /\ Holding'
  BY <1>6 DEF Take, GoTo, queueVars, histVars
<1>7. ASSUME NEW w \in Workers, StartSend(w) PROVE MailTypeOK' /\ Holding'
  BY <1>7 DEF StartSend, GoTo, queueVars
<1>8. ASSUME NEW w \in Workers, Reject(w) PROVE MailTypeOK' /\ Holding'
  BY <1>8 DEF Reject, GoTo, queueVars, histVars
<1>9. ASSUME NEW w \in Workers, Accept(w) PROVE MailTypeOK' /\ Holding'
  BY <1>9 DEF Accept, queueVars
<1>10. ASSUME NEW w \in Workers, SendDone(w) PROVE MailTypeOK' /\ Holding'
  BY <1>10 DEF SendDone, GoTo, queueVars, histVars
<1>11. ASSUME NEW w \in Workers, SendTimeout(w) PROVE MailTypeOK' /\ Holding'
  BY <1>11 DEF SendTimeout, GoTo, queueVars
<1>12. ASSUME NEW w \in Workers, MarkSent(w) PROVE MailTypeOK' /\ Holding'
  BY <1>12 DEF MarkSent, NextRecord, GoTo, histVars
<1>13. ASSUME NEW w \in Workers, MarkError(w) PROVE MailTypeOK' /\ Holding'
  BY <1>13 DEF MarkError, NextRecord, GoTo, histVars
<1>14. ASSUME NEW w \in Workers, Postpone(w) PROVE MailTypeOK' /\ Holding'
  BY <1>14 DEF Postpone, NextRecord, Spend, GoTo, queueVars, histVars
<1>15. ASSUME NEW w \in Workers, SendFails(w) PROVE MailTypeOK' /\ Holding'
  BY <1>15 DEF SendFails, GoTo, Spend, queueVars
<1>16. ASSUME NEW w \in Workers, MarkFails(w) PROVE MailTypeOK' /\ Holding'
  BY <1>16, InterruptEffect DEF MarkFails, GoTo, Spend
<1>17. ASSUME NEW w \in Workers, WorkerCrash(w) PROVE MailTypeOK' /\ Holding'
  <2>1. interrupted' \in [Workers -> [Messages -> Nat]]
    BY <1>17, CrashEffect
  <2>2. /\ pc' = [pc EXCEPT ![w] = "down"] /\ cur' = [cur EXCEPT ![w] = NoMsg]
        /\ batch' = [batch EXCEPT ![w] = {}]
        /\ thread' = [thread EXCEPT ![w] = "none"]
        /\ zombies' = [zombies EXCEPT ![w] = {}]
        /\ UNCHANGED <<stato, requeues, started, delivered, sendFailed>>
    BY <1>17 DEF WorkerCrash, GoTo, queueVars
  <2>3. left' \in [Events -> Nat]
    BY <1>17 DEF WorkerCrash, Spend
  <2> QED BY <2>1, <2>2, <2>3
<1>18. ASSUME NEW w \in Workers, NEW m \in Messages, ZombieEnds(w, m) PROVE MailTypeOK' /\ Holding'
  BY <1>18 DEF ZombieEnds, queueVars
<1> QED BY <1>1, <1>2, <1>3, <1>4, <1>5, <1>6, <1>7, <1>8, <1>9, <1>10, <1>11, <1>12, <1>13, <1>14, <1>15, <1>16, <1>17, <1>18
  DEF MailNext, WorkerStep, ServerStep, WorkerFault

LEMMA MarkStep ==
  ASSUME MailTypeOK, Holding, MarksAreTrue, SentMeansDelivered, ErrorIsTheMessagesOwn, MailNext PROVE MarksAreTrue' /\ SentMeansDelivered' /\ ErrorIsTheMessagesOwn'
<1> USE DEF MailTypeOK, Holding, InWork, MarksAreTrue, SentMeansDelivered, ErrorIsTheMessagesOwn
<1>1. ASSUME NEW m \in Messages, Enqueue(m) PROVE MarksAreTrue' /\ SentMeansDelivered' /\ ErrorIsTheMessagesOwn'
  BY <1>1 DEF Enqueue, workVars, histVars
<1>2. ASSUME NEW m \in Messages, Requeue(m) PROVE MarksAreTrue' /\ SentMeansDelivered' /\ ErrorIsTheMessagesOwn'
  BY <1>2 DEF Requeue, Spend, workVars, histVars
<1>3. ASSUME NEW w \in Workers, Start(w) PROVE MarksAreTrue' /\ SentMeansDelivered' /\ ErrorIsTheMessagesOwn'
  BY <1>3 DEF Start, GoTo, queueVars, histVars
<1>4. ASSUME NEW w \in Workers, Poll(w) PROVE MarksAreTrue' /\ SentMeansDelivered' /\ ErrorIsTheMessagesOwn'
  BY <1>4 DEF Poll, GoTo, Pending, queueVars, histVars
<1>5. ASSUME NEW w \in Workers, PassDone(w) PROVE MarksAreTrue' /\ SentMeansDelivered' /\ ErrorIsTheMessagesOwn'
  BY <1>5 DEF PassDone, GoTo, queueVars, histVars
<1>6. ASSUME NEW w \in Workers, Take(w) PROVE MarksAreTrue' /\ SentMeansDelivered' /\ ErrorIsTheMessagesOwn'
  BY <1>6 DEF Take, GoTo, queueVars, histVars
<1>7. ASSUME NEW w \in Workers, StartSend(w) PROVE MarksAreTrue' /\ SentMeansDelivered' /\ ErrorIsTheMessagesOwn'
  BY <1>7 DEF StartSend, GoTo, queueVars
<1>8. ASSUME NEW w \in Workers, Reject(w) PROVE MarksAreTrue' /\ SentMeansDelivered' /\ ErrorIsTheMessagesOwn'
  BY <1>8 DEF Reject, GoTo, queueVars, histVars
<1>9. ASSUME NEW w \in Workers, Accept(w) PROVE MarksAreTrue' /\ SentMeansDelivered' /\ ErrorIsTheMessagesOwn'
  BY <1>9 DEF Accept, queueVars
<1>10. ASSUME NEW w \in Workers, SendDone(w) PROVE MarksAreTrue' /\ SentMeansDelivered' /\ ErrorIsTheMessagesOwn'
  BY <1>10 DEF SendDone, GoTo, queueVars, histVars
<1>11. ASSUME NEW w \in Workers, SendTimeout(w) PROVE MarksAreTrue' /\ SentMeansDelivered' /\ ErrorIsTheMessagesOwn'
  BY <1>11 DEF SendTimeout, GoTo, queueVars
<1>12. ASSUME NEW w \in Workers, MarkSent(w) PROVE MarksAreTrue' /\ SentMeansDelivered' /\ ErrorIsTheMessagesOwn'
  BY <1>12 DEF MarkSent, NextRecord, GoTo, histVars
<1>13. ASSUME NEW w \in Workers, MarkError(w) PROVE MarksAreTrue' /\ SentMeansDelivered' /\ ErrorIsTheMessagesOwn'
  BY <1>13 DEF MarkError, NextRecord, GoTo, histVars
<1>14. ASSUME NEW w \in Workers, Postpone(w) PROVE MarksAreTrue' /\ SentMeansDelivered' /\ ErrorIsTheMessagesOwn'
  BY <1>14 DEF Postpone, NextRecord, Spend, GoTo, queueVars, histVars
<1>15. ASSUME NEW w \in Workers, SendFails(w) PROVE MarksAreTrue' /\ SentMeansDelivered' /\ ErrorIsTheMessagesOwn'
  BY <1>15 DEF SendFails, GoTo, Spend, queueVars
<1>16. ASSUME NEW w \in Workers, MarkFails(w) PROVE MarksAreTrue' /\ SentMeansDelivered' /\ ErrorIsTheMessagesOwn'
  BY <1>16 DEF MarkFails, GoTo, Interrupt, Spend
<1>17. ASSUME NEW w \in Workers, WorkerCrash(w) PROVE MarksAreTrue' /\ SentMeansDelivered' /\ ErrorIsTheMessagesOwn'
  BY <1>17 DEF WorkerCrash, GoTo, Interrupt, Spend, queueVars
<1>18. ASSUME NEW w \in Workers, NEW m \in Messages, ZombieEnds(w, m) PROVE MarksAreTrue' /\ SentMeansDelivered' /\ ErrorIsTheMessagesOwn'
  BY <1>18 DEF ZombieEnds, queueVars
<1> QED BY <1>1, <1>2, <1>3, <1>4, <1>5, <1>6, <1>7, <1>8, <1>9, <1>10, <1>11, <1>12, <1>13, <1>14, <1>15, <1>16, <1>17, <1>18
  DEF MailNext, WorkerStep, ServerStep, WorkerFault

LEMMA ResendStep ==
  ASSUME MailTypeOK, Holding, RoomToSend, ResendNeedsCause, MailNext PROVE RoomToSend' /\ ResendNeedsCause'
<1> USE NoMsgAssumption DEF MailTypeOK, Holding, InWork, RoomToSend, Room, InHand, ResendNeedsCause, Final
<1>1. ASSUME NEW m \in Messages, Enqueue(m) PROVE RoomToSend' /\ ResendNeedsCause'
  BY <1>1 DEF Enqueue, workVars, histVars
<1>2. ASSUME NEW m \in Messages, Requeue(m) PROVE RoomToSend' /\ ResendNeedsCause'
  BY <1>2 DEF Requeue, Spend, workVars, histVars
<1>3. ASSUME NEW w \in Workers, Start(w) PROVE RoomToSend' /\ ResendNeedsCause'
  BY <1>3 DEF Start, GoTo, queueVars, histVars
<1>4. ASSUME NEW w \in Workers, Poll(w) PROVE RoomToSend' /\ ResendNeedsCause'
  BY <1>4 DEF Poll, GoTo, Pending, queueVars, histVars
<1>5. ASSUME NEW w \in Workers, PassDone(w) PROVE RoomToSend' /\ ResendNeedsCause'
  BY <1>5 DEF PassDone, GoTo, queueVars, histVars
<1>6. ASSUME NEW w \in Workers, Take(w) PROVE RoomToSend' /\ ResendNeedsCause'
  BY <1>6 DEF Take, GoTo, queueVars, histVars
<1>7. ASSUME NEW w \in Workers, StartSend(w) PROVE RoomToSend' /\ ResendNeedsCause'
  BY <1>7 DEF StartSend, GoTo, queueVars
<1>8. ASSUME NEW w \in Workers, Reject(w) PROVE RoomToSend' /\ ResendNeedsCause'
  BY <1>8 DEF Reject, GoTo, queueVars, histVars
<1>9. ASSUME NEW w \in Workers, Accept(w) PROVE RoomToSend' /\ ResendNeedsCause'
  BY <1>9 DEF Accept, queueVars
<1>10. ASSUME NEW w \in Workers, SendDone(w) PROVE RoomToSend' /\ ResendNeedsCause'
  BY <1>10 DEF SendDone, GoTo, queueVars, histVars
<1>11. ASSUME NEW w \in Workers, SendTimeout(w) PROVE RoomToSend' /\ ResendNeedsCause'
  BY <1>11 DEF SendTimeout, GoTo, queueVars
<1>12. ASSUME NEW w \in Workers, MarkSent(w) PROVE RoomToSend' /\ ResendNeedsCause'
  BY <1>12 DEF MarkSent, NextRecord, GoTo, histVars
<1>13. ASSUME NEW w \in Workers, MarkError(w) PROVE RoomToSend' /\ ResendNeedsCause'
  BY <1>13 DEF MarkError, NextRecord, GoTo, histVars
<1>14. ASSUME NEW w \in Workers, Postpone(w) PROVE RoomToSend' /\ ResendNeedsCause'
  BY <1>14 DEF Postpone, NextRecord, Spend, GoTo, queueVars, histVars
<1>15. ASSUME NEW w \in Workers, SendFails(w) PROVE RoomToSend' /\ ResendNeedsCause'
  BY <1>15 DEF SendFails, GoTo, Spend, queueVars
<1>16. ASSUME NEW w \in Workers, MarkFails(w) PROVE RoomToSend' /\ ResendNeedsCause'
  BY <1>16 DEF MarkFails, GoTo, Interrupt, Spend
<1>17. ASSUME NEW w \in Workers, WorkerCrash(w) PROVE RoomToSend' /\ ResendNeedsCause'
  <2>1. \A v \in Workers, n \in Messages :
          interrupted'[v][n] = interrupted[v][n] + (IF v = w /\ n = cur[w] THEN 1 ELSE 0)
    BY <1>17, CrashEffect
  <2>2. /\ pc' = [pc EXCEPT ![w] = "down"] /\ cur' = [cur EXCEPT ![w] = NoMsg]
        /\ batch' = [batch EXCEPT ![w] = {}]
        /\ UNCHANGED <<stato, requeues, started>>
    BY <1>17 DEF WorkerCrash, GoTo, queueVars
  <2>3. interrupted \in [Workers -> [Messages -> Nat]] /\ interrupted' \in [Workers -> [Messages -> Nat]]
    BY <1>17, CrashEffect DEF MailTypeOK
  <2>4. RoomToSend'
    BY <2>1, <2>2, <2>3
  <2>5. ResendNeedsCause'
    BY <2>1, <2>2, <2>3
  <2> QED BY <2>4, <2>5
<1>18. ASSUME NEW w \in Workers, NEW m \in Messages, ZombieEnds(w, m) PROVE RoomToSend' /\ ResendNeedsCause'
  BY <1>18 DEF ZombieEnds, queueVars
<1> QED BY <1>1, <1>2, <1>3, <1>4, <1>5, <1>6, <1>7, <1>8, <1>9, <1>10, <1>11, <1>12, <1>13, <1>14, <1>15, <1>16, <1>17, <1>18
  DEF MailNext, WorkerStep, ServerStep, WorkerFault

LEMMA MailNextInv == MailInv /\ [MailNext]_mailVars => MailInv'
<1> SUFFICES ASSUME MailInv, [MailNext]_mailVars PROVE MailInv'
  OBVIOUS
<1>1. CASE MailNext
  BY <1>1, MailTypeStep, MarkStep, ResendStep DEF MailInv
<1>2. CASE UNCHANGED mailVars
  BY <1>2 DEF mailVars, queueVars, workVars, histVars, MailInv, MailTypeOK, Holding, MarksAreTrue,
     RoomToSend, Room, InHand, SentMeansDelivered, ErrorIsTheMessagesOwn, ResendNeedsCause
<1> QED BY <1>1, <1>2

LEMMA MailInvariance == MailSpec => []MailInv
BY MailInitInv, MailNextInv, PTL DEF MailSpec

\* Every variable keeps its type, whatever the workers, faults and users do.
THEOREM MailTypeCorrect == MailSpec => []MailTypeOK
BY MailInvariance, PTL DEF MailInv

\* A message marked as sent was accepted by an SMTP server.
THEOREM NoFalseSent == MailSpec => []SentMeansDelivered
BY MailInvariance, PTL DEF MailInv

\* A database failure never parks a message as an error.
THEOREM NoBlameForBlips == MailSpec => []ErrorIsTheMessagesOwn
BY MailInvariance, PTL DEF MailInv

\* Each further send of a message by a worker is paid for by a requeue, a crash or a
\* failed mark.
THEOREM ResendsAccountedFor == MailSpec => []ResendNeedsCause
BY MailInvariance, PTL DEF MailInv

-----------------------------------------------------------------------------
(* The access rules: RulesSync. *)

\* The two tables as they were, and as what the component says leaves them.
Had(s, t) == sync[s].before.tables[t]
Result(s, t) == IF Unsure(sync[s].schema[t], Had(s, t)) THEN Had(s, t)
                ELSE sync[s].schema[t].rows

\* What a synchronisation nobody disturbed has done: the tables it is through with are
\* as they should be, the others as it found them, but for the one it has emptied.
TablesSoFar(s) ==
  /\ sync[s].pc \in {"stored", "loaded"} => sync[s].table = "groups"
  /\ sync[s].pc \in {"delete", "insert"} => ~ Unsure(Mine(s), Had(s, sync[s].table))
  /\ tables[sync[s].table] = IF sync[s].pc = "insert" THEN {} ELSE Had(s, sync[s].table)
  /\ sync[s].table = "groups" => tables["records"] = Had(s, "records")
  /\ sync[s].table = "records" => tables["groups"] = Result(s, "groups")

\* It works for the component as it is stored.
ForTheStored(s) ==
  /\ Normalized(sync[s].schema) = sync[s].schema
  /\ sync[s].pc \in {"sync", "delete", "insert"} => Normalized(props) = sync[s].schema

\* Nobody else is at work, since it began.
Alone(s) == \A z \in Syncers : Active(z) => z = s

Faithful ==
  \A s \in Syncers : Active(s) /\ sync[s].clear => Alone(s) /\ ForTheStored(s) /\ TablesSoFar(s)

RulesInv == TypeOK /\ Faithful

\* Types.

SyncOK == [pc : Steps \cup {"idle", "done"}, schema : Props, table : Tables,
           carried : SUBSET Tables, clear : BOOLEAN, before : Before]

\* Who may be at work: the saves while the app is up, the start while it is not.
TakeTurns ==
  /\ sync["boot"].pc \notin {"stored", "loaded", "done"}
  /\ sync["boot"].pc # "idle" => boot \in {"first", "second"}
  /\ \A s \in Saves : sync[s].pc \in Steps => boot = "up"

LEMMA NormalizedTwice ==
  ASSUME TypeOK, NEW p \in Props
  PROVE  Normalized(p) \in Props /\ Normalized(Normalized(p)) = Normalized(p)
<1>1. Default.form = "rules" /\ Default \in [form : Forms, rows : SUBSET Rows]
  <2>1. [key : Keys, edit : {0}] \subseteq Rows
    BY DEF Rows
  <2> QED
    BY <2>1 DEF Default, Forms
<1>2. \A t \in Tables : Normalized(p)[t] \in [form : Forms, rows : SUBSET Rows]
  BY <1>1 DEF Normalized, Props
<1>3. Normalized(p) \in Props
  BY <1>2 DEF Normalized, Props
<1>4. \A t \in Tables : Normalized(Normalized(p))[t] = Normalized(p)[t]
  BY <1>1 DEF Normalized
<1> QED
  BY <1>3, <1>4 DEF Normalized

LEMMA EditionType ==
  ASSUME NEW offer \in Offers, NEW e \in Nat
  PROVE  Edition(offer, e) \in Props
<1>1. offer \in [Tables -> [form : Forms, keys : SUBSET Keys]]
  BY OffersAssumption
<1>2. \A t \in Tables : /\ offer[t].form \in Forms
                        /\ [key : offer[t].keys, edit : {e}] \subseteq Rows
  BY <1>1 DEF Rows
<1>3. \A t \in Tables : Edition(offer, e)[t] \in [form : Forms, rows : SUBSET Rows]
  BY <1>2 DEF Edition
<1> QED
  BY <1>3 DEF Edition, Props

LEMMA IdleType == Idle \in SyncOK /\ NoProps \in Props /\ Idle.pc = "idle" /\ Idle.clear
<1>1. NoProps \in Props
  BY DEF NoProps, Absent, Props, Forms
<1>2. NotYet \in Before
  BY <1>1 DEF NotYet, Before
<1> QED
  BY <1>1, <1>2 DEF Idle, SyncOK, Tables

\* The end of a synchronisation.
LEMMA EndedEffect ==
  ASSUME TypeOK, NEW s \in Syncers, Ended(s), boot \in {"first", "second", "up"},
         s = "boot" => boot # "up", s # "boot" => boot = "up"
  PROVE  /\ sync' \in [Syncers -> SyncOK] /\ TakeTurns' /\ ~ Active(s)'
         /\ \A z \in Syncers \ {s} : sync'[z] = sync[z]
         /\ boot' \in {"install", "up"} /\ (s # "boot" => boot' = boot)
<1> DEFINE r == IF s = "boot" THEN Idle ELSE [Idle EXCEPT !.pc = "done"]
<1>1. r \in SyncOK /\ r.pc \in {"idle", "done"} /\ (s = "boot" => r.pc = "idle")
  BY IdleType DEF SyncOK
<1>2. sync' = [sync EXCEPT ![s] = r]
  BY DEF Ended
<1>3. sync \in [Syncers -> SyncOK]
  BY DEF TypeOK, SyncOK
<1>4. "boot" \in Syncers /\ "boot" \notin Saves /\ \A z \in Syncers : z \in Saves \/ z = "boot"
  BY NamesAssumption DEF Syncers
<1>5. boot' \in {"install", "up"} /\ (s # "boot" => boot' = boot)
  BY DEF Ended
<1> HIDE DEF r
<1>6. /\ sync' \in [Syncers -> SyncOK] /\ sync'[s] = r
      /\ \A z \in Syncers \ {s} : sync'[z] = sync[z]
  BY <1>1, <1>2, <1>3
<1>7. ~ Active(s)'
  BY <1>1, <1>6 DEF Active, Steps
<1>8. TakeTurns'
  BY <1>1, <1>4, <1>5, <1>6 DEF TakeTurns, TypeOK, Steps, Syncers
<1> QED
  BY <1>5, <1>6, <1>7, <1>8

\* A step of syncer s that goes on.
LEMMA MovedType ==
  ASSUME TypeOK, NEW s \in Syncers, NEW r \in SyncOK, sync' = [sync EXCEPT ![s] = r],
         Active(s), r.pc \in {"sync", "delete", "insert"} \/ (r.pc \in Steps /\ s # "boot"),
         UNCHANGED boot
  PROVE  sync' \in [Syncers -> SyncOK] /\ TakeTurns'
<1>1. sync \in [Syncers -> SyncOK] /\ TakeTurns
  BY DEF TypeOK, SyncOK, TakeTurns
<1>2. "boot" \in Syncers /\ "boot" \notin Saves /\ \A z \in Syncers : z \in Saves \/ z = "boot"
  BY NamesAssumption DEF Syncers
<1>3. /\ sync' \in [Syncers -> SyncOK] /\ sync'[s] = r
      /\ \A z \in Syncers \ {s} : sync'[z] = sync[z]
  BY <1>1
<1> QED
  BY <1>1, <1>2, <1>3 DEF TakeTurns, Active, Steps, Syncers

\* Whoever is at work: the start before the app is up, a save after it.
LEMMA Turn ==
  ASSUME TypeOK, NEW s \in Syncers, Active(s)
  PROVE  /\ boot \in {"first", "second", "up"}
         /\ s = "boot" => boot # "up"
         /\ s # "boot" => boot = "up"
         /\ sync[s] \in SyncOK /\ Mine(s) \in [form : Forms, rows : SUBSET Rows]
         /\ \A z \in Syncers : Active(z) => (z = "boot" <=> s = "boot")
<1>1. sync[s] \in SyncOK
  BY DEF TypeOK, SyncOK
<1>2. Mine(s) \in [form : Forms, rows : SUBSET Rows]
  BY <1>1 DEF Mine, SyncOK, Props
<1> QED
  BY <1>1, <1>2, NamesAssumption DEF TypeOK, Active, Steps, Syncers

LEMMA NextTableEffect ==
  ASSUME TypeOK, NEW s \in Syncers, Active(s), NextTable(s)
  PROVE  /\ sync' \in [Syncers -> SyncOK] /\ TakeTurns'
         /\ boot' \in {"down", "first", "install", "second", "up"}
<1>1. CASE sync[s].table = "groups"
  <2>1. PICK r : r = [sync[s] EXCEPT !.pc = "sync", !.table = "records"]
    OBVIOUS
  <2>2. r \in SyncOK /\ r.pc = "sync"
    BY <2>1, Turn DEF SyncOK, Tables, Steps
  <2>3. sync' = [sync EXCEPT ![s] = r] /\ UNCHANGED boot
    BY <1>1, <2>1 DEF NextTable, TypeOK
  <2> QED
    BY <2>2, <2>3, MovedType DEF TypeOK
<1>2. CASE sync[s].table # "groups"
  <2>1. Ended(s)
    BY <1>2 DEF NextTable
  <2> QED
    BY <2>1, Turn, EndedEffect
<1> QED
  BY <1>1, <1>2

\* The rest of the state.
PlainOK ==
  /\ unique \in BOOLEAN /\ identity \in BOOLEAN /\ shipped \in Shipments
  /\ stored \in BOOLEAN /\ props \in Props /\ tables \in [Tables -> SUBSET Rows]
  /\ edits \in Nat /\ crashes \in 0 .. MaxCrashes /\ faults \in 0 .. MaxFaults

LEMMA TypeParts ==
  TypeOK <=> /\ PlainOK /\ boot \in {"down", "first", "install", "second", "up"}
             /\ sync \in [Syncers -> SyncOK] /\ TakeTurns
  BY DEF TypeOK, PlainOK, SyncOK, TakeTurns

LEMMA SyncStepType ==
  ASSUME TypeOK, NEW s \in Syncers, SyncStep(s)
  PROVE  TypeOK'
<1>0. /\ PlainOK /\ Active(s) /\ sync[s] \in SyncOK /\ sync[s].table \in Tables
      /\ Mine(s).rows \subseteq Rows
  <2>1. PlainOK /\ Active(s)
    BY TypeParts DEF SyncStep, Keep, Replace, DeleteMany, InsertMany, InsertRejected, Active, Steps
  <2> QED
    BY <2>1, Turn DEF SyncOK
<1> DEFINE t == sync[s].table
<1>1. ASSUME NEW p \in Steps \ {"stored", "loaded"}, sync' = [sync EXCEPT ![s].pc = p], UNCHANGED boot
      PROVE  sync' \in [Syncers -> SyncOK] /\ TakeTurns'
  <2>1. PICK r : r = [sync[s] EXCEPT !.pc = p]
    OBVIOUS
  <2>2. r \in SyncOK /\ r.pc = p /\ sync' = [sync EXCEPT ![s] = r]
    BY <1>0, <1>1, <2>1 DEF SyncOK, TypeOK
  <2> QED
    BY <1>0, <1>1, <2>2, MovedType DEF Steps
<1>2. ASSUME PlainOK', UNCHANGED boot, sync' \in [Syncers -> SyncOK], TakeTurns' PROVE TypeOK'
  BY <1>2, TypeParts DEF TypeOK, PlainOK, SyncOK, TakeTurns
<1>3. ASSUME PlainOK', NextTable(s) PROVE TypeOK'
  BY <1>0, <1>3, NextTableEffect DEF TypeOK, PlainOK, SyncOK, TakeTurns
<1>4. ASSUME NEW T \in SUBSET Rows, tables' = [tables EXCEPT ![t] = T],
             UNCHANGED <<setting, stored, props, bounds>>
      PROVE  PlainOK'
  BY <1>0, <1>4 DEF PlainOK, setting, bounds
<1>5. CASE Keep(s)
  BY <1>0, <1>3, <1>5 DEF Keep, PlainOK, setting, store, bounds
<1>6. CASE Replace(s)
  BY <1>0, <1>1, <1>2, <1>6 DEF Replace, PlainOK, setting, store, bounds, Steps
<1>7. CASE DeleteMany(s)
  <2>0. {} \in SUBSET Rows /\ tables' = [tables EXCEPT ![t] = {}]
        /\ UNCHANGED <<setting, stored, props, bounds>>
    BY <1>7 DEF DeleteMany
  <2>1. PlainOK'
    BY <1>4, <2>0
  <2> QED
    BY <1>1, <1>2, <1>3, <1>7, <2>1 DEF DeleteMany, Steps
<1>8. CASE InsertMany(s)
  <2>1. tables[t] \cup Mine(s).rows \subseteq Rows
    BY <1>0 DEF PlainOK
  <2>2. PlainOK'
    BY <1>4, <1>8, <2>1 DEF InsertMany
  <2> QED
    BY <1>3, <1>8, <2>2 DEF InsertMany
<1>9. CASE InsertRejected(s)
  <2>1. PICK part \in SUBSET (Mine(s).rows \ Taken(s)) :
          tables' = [tables EXCEPT ![t] = @ \cup part]
    BY <1>9 DEF InsertRejected
  <2>2. tables[t] \cup part \subseteq Rows
    BY <1>0 DEF PlainOK
  <2>3. PlainOK' /\ Ended(s)
    BY <1>4, <1>9, <2>1, <2>2 DEF InsertRejected
  <2>4. sync' \in [Syncers -> SyncOK] /\ TakeTurns' /\ boot' \in {"install", "up"}
    BY <1>0, <2>3, Turn, EndedEffect
  <2> QED
    BY <2>3, <2>4 DEF TypeOK, PlainOK, SyncOK, TakeTurns
<1> QED
  BY <1>5, <1>6, <1>7, <1>8, <1>9 DEF SyncStep

LEMMA SyncFailsType ==
  ASSUME TypeOK, NEW s \in Syncers, SyncFails(s)
  PROVE  TypeOK'
<1>0. /\ PlainOK /\ Active(s) /\ sync[s] \in SyncOK /\ sync[s].table \in Tables
      /\ Mine(s).rows \subseteq Rows
  <2>1. PlainOK /\ Active(s)
    BY TypeParts DEF SyncFails, Active, Steps
  <2> QED
    BY <2>1, Turn DEF SyncOK
<1>1. sync' \in [Syncers -> SyncOK] /\ TakeTurns' /\ boot' \in {"install", "up"}
  BY <1>0, Turn, EndedEffect DEF SyncFails
<1>2. tables' \in [Tables -> SUBSET Rows]
  <2>1. tables \in [Tables -> SUBSET Rows]
    BY <1>0 DEF PlainOK
  <2>2. \A part \in SUBSET (Mine(s).rows \ Taken(s)) :
          [tables EXCEPT ![sync[s].table] = @ \cup part] \in [Tables -> SUBSET Rows]
    BY <1>0, <2>1
  <2> QED
    BY <1>0, <2>1, <2>2 DEF SyncFails
<1>3. faults' \in 0 .. MaxFaults
  BY <1>0, BoundsAssumption DEF SyncFails, PlainOK
<1> QED
  BY <1>0, <1>1, <1>2, <1>3 DEF SyncFails, TypeOK, PlainOK, SyncOK, TakeTurns, setting

Nobody == \A z \in Syncers : ~ Active(z)

\* The record of a save that has just been stored.
NewSave(schema, carried, runtime) ==
  [Idle EXCEPT !.pc = IF runtime THEN "stored" ELSE "sync", !.schema = schema,
               !.carried = carried, !.clear = Nobody,
               !.before = [props |-> props, tables |-> tables]]

LEMMA StoreEffect ==
  ASSUME TypeOK, NEW s \in Saves, NEW offer \in Offers, NEW runtime \in BOOLEAN,
         Store(s, offer, runtime)
  PROVE  \E schema \in Props, carried \in SUBSET Tables :
           /\ Normalized(schema) = schema
           /\ props' = schema
           /\ sync'[s].pc \in {"stored", "sync"} /\ sync'[s].table = "groups"
           /\ sync'[s].schema = schema /\ sync'[s].carried = carried /\ (sync'[s].clear => Nobody)
           /\ sync'[s].before.tables = tables
           /\ \A z \in Syncers \ {s} :
                sync'[z].pc = sync[z].pc /\ (sync'[z].clear => ~ Active(z))
           /\ sync' \in [Syncers -> SyncOK]
<1> DEFINE schema == Normalized(Edition(offer, edits + 1))
           carried == {t \in Tables : offer[t].form # "absent"}
<1>1. schema \in Props /\ Normalized(schema) = schema
  BY EditionType, NormalizedTwice DEF TypeOK
<1>2. s \in Syncers /\ "boot" \in Syncers /\ sync \in [Syncers -> SyncOK]
  BY DEF Syncers, TypeOK, SyncOK
<1>3. props' = schema
  BY DEF Store
<1> HIDE DEF schema
<1>4. sync' = [z \in Syncers |-> IF z = s THEN NewSave(schema, carried, runtime)
                                 ELSE [sync[z] EXCEPT !.clear = @ /\ ~ Active(z)]]
  BY DEF Store, NewSave, Nobody, schema
<1>5. NewSave(schema, carried, runtime) \in SyncOK
  <2>1. [props |-> props, tables |-> tables] \in Before
    BY DEF TypeOK, Before
  <2>2. Nobody \in BOOLEAN /\ carried \in SUBSET Tables
    BY DEF Nobody
  <2> QED
    BY <1>1, <2>1, <2>2, IdleType DEF NewSave, SyncOK, Steps
<1>6. \A z \in Syncers : [sync[z] EXCEPT !.clear = @ /\ ~ Active(z)] \in SyncOK
  BY <1>2 DEF SyncOK
<1>7. sync'[s] = NewSave(schema, carried, runtime)
  BY <1>2, <1>4
<1> HIDE DEF carried
<1>8. /\ sync'[s].pc = (IF runtime THEN "stored" ELSE "sync") /\ sync'[s].table = "groups"
      /\ sync'[s].schema = schema /\ sync'[s].carried = carried
  BY <1>7 DEF NewSave, Idle
<1>9. (sync'[s].clear => Nobody) /\ sync'[s].before.tables = tables
  BY <1>7 DEF NewSave, Idle
<1>10. /\ sync' \in [Syncers -> SyncOK] /\ carried \in SUBSET Tables
       /\ \A z \in Syncers \ {s} :
            sync'[z].pc = sync[z].pc /\ (sync'[z].clear => ~ Active(z))
  <2>1. ASSUME NEW z \in Syncers \ {s}
        PROVE  sync'[z].pc = sync[z].pc /\ (sync'[z].clear => ~ Active(z))
    <3>1. sync'[z] = [sync[z] EXCEPT !.clear = @ /\ ~ Active(z)] /\ sync[z] \in SyncOK
      BY <1>2, <1>4
    <3> QED
      BY <3>1 DEF SyncOK
  <2> QED
    BY <1>4, <1>5, <1>6, <2>1 DEF carried
<1> QED
  BY <1>1, <1>3, <1>8, <1>9, <1>10

LEMMA SaveType ==
  ASSUME TypeOK, NEW s \in Saves,
         \/ \E offer \in Offers, runtime \in BOOLEAN : Store(s, offer, runtime)
         \/ Reload(s) \/ Rewrite(s) \/ RuntimeFails(s)
  PROVE  TypeOK'
<1>0. PlainOK /\ s \in Syncers /\ s # "boot" /\ sync[s] \in SyncOK
  BY TypeParts, NamesAssumption DEF Syncers
<1>1. ASSUME NEW offer \in Offers, NEW runtime \in BOOLEAN, Store(s, offer, runtime) PROVE TypeOK'
  <2>1. PICK schema \in Props, carried \in SUBSET Tables :
          /\ props' = schema /\ sync' \in [Syncers -> SyncOK]
          /\ \A z \in Syncers \ {s} : sync'[z].pc = sync[z].pc
    BY <1>1, StoreEffect
  <2>2. boot = "up" /\ edits' = edits + 1 /\ stored' = TRUE
        /\ UNCHANGED <<setting, boot, tables, crashes, faults>>
    BY <1>1 DEF Store
  <2>3. "boot" \in Syncers /\ sync'["boot"].pc = sync["boot"].pc
    BY <1>0, <2>1 DEF Syncers
  <2>4. TakeTurns'
    BY <2>2, <2>3 DEF TakeTurns, TypeOK
  <2>5. PlainOK'
    BY <1>0, <2>1, <2>2 DEF PlainOK, setting
  <2> QED
    BY <2>1, <2>2, <2>4, <2>5 DEF TypeOK, PlainOK, SyncOK, TakeTurns
<1>2. CASE Reload(s)
  <2>1. PICK schema : schema = Normalized(Preserved(sync[s].schema))
    OBVIOUS
  <2>2. Preserved(sync[s].schema) \in Props
    BY <1>0 DEF Preserved, Props, PlainOK, SyncOK
  <2>3. schema \in Props
    BY <2>1, <2>2, NormalizedTwice
  <2>4. PICK r : r = [sync[s] EXCEPT !.pc = "loaded", !.schema = schema]
    OBVIOUS
  <2>5. r \in SyncOK /\ r.pc = "loaded" /\ sync' = [sync EXCEPT ![s] = r]
    BY <1>0, <1>2, <2>1, <2>3, <2>4 DEF Reload, SyncOK, Steps, TypeOK
  <2>6. sync' \in [Syncers -> SyncOK] /\ TakeTurns'
    BY <1>0, <1>2, <2>5, MovedType DEF Reload, Active, Steps
  <2> QED
    BY <1>0, <1>2, <2>6 DEF Reload, TypeOK, PlainOK, SyncOK, TakeTurns, setting, store, bounds
<1>3. CASE Rewrite(s)
  <2>1. PICK r : r = [sync[s] EXCEPT !.pc = "sync"]
    OBVIOUS
  <2>2. r \in SyncOK /\ r.pc = "sync" /\ sync' = [sync EXCEPT ![s] = r]
    BY <1>0, <1>3, <2>1 DEF Rewrite, SyncOK, Steps, TypeOK
  <2>3. sync' \in [Syncers -> SyncOK] /\ TakeTurns'
    BY <1>0, <1>3, <2>2, MovedType DEF Rewrite, Active, Steps
  <2>4. props' \in Props
    BY <1>0, <1>3 DEF Rewrite, SyncOK
  <2> QED
    BY <1>0, <1>3, <2>3, <2>4 DEF Rewrite, TypeOK, PlainOK, SyncOK, TakeTurns, setting, bounds
<1>4. CASE RuntimeFails(s)
  <2>1. Active(s) /\ Ended(s)
    BY <1>4 DEF RuntimeFails, Active, Steps
  <2>2. sync' \in [Syncers -> SyncOK] /\ TakeTurns' /\ boot' \in {"install", "up"}
    BY <1>0, <2>1, Turn, EndedEffect
  <2>3. props' \in Props /\ faults' \in 0 .. MaxFaults
    BY <1>0, <1>4, BoundsAssumption DEF RuntimeFails, PlainOK, SyncOK
  <2> QED
    BY <1>0, <1>4, <2>2, <2>3 DEF RuntimeFails, TypeOK, PlainOK, SyncOK, TakeTurns, setting
<1> QED
  BY <1>1, <1>2, <1>3, <1>4

LEMMA BootType ==
  ASSUME TypeOK, BootStart \/ BootReads \/ BootReadFails \/ Install \/ Crash
  PROVE  TypeOK'
<1>0. PlainOK /\ "boot" \in Syncers /\ sync \in [Syncers -> SyncOK] /\ TakeTurns
  BY TypeParts DEF Syncers
<1>1. CASE BootStart
  BY <1>1, NamesAssumption DEF BootStart, setting, store, bounds, TypeOK
<1>2. CASE BootReads
  <2>1. CASE stored
    <3>1. PICK r : r = [Idle EXCEPT !.pc = "sync", !.schema = Normalized(props),
                                    !.before = [props |-> props, tables |-> tables]]
      OBVIOUS
    <3>2. Normalized(props) \in Props /\ [props |-> props, tables |-> tables] \in Before
      BY <1>0, NormalizedTwice DEF PlainOK, Before
    <3>3. r \in SyncOK /\ r.pc = "sync"
      BY <3>1, <3>2, IdleType DEF SyncOK, Steps
    <3>4. sync' = [sync EXCEPT !["boot"] = r] /\ UNCHANGED boot /\ boot \in {"first", "second"}
      BY <1>2, <2>1, <3>1 DEF BootReads
    <3>5. sync' \in [Syncers -> SyncOK] /\ TakeTurns'
      BY <1>0, <3>3, <3>4, NamesAssumption DEF TakeTurns, Syncers
    <3> QED
      BY <1>0, <1>2, <3>4, <3>5 DEF BootReads, TypeOK, PlainOK, SyncOK, TakeTurns, setting, store,
         bounds
  <2>2. CASE ~ stored
    <3>1. sync' \in [Syncers -> SyncOK] /\ TakeTurns' /\ boot' \in {"install", "up"}
      BY <1>0, <1>2, <2>2, EndedEffect DEF BootReads
    <3> QED
      BY <1>0, <1>2, <3>1 DEF BootReads, TypeOK, PlainOK, SyncOK, TakeTurns, setting, store, bounds
  <2> QED
    BY <2>1, <2>2
<1>3. CASE BootReadFails
  <2>1. sync' \in [Syncers -> SyncOK] /\ TakeTurns' /\ boot' \in {"install", "up"}
    BY <1>0, <1>3, EndedEffect DEF BootReadFails
  <2>2. faults' \in 0 .. MaxFaults
    BY <1>0, <1>3, BoundsAssumption DEF BootReadFails, PlainOK
  <2> QED
    BY <1>0, <1>3, <2>1, <2>2 DEF BootReadFails, TypeOK, PlainOK, SyncOK, TakeTurns, setting, store
<1>4. CASE Install
  <2>1. Seed \in Props
    <3>1. [key : Keys, edit : {1}] \subseteq Rows
      BY DEF Rows
    <3> QED
      BY <3>1 DEF Seed, Props, Forms
  <2>2. NoProps \in Props
    BY IdleType
  <2>3. PlainOK'
    BY <1>0, <1>4, <2>1, <2>2 DEF Install, WritesComponent, Shipped, PlainOK, setting, bounds
  <2>4. boot' = "second" /\ UNCHANGED sync /\ TakeTurns'
    BY <1>0, <1>4, NamesAssumption DEF Install, TakeTurns
  <2> QED
    BY <1>0, <2>3, <2>4 DEF TypeOK, PlainOK, SyncOK, TakeTurns
<1>5. CASE Crash
  <2>1. [Idle EXCEPT !.pc = "done"] \in SyncOK /\ Idle \in SyncOK
        /\ [Idle EXCEPT !.pc = "done"].pc = "done"
    BY IdleType DEF SyncOK
  <2>2. sync' \in [Syncers -> SyncOK]
    BY <1>0, <1>5, <2>1 DEF Crash
  <2>3. sync'["boot"].pc = "idle"
    BY <1>0, <1>5, IdleType DEF Crash
  <2>4. ASSUME NEW s \in Saves PROVE sync'[s].pc \notin Steps
    <3>1. s \in Syncers /\ s # "boot"
      BY NamesAssumption DEF Syncers
    <3> QED
      BY <1>5, <2>1, <3>1 DEF Crash, Active, Steps
  <2>5. crashes' \in 0 .. MaxCrashes
    BY <1>0, <1>5, BoundsAssumption DEF Crash, PlainOK
  <2> QED
    BY <1>0, <1>5, <2>2, <2>3, <2>4, <2>5 DEF Crash, TypeOK, PlainOK, SyncOK, setting, store
<1> QED
  BY <1>1, <1>2, <1>3, <1>4, <1>5

\* Who makes a step: the start, or a syncer at work, or a save that begins.
SaveBegins(s) == \E offer \in Offers, runtime \in BOOLEAN : Store(s, offer, runtime)
Works(s) ==
  SyncStep(s) \/ SyncFails(s) \/ (s \in Saves /\ (Reload(s) \/ Rewrite(s) \/ RuntimeFails(s)))

LEMMA Steppers ==
  ASSUME Next
  PROVE  \/ BootStart \/ BootReads \/ BootReadFails \/ Install \/ Crash
         \/ \E s \in Saves : SaveBegins(s)
         \/ \E s \in Syncers : Works(s)
  BY DEF Next, BootStep, SaveBegins, Works, Syncers

LEMMA RulesTypeStep == TypeOK /\ Next => TypeOK'
<1> SUFFICES ASSUME TypeOK, Next PROVE TypeOK'
  OBVIOUS
<1>1. ASSUME NEW s \in Syncers, Works(s) PROVE TypeOK'
  BY <1>1, SyncStepType, SyncFailsType, SaveType DEF Works
<1>2. ASSUME NEW s \in Saves, SaveBegins(s) PROVE TypeOK'
  BY <1>2, SaveType DEF SaveBegins
<1> QED
  BY <1>1, <1>2, BootType, Steppers

LEMMA RulesInitType == Init => TypeOK
<1> SUFFICES ASSUME Init PROVE TypeOK
  OBVIOUS
<1>1. PlainOK
  <2>1. unique \in BOOLEAN /\ identity \in BOOLEAN /\ shipped \in Shipments
    BY ChoicesAssumption DEF Init
  <2>2. tables \in [Tables -> SUBSET Rows] /\ props \in Props /\ stored \in BOOLEAN
    BY IdleType DEF Init
  <2>3. edits \in Nat /\ crashes \in 0 .. MaxCrashes /\ faults \in 0 .. MaxFaults
    BY BoundsAssumption DEF Init
  <2> QED
    BY <2>1, <2>2, <2>3 DEF PlainOK
<1>2. sync \in [Syncers -> SyncOK] /\ \A s \in Syncers : sync[s].pc = "idle"
  BY IdleType DEF Init
<1>3. TakeTurns /\ boot = "down"
  BY <1>2 DEF Init, TakeTurns, Syncers, Steps
<1> QED
  BY <1>1, <1>2, <1>3, TypeParts

\* The step of a synchronisation nobody disturbs.

\* What TablesSoFar and ForTheStored say of syncer s, in terms of its record r.
SoFar(r) ==
  /\ r.pc \in {"stored", "loaded"} => r.table = "groups"
  /\ r.pc \in {"delete", "insert"} => ~ Unsure(r.schema[r.table], r.before.tables[r.table])
  /\ tables[r.table] = IF r.pc = "insert" THEN {} ELSE r.before.tables[r.table]
  /\ r.table = "groups" => tables["records"] = r.before.tables["records"]
  /\ r.table = "records" =>
       tables["groups"] = IF Unsure(r.schema["groups"], r.before.tables["groups"])
                          THEN r.before.tables["groups"] ELSE r.schema["groups"].rows
Stored(r) ==
  /\ Normalized(r.schema) = r.schema
  /\ r.pc \in {"sync", "delete", "insert"} => Normalized(props) = r.schema

LEMMA InTermsOfRecord ==
  ASSUME NEW s
  PROVE  /\ TablesSoFar(s) <=> SoFar(sync[s])
         /\ ForTheStored(s) <=> Stored(sync[s])
         /\ TablesSoFar(s)' <=> SoFar(sync[s])'
         /\ ForTheStored(s)' <=> Stored(sync[s])'
  BY DEF TablesSoFar, SoFar, ForTheStored, Stored, Mine, Had, Result

\* With both tables done, the component and the tables are as RulesFollow says.
AsItSays(s) ==
  \A t \in Tables :
    tables'[t] = IF Unsure(Normalized(props)'[t], Had(s, t)) THEN Had(s, t)
                 ELSE Normalized(props)'[t].rows

\* On to the next table, or the end.
LEMMA TableDone ==
  ASSUME TypeOK, NEW s \in Syncers, Active(s), Stored(sync[s]), SoFar(sync[s]), NextTable(s),
         sync[s].pc \in {"sync", "delete", "insert"},
         UNCHANGED <<setting, props>>,
         tables' = [tables EXCEPT ![sync[s].table] = Result(s, sync[s].table)]
  PROVE  IF Active(s)' THEN Stored(sync[s])' /\ SoFar(sync[s])' ELSE AsItSays(s)
<1>0. /\ sync[s] \in SyncOK /\ sync \in [Syncers -> SyncOK] /\ tables \in [Tables -> SUBSET Rows]
      /\ sync[s].table \in Tables /\ UNCHANGED <<identity, props>>
  BY Turn DEF TypeOK, SyncOK, setting
<1>1. Normalized(props)' = sync[s].schema /\ \A p : Normalized(p)' = Normalized(p')
  BY <1>0 DEF Stored, Normalized
<1>2. CASE sync[s].table = "groups"
  <2>1. sync' = [sync EXCEPT ![s] = [@ EXCEPT !.pc = "sync", !.table = "records"]]
    BY <1>2 DEF NextTable
  <2>2. /\ sync'[s].pc = "sync" /\ sync'[s].table = "records"
        /\ sync'[s].schema = sync[s].schema /\ sync'[s].before = sync[s].before
    BY <1>0, <2>1 DEF SyncOK
  <2>3. tables'["groups"] = Result(s, "groups") /\ tables'["records"] = Had(s, "records")
    BY <1>0, <1>2 DEF SoFar, Had, Tables
  <2>4. SoFar(sync[s])'
    BY <2>2, <2>3 DEF SoFar, Result, Had, Unsure
  <2>5. Stored(sync[s])'
    BY <1>0, <2>2 DEF Stored, Normalized
  <2> QED
    BY <2>2, <2>4, <2>5 DEF Active, Steps
<1>3. CASE sync[s].table = "records"
  <2>1. ~ Active(s)'
    BY <1>3, Turn, EndedEffect DEF NextTable
  <2>2. tables'["groups"] = Result(s, "groups") /\ tables'["records"] = Result(s, "records")
    BY <1>0, <1>3 DEF SoFar, Result, Had, Tables
  <2>3. AsItSays(s)
    BY <1>1, <2>2 DEF AsItSays, Result, Tables
  <2> QED
    BY <2>1, <2>3
<1> QED
  BY <1>0, <1>2, <1>3 DEF Tables

LEMMA UndisturbedStep ==
  ASSUME TypeOK, NEW s \in Syncers, SyncStep(s), Stored(sync[s]), SoFar(sync[s])
  PROVE  IF Active(s)' THEN Stored(sync[s])' /\ SoFar(sync[s])' ELSE AsItSays(s)
<1> DEFINE t == sync[s].table
<1>0. /\ Active(s) /\ sync[s] \in SyncOK /\ sync \in [Syncers -> SyncOK] /\ t \in Tables
      /\ tables \in [Tables -> SUBSET Rows] /\ sync[s].pc \in {"sync", "delete", "insert"}
      /\ UNCHANGED <<setting, props>> /\ UNCHANGED identity
  <2>1. sync[s].pc \in {"sync", "delete", "insert"} /\ UNCHANGED <<setting, props>>
    BY DEF SyncStep, Keep, Replace, DeleteMany, InsertMany, InsertRejected, store
  <2>2. Active(s)
    BY <2>1 DEF Active, Steps
  <2> QED
    BY <2>1, <2>2, Turn DEF TypeOK, SyncOK, setting
<1>1. ASSUME NEW p \in {"delete", "insert"}, sync' = [sync EXCEPT ![s].pc = p]
      PROVE  /\ Active(s)' /\ sync'[s].pc = p /\ sync'[s].table = t
             /\ sync'[s].schema = sync[s].schema /\ sync'[s].before = sync[s].before
             /\ Stored(sync[s])'
  <2>1. /\ sync'[s].pc = p /\ sync'[s].table = t
        /\ sync'[s].schema = sync[s].schema /\ sync'[s].before = sync[s].before
    BY <1>0, <1>1 DEF SyncOK
  <2>2. Stored(sync[s])'
    BY <1>0, <2>1 DEF Stored, Normalized
  <2> QED
    BY <2>1, <2>2 DEF Active, Steps
<1>2. CASE Keep(s)
  <2>1. Result(s, t) = tables[t] /\ tables' = tables /\ NextTable(s)
    BY <1>0, <1>2 DEF Keep, SoFar, Result, Had, Mine, store
  <2>2. tables' = [tables EXCEPT ![t] = Result(s, t)]
    BY <1>0, <2>1
  <2> QED
    BY <1>0, <2>1, <2>2, TableDone
<1>3. CASE Replace(s)
  <2>1. tables' = tables /\ ~ Unsure(sync[s].schema[t], sync[s].before.tables[t])
        /\ sync' = [sync EXCEPT ![s].pc = "delete"] /\ sync[s].pc = "sync"
    BY <1>3 DEF Replace, SoFar, Mine, store
  <2>2. SoFar(sync[s])'
    BY <1>1, <2>1 DEF SoFar, Unsure
  <2> QED
    BY <1>1, <2>1, <2>2
<1>4. CASE DeleteMany(s)
  <2>1. tables' = [tables EXCEPT ![t] = {}] /\ sync[s].pc = "delete"
        /\ ~ Unsure(sync[s].schema[t], Had(s, t))
    BY <1>4 DEF DeleteMany, SoFar, Had
  <2>2. CASE Mine(s).rows = {}
    <3>1. Result(s, t) = {} /\ NextTable(s)
      BY <1>4, <2>1, <2>2 DEF DeleteMany, Result, Mine
    <3>2. tables' = [tables EXCEPT ![t] = Result(s, t)]
      BY <2>1, <3>1
    <3> QED
      BY <1>0, <3>1, <3>2, TableDone
  <2>3. CASE Mine(s).rows # {}
    <3>1. sync' = [sync EXCEPT ![s].pc = "insert"]
      BY <1>4, <2>3 DEF DeleteMany
    <3>2. /\ tables'[t] = {}
          /\ \A u \in Tables \ {t} : tables'[u] = tables[u]
      BY <1>0, <2>1
    <3>3. t = "groups" => tables'["records"] = sync[s].before.tables["records"]
      BY <3>2 DEF SoFar, Tables
    <3>4. t = "records" =>
            tables'["groups"] = IF Unsure(sync[s].schema["groups"], sync[s].before.tables["groups"])
                                THEN sync[s].before.tables["groups"]
                                ELSE sync[s].schema["groups"].rows
      BY <3>2 DEF SoFar, Tables
    <3>5. SoFar(sync[s])'
      BY <1>1, <2>1, <3>1, <3>2, <3>3, <3>4 DEF SoFar, Had, Unsure
    <3> QED
      BY <1>1, <3>1, <3>5
  <2> QED
    BY <2>2, <2>3
<1>5. ASSUME sync[s].pc = "insert" PROVE tables[t] = {} /\ Result(s, t) = Mine(s).rows
  BY <1>5 DEF SoFar, Result, Had, Mine
<1>6. CASE InsertMany(s)
  <2>1. tables' = [tables EXCEPT ![t] = @ \cup Mine(s).rows] /\ NextTable(s)
    BY <1>6 DEF InsertMany
  <2>2. tables' = [tables EXCEPT ![t] = Result(s, t)]
    BY <1>0, <1>5, <1>6, <2>1 DEF InsertMany
  <2> QED
    BY <1>0, <2>1, <2>2, TableDone
<1>7. CASE InsertRejected(s)
  BY <1>5, <1>7 DEF InsertRejected, Taken
<1> QED
  BY <1>2, <1>3, <1>4, <1>6, <1>7 DEF SyncStep

\* A step of a save before its synchronisation.
LEMMA RuntimeStep ==
  ASSUME TypeOK, NEW s \in Saves, Reload(s) \/ Rewrite(s), Stored(sync[s]), SoFar(sync[s])
  PROVE  Active(s)' /\ Stored(sync[s])' /\ SoFar(sync[s])'
<1>0. /\ s \in Syncers /\ Active(s) /\ sync[s] \in SyncOK /\ sync \in [Syncers -> SyncOK]
      /\ UNCHANGED <<identity, tables>>
  BY DEF Syncers, Reload, Rewrite, Active, Steps, setting, store, TypeOK, SyncOK
<1>1. CASE Reload(s)
  <2>1. /\ sync'[s].pc = "loaded" /\ sync'[s].table = sync[s].table
        /\ sync'[s].before = sync[s].before
        /\ sync'[s].schema = Normalized(Preserved(sync[s].schema))
        /\ sync[s].pc = "stored"
    BY <1>0, <1>1 DEF Reload, SyncOK
  <2>2. Preserved(sync[s].schema) \in Props
    BY <1>0 DEF Preserved, Props, TypeOK, SyncOK
  <2>3. Stored(sync[s])'
    BY <1>0, <2>1, <2>2, NormalizedTwice DEF Stored, Normalized
  <2> QED
    BY <1>0, <2>1, <2>3 DEF SoFar, Active, Steps
<1>2. CASE Rewrite(s)
  <2>1. /\ sync'[s].pc = "sync" /\ sync'[s].table = sync[s].table
        /\ sync'[s].before = sync[s].before /\ sync'[s].schema = sync[s].schema
        /\ sync[s].pc = "loaded" /\ props' = sync[s].schema
    BY <1>0, <1>2 DEF Rewrite, SyncOK
  <2>2. Stored(sync[s])'
    BY <1>0, <2>1 DEF Stored, Normalized
  <2> QED
    BY <1>0, <2>1, <2>2 DEF SoFar, Active, Steps
<1> QED
  BY <1>1, <1>2

\* A syncer's own step, and that it leaves the others alone.
LEMMA OwnStep ==
  ASSUME TypeOK, NEW s \in Syncers, Works(s)
  PROVE  /\ Active(s)
         /\ \A z \in Syncers \ {s} : sync'[z] = sync[z]
         /\ sync'[s].clear /\ Active(s)' => sync[s].clear
<1>1. Active(s)
  BY DEF Works, SyncStep, Keep, Replace, DeleteMany, InsertMany, InsertRejected, SyncFails, Reload,
     Rewrite, RuntimeFails, Active, Steps
<1>2. sync \in [Syncers -> SyncOK] /\ sync[s] \in SyncOK
  BY DEF TypeOK, SyncOK
<1>3. CASE Ended(s)
  BY <1>1, <1>3, Turn, EndedEffect
<1>4. CASE ~ Ended(s)
  <2>1. \/ \E p \in {"sync", "delete", "insert"} : sync' = [sync EXCEPT ![s].pc = p]
        \/ sync' = [sync EXCEPT ![s].pc = "sync", ![s].table = "records"]
        \/ \E q : sync' = [sync EXCEPT ![s].pc = "loaded", ![s].schema = q]
    BY <1>4 DEF Works, SyncStep, Keep, Replace, DeleteMany, InsertMany, InsertRejected, SyncFails,
       Reload, Rewrite, RuntimeFails, NextTable
  <2>2. sync'[s].clear = sync[s].clear /\ \A z \in Syncers \ {s} : sync'[z] = sync[z]
    BY <1>2, <2>1 DEF SyncOK
  <2> QED
    BY <1>1, <2>2
<1> QED
  BY <1>3, <1>4

LEMMA FaithfulStep ==
  ASSUME TypeOK, TypeOK', Faithful, Next
  PROVE  Faithful'
<1> SUFFICES ASSUME NEW s \in Syncers, Active(s)', sync'[s].clear
             PROVE  Alone(s)' /\ Stored(sync[s])' /\ SoFar(sync[s])'
  BY InTermsOfRecord DEF Faithful
<1>0. Active(s) /\ sync[s].clear => Alone(s) /\ Stored(sync[s]) /\ SoFar(sync[s])
  BY InTermsOfRecord DEF Faithful
<1>1. ASSUME NEW z \in Syncers, Works(z) PROVE Alone(s)' /\ Stored(sync[s])' /\ SoFar(sync[s])'
  <2>1. CASE z = s
    <3>1. Active(s) /\ sync[s].clear /\ Alone(s) /\ Stored(sync[s]) /\ SoFar(sync[s])
      BY <1>0, <1>1, <2>1, OwnStep
    <3>2. Alone(s)'
      BY <1>1, <2>1, <3>1, OwnStep DEF Alone, Active
    <3>3. ~ Ended(s)
      BY <3>1, Turn, EndedEffect
    <3>4. Stored(sync[s])' /\ SoFar(sync[s])'
      BY <1>1, <2>1, <3>1, <3>3, UndisturbedStep, RuntimeStep DEF Works, SyncFails, RuntimeFails
    <3> QED
      BY <3>2, <3>4
  <2>2. CASE z # s
    <3>1. sync'[s] = sync[s] /\ Active(z)
      BY <1>1, <2>2, OwnStep
    <3>2. Active(s) /\ sync[s].clear
      BY <3>1 DEF Active
    <3> QED
      BY <1>0, <2>2, <3>1, <3>2 DEF Alone
  <2> QED
    BY <2>1, <2>2
<1>2. ASSUME NEW z \in Saves, SaveBegins(z)
      PROVE  Alone(s)' /\ Stored(sync[s])' /\ SoFar(sync[s])'
  <2>1. PICK offer \in Offers, runtime \in BOOLEAN : Store(z, offer, runtime)
    BY <1>2 DEF SaveBegins
  <2>2. PICK schema \in Props, carried \in SUBSET Tables :
          /\ Normalized(schema) = schema /\ props' = schema
          /\ sync'[z].pc \in {"stored", "sync"} /\ sync'[z].table = "groups"
          /\ sync'[z].schema = schema /\ (sync'[z].clear => Nobody)
          /\ sync'[z].before.tables = tables
          /\ \A y \in Syncers \ {z} :
               sync'[y].pc = sync[y].pc /\ (sync'[y].clear => ~ Active(y))
    BY <2>1, StoreEffect
  <2>3. z \in Syncers /\ UNCHANGED <<identity, tables>> /\ sync \in [Syncers -> SyncOK]
    BY <2>1 DEF Store, Syncers, setting, TypeOK, SyncOK
  <2>4. \A y \in Syncers \ {z} : sync'[y].pc = sync[y].pc /\ (sync'[y].clear => ~ Active(y))
    BY <2>2
  <2>5. s = z
    BY <2>4 DEF Active
  <2>6. /\ sync'[s].pc \in {"stored", "sync"} /\ sync'[s].table = "groups"
        /\ sync'[s].schema = schema /\ sync'[s].before.tables = tables
        /\ Nobody
    BY <2>2, <2>5
  <2>7. Alone(s)'
    BY <2>4, <2>5, <2>6 DEF Alone, Active, Nobody
  <2>8. Stored(sync[s])'
    BY <2>2, <2>3, <2>6 DEF Stored, Normalized
  <2>9. SoFar(sync[s])'
    BY <2>3, <2>6 DEF SoFar
  <2> QED
    BY <2>7, <2>8, <2>9
<1>3. CASE BootReads
  <2>1. stored /\ s = "boot" /\ boot \in {"first", "second"} /\ UNCHANGED <<identity, props, tables>>
    <3>1. boot \in {"first", "second"} /\ UNCHANGED <<setting, store>>
      BY <1>3 DEF BootReads
    <3>2. \A z \in Saves : ~ Active(z)
      BY <3>1 DEF TypeOK, Active
    <3>3. \A z \in Syncers \ {"boot"} : sync'[z] = sync[z]
      BY <1>3, <3>1, EndedEffect DEF BootReads, Syncers, TypeOK
    <3>4. s = "boot"
      BY <3>2, <3>3 DEF Active, Syncers
    <3>5. stored
      BY <1>3, <3>1, <3>4, EndedEffect DEF BootReads
    <3> QED
      BY <3>1, <3>4, <3>5 DEF setting, store
  <2>2. sync' = [sync EXCEPT !["boot"] =
                   [Idle EXCEPT !.pc = "sync", !.schema = Normalized(props),
                                !.before = [props |-> props, tables |-> tables]]]
    BY <1>3, <2>1 DEF BootReads
  <2>3. /\ sync'[s].pc = "sync" /\ sync'[s].table = "groups"
        /\ sync'[s].schema = Normalized(props) /\ sync'[s].before.tables = tables
        /\ \A z \in Syncers \ {s} : sync'[z] = sync[z]
    BY <2>1, <2>2 DEF Idle, TypeOK, Syncers
  <2>4. \A z \in Syncers : Active(z) => z = "boot"
    BY <2>1 DEF TypeOK, Active, Syncers
  <2>5. Alone(s)'
    BY <2>1, <2>3, <2>4 DEF Alone, Active
  <2>6. Normalized(Normalized(props)) = Normalized(props)
    BY NormalizedTwice DEF TypeOK
  <2>7. Stored(sync[s])'
    BY <2>1, <2>3, <2>6 DEF Stored, Normalized
  <2>8. SoFar(sync[s])'
    BY <2>1, <2>3 DEF SoFar
  <2> QED
    BY <2>5, <2>7, <2>8
<1>4. CASE BootStart \/ BootReadFails \/ Install \/ Crash
  <2>1. boot' \in {"down", "first", "install", "second", "up"} /\ "boot" \in Syncers
    BY DEF TypeOK, Syncers
  <2>2. \A z \in Syncers : ~ Active(z)'
    <3>1. CASE BootStart \/ Install
      BY <3>1, NamesAssumption DEF BootStart, Install, TypeOK, Active, Syncers, Steps
    <3>2. CASE BootReadFails
      BY <2>1, <3>2, EndedEffect, NamesAssumption DEF BootReadFails, TypeOK, Active, Syncers
    <3>3. CASE Crash
      BY <3>3, NamesAssumption DEF Crash, TypeOK, Active, Syncers, Steps
    <3> QED
      BY <1>4, <3>1, <3>2, <3>3
  <2> QED
    BY <2>2
<1> QED
  BY <1>1, <1>2, <1>3, <1>4, Steppers

LEMMA RulesInvStep == RulesInv /\ [Next]_vars => RulesInv'
<1>1. ASSUME RulesInv, Next PROVE RulesInv'
  BY <1>1, RulesTypeStep, FaithfulStep DEF RulesInv
<1>2. ASSUME RulesInv, UNCHANGED vars PROVE RulesInv'
  <2>1. /\ UNCHANGED <<unique, identity, shipped, boot, stored, props, tables, sync>>
        /\ UNCHANGED <<edits, crashes, faults>>
    BY <1>2 DEF vars, setting, store, bounds
  <2>2. TypeOK'
    BY <1>2, <2>1 DEF RulesInv, TypeOK
  <2>3. \A s \in Syncers : (Active(s)' <=> Active(s)) /\ (Alone(s)' <=> Alone(s))
                           /\ (Stored(sync[s])' <=> Stored(sync[s]))
                           /\ (SoFar(sync[s])' <=> SoFar(sync[s]))
    BY <2>1 DEF Active, Alone, Stored, SoFar, Normalized, Unsure
  <2>4. Faithful'
    BY <1>2, <2>1, <2>3, InTermsOfRecord DEF RulesInv, Faithful
  <2> QED
    BY <2>2, <2>4 DEF RulesInv
<1> QED
  BY <1>1, <1>2

THEOREM RulesInvariant == Spec => []RulesInv
<1>1. Init => RulesInv
  <2> SUFFICES ASSUME Init PROVE RulesInv
    OBVIOUS
  <2>1. \A s \in Syncers : ~ Active(s)
    BY DEF Init, Active, Idle, Steps
  <2> QED
    BY <2>1, RulesInitType DEF RulesInv, Faithful
<1> QED
  BY <1>1, RulesInvStep, PTL DEF Spec

\* A save or a start that ran alone leaves in each table exactly the rules of the
\* component it leaves, or the rows it found where the property says nothing sure.
THEOREM RulesAreFollowed == Spec => RulesFollow
<1>1. ASSUME RulesInv, Next, NEW s \in Syncers, Ends(s), Undisturbed(s) PROVE AsItSays(s)
  <2>1. /\ TypeOK /\ Active(s) /\ ~ Active(s)' /\ faults' = faults /\ boot' # "down"
        /\ Stored(sync[s]) /\ SoFar(sync[s]) /\ Alone(s)
    BY <1>1, InTermsOfRecord DEF RulesInv, Faithful, Ends, Undisturbed
  <2>2. faults \in Int
    BY <2>1 DEF TypeOK
  <2>3. ASSUME NEW z \in Syncers, Works(z) PROVE AsItSays(s)
    <3>1. z = s
      BY <2>1, <2>3, OwnStep DEF Alone
    <3> QED
      BY <2>1, <2>2, <2>3, <3>1, UndisturbedStep, RuntimeStep DEF Works, SyncFails, RuntimeFails
  <2>4. ASSUME NEW z \in Saves, SaveBegins(z) PROVE FALSE
    <3>1. PICK offer \in Offers, runtime \in BOOLEAN : Store(z, offer, runtime)
      BY <2>4 DEF SaveBegins
    <3>2. z \in Syncers /\ ~ Active(z)
      BY <3>1 DEF Store, Active, Steps, Syncers
    <3>3. sync'[s].pc = sync[s].pc
      BY <2>1, <3>1, <3>2, StoreEffect
    <3> QED
      BY <2>1, <3>3 DEF Active
  <2>5. CASE BootReads \/ BootReadFails
    BY <2>1, <2>2, <2>5, Turn DEF BootReads, BootReadFails, Active, Steps, Syncers, TypeOK
  <2>6. CASE BootStart \/ Install \/ Crash
    BY <2>1, <2>6 DEF BootStart, Install, Crash, Active
  <2> QED
    BY <1>1, <2>3, <2>4, <2>5, <2>6, Steppers
<1>2. RulesInv /\ [Next]_vars =>
        [\A s \in Syncers : Ends(s) /\ Undisturbed(s) =>
           \A t \in Tables :
             LET says == Normalized(props)'[t]
                 had == sync[s].before.tables[t]
             IN tables'[t] = IF Unsure(says, had) THEN had ELSE says.rows]_vars
  BY <1>1 DEF AsItSays, Had
<1> QED
  BY <1>2, RulesInvariant, PTL DEF Spec, RulesFollow
=============================================================================
