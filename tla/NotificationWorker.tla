------------------------- MODULE NotificationWorker -------------------------
(***************************************************************************)
(* processNotificationQueueBatch (notification-worker.mjs).  A worker is   *)
(* a call of it: the loop of the scheduler script, the queue script, or an *)
(* organizer's POST .../outbound-queue/process.  Nothing keeps two of them *)
(* from working on one queue.                                              *)
(*                                                                         *)
(* For every notification it has listed, the worker looks at the delivery  *)
(* context outside any transaction and then, in one transaction, claims    *)
(* the notification, calls the provider and completes the notification.    *)
(* An error of one item ends the batch; the next call starts a new one.    *)
(***************************************************************************)
EXTENDS NotificationStore

CONSTANT Workers

ASSUME WorkerAssumption == Workers \subseteq Actors

VARIABLES
  batch,  \* what is left of the list of each worker
  late    \* messages each worker has sent since the consent is gone

workerVars == <<batch, late>>

WorkerInit ==
  /\ batch = [w \in Workers |-> {}]
  /\ late  = [w \in Workers |-> 0]

Final == {"sent", "failed", "cancelled"}

Ready == {n \in Notes : note[n].status = "queued" /\ note[n].due}

(* notifications.listQueued. *)
List(w) ==
  /\ pc[w] = "idle"
  /\ Ready # {}
  /\ batch' = [batch EXCEPT ![w] = Ready]
  /\ Goto(w, "pick")
  /\ UNCHANGED <<rowVars, consent, act, on, row, frow, sends, wins, faults, late>>

(* The next item of the list, in any order: it is read again.  What is     *)
(* final by now is skipped.                                                *)
Pick(w) ==
  /\ pc[w] = "pick"
  /\ \E n \in batch[w] :
       /\ batch' = [batch EXCEPT ![w] = @ \ {n}]
       /\ IF note[n].status \in Final THEN UNCHANGED <<pc, on>>
          ELSE Goto(w, "look") /\ on' = [on EXCEPT ![w] = n]
  /\ UNCHANGED <<rowVars, consent, act, row, frow, sends, wins, faults, late>>

EndBatch(w) ==
  /\ pc[w] = "pick"
  /\ batch[w] = {}
  /\ Goto(w, "idle")
  /\ UNCHANGED <<rowVars, consent, act, on, row, frow, sends, wins, faults, workerVars>>

(* resolveNotificationDeliveryContext: without consent, or when no         *)
(* follow-up points to the notification, it is cancelled instead of sent,  *)
(* by cancelNotificationForInvalidDelivery, which does not look at its     *)
(* status again.  A missing recipient is among the failures of Send.       *)
Deliverable_Unasked(n) == fup.note = n
Deliverable(n)         == Valid /\ fup.note = n

Look(w) ==
  /\ pc[w] = "look"
  /\ act' = [act EXCEPT ![w] = IF Deliverable(on[w]) THEN "send" ELSE "void"]
  /\ Goto(w, "load")
  /\ UNCHANGED <<rowVars, consent, on, row, frow, sends, wins, faults, workerVars>>

Refuse(w) ==
  /\ ClaimRefused(w)
  /\ batch' = [batch EXCEPT ![w] = {}]
  /\ UNCHANGED late

(* sendNotificationWithProvider, and the completion that its outcome calls *)
(* for: the row is in the worker's hands since the claim.                  *)
Send(w) ==
  /\ pc[w] = "send"
  /\ \E outcome \in Outcomes :
       /\ row' = [row EXCEPT ![w] = Completed(@, outcome)]
       /\ IF outcome = "sent"
            THEN /\ sends' = [sends EXCEPT ![on[w]] = @ + 1]
                 /\ late'  = [late EXCEPT ![w] = IF Valid THEN @ ELSE @ + 1]
            ELSE UNCHANGED <<sends, late>>
  /\ Goto(w, "fload")
  /\ UNCHANGED <<rowVars, consent, act, on, frow, wins, faults, batch>>

WorkerStep(w) ==
  \/ List(w) \/ Pick(w) \/ EndBatch(w) \/ Look(w) \/ Refuse(w) \/ Send(w)
  \/ Transaction(w, "pick") /\ UNCHANGED workerVars

WorkerAborts(w) ==
  /\ BreakDeadlock(w) \/ Crash(w)
  /\ batch' = [batch EXCEPT ![w] = {}]
  /\ UNCHANGED late
=============================================================================
