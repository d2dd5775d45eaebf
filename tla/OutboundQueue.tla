---------------------------- MODULE OutboundQueue ----------------------------
(***************************************************************************)
(* The outbound queue: workers send what vendors queue, while organizers   *)
(* operate the queue, the provider reports and the attendee withdraws.     *)
(***************************************************************************)
EXTENDS NotificationWorker, FollowupRoutes

ASSUME ActorAssumption ==
  /\ Actors = Workers \cup Notes \cup Organizers \cup Receivers \cup {Attendee}
  /\ Workers \cap (Notes \cup Organizers \cup Receivers \cup {Attendee}) = {}
  /\ Notes \cap (Organizers \cup Receivers \cup {Attendee}) = {}
  /\ Organizers \cap (Receivers \cup {Attendee}) = {}
  /\ Attendee \notin Receivers

vars == <<storeVars, workerVars, routeVars, receipts>>

Init == StoreInit /\ WorkerInit /\ RouteInit /\ ReceiptInit

Working(w)   == (WorkerStep(w) \/ WorkerAborts(w)) /\ UNCHANGED <<routeVars, receipts>>
Queueing(q)  == (StartQueue(q) \/ QueueStep(q)) /\ UNCHANGED <<workerVars, receipts>>
Operating(o) == (StartOperation(o) \/ OperationStep(o)) /\ UNCHANGED <<workerVars, receipts>>
Revoking     == (StartRevocation \/ RevocationStep) /\ UNCHANGED <<workerVars, receipts>>
Consenting   ==
  /\ CaptureConsent
  /\ late' = IF Valid' THEN [w \in Workers |-> 0] ELSE late
  /\ UNCHANGED <<batch, receipts>>
Receiving(p) == (StartReceipt(p) \/ ReceiptStep(p)) /\ UNCHANGED <<workerVars, routeVars>>

(* A request whose transaction Postgres aborts, or whose process dies, is  *)
(* over; nobody repeats it but its sender.                                 *)
Aborting(a) == BreakDeadlock(a) \/ Crash(a)
Losing(a)   == Aborting(a) /\ UNCHANGED <<workerVars, routeVars, receipts>>
Waiting     == TimePasses /\ UNCHANGED <<faults, workerVars, routeVars, receipts>>

Next ==
  \/ \E w \in Workers : Working(w)
  \/ \E q \in Notes : Queueing(q)
  \/ \E o \in Organizers : Operating(o)
  \/ \E p \in Receivers : Receiving(p)
  \/ \E a \in Actors \ Workers : Losing(a)
  \/ Revoking \/ Consenting \/ Waiting

Spec == Init /\ [][Next]_vars

(* The scheduler calls the worker again and again (and is restarted when   *)
(* an error ends it), a request under way goes on, Postgres breaks every   *)
(* deadlock and time passes.  Nobody has to start a request.               *)
Fairness ==
  /\ \A w \in Workers : WF_vars(WorkerStep(w) /\ UNCHANGED <<routeVars, receipts>>)
  /\ \A q \in Notes : WF_vars(QueueStep(q) /\ UNCHANGED <<workerVars, receipts>>)
  /\ \A o \in Organizers : WF_vars(OperationStep(o) /\ UNCHANGED <<workerVars, receipts>>)
  /\ \A p \in Receivers : WF_vars(ReceiptStep(p) /\ UNCHANGED <<workerVars, routeVars>>)
  /\ WF_vars(RevocationStep /\ UNCHANGED <<workerVars, receipts>>)
  /\ \A a \in Actors : WF_vars(BreakDeadlock(a) /\ Next)
  /\ WF_vars(Waiting)

FairSpec == Spec /\ Fairness

-----------------------------------------------------------------------------
QueueTypeOk ==
  /\ note \in [Notes -> NoteRows] /\ fup \in FupRows
  /\ consent \in [vendor : BOOLEAN, channel : BOOLEAN]
  /\ noteLine \in [Notes -> Seq(Actors)] /\ fupLine \in Seq(Actors)
  /\ on \in [Actors -> Notes \cup {None}]
  /\ row \in [Actors -> NoteRows] /\ frow \in [Actors -> FupRows]
  /\ sends \in [Notes -> Nat] /\ wins \in [Notes -> Nat]
  /\ batch \in [Workers -> SUBSET Notes] /\ late \in [Workers -> Nat]
  /\ receipts \subseteq Notes \X ReceiptKinds

(* No notification, and no follow-up, is shown as sent that has not been   *)
(* sent, and no attempt is recorded as sent twice for one sending: copies  *)
(* written back over newer rows do not invent a delivery.                  *)
NothingClaimedUnsent ==
  /\ \A n \in Notes : note[n].status = "sent" => sends[n] > 0
  /\ \A n \in Notes : wins[n] <= sends[n]
  /\ fup.status = "sent" => sends[fup.note] > 0

(* Once the consent is gone, by whatever route, a worker sends at most the *)
(* one message whose consent it had looked up before.                      *)
LateSends == \A w \in Workers : late[w] <= 1

(* A crash never leaves a notification in sending, which no handler would  *)
(* take up again.                                                          *)
NeverStranded == \A n \in Notes : note[n].status # "sending"

(* What the dead-letter list shows has used up its attempts and is not     *)
(* waiting to be sent.                                                     *)
DeadLettersAreExhausted ==
  \A n \in Notes : note[n].spent => note[n].tries >= MaxAttempts /\ note[n].status # "queued"

(* The two rows of a message keep in step, whatever overlaps, deadlocks or *)
(* dies: a follow-up shown as queued or sent has a notification that is,   *)
(* and no notification is left in the queue of a follow-up that is sent,   *)
(* failed or cancelled.  A webhook writes the two without a transaction,   *)
(* and this is over with the first receipt.                                *)
FollowupInStep ==
  receipts = {} /\ fup.note # None =>
    /\ fup.status \in {"queued", "sent"} => note[fup.note].status = fup.status
    /\ fup.status \in {"sent", "failed", "cancelled"} => note[fup.note].status # "queued"

(* The queue settles: when requests stop coming nothing stays in it, though  *)
(* workers overlap, a revocation that takes the rows in the other order    *)
(* makes them deadlock, and stale copies are written back.                 *)
QueueSettles == <>[](\A n \in Notes : note[n].status # "queued")

-----------------------------------------------------------------------------
(* "Notification is already in a final state" (notification-worker.mjs:323):*)
(* no worker claims a notification that is sent, failed or cancelled.      *)
ClaimsNothingFinal ==
  [][\A w \in Workers : pc[w] = "nwrite" /\ pc'[w] = "send" => note[on[w]].status \notin Final]_vars

(* "preserves notification attempts" (foundation.test.mjs:521): every      *)
(* message that has left is among the attempts of its notification.        *)
AtRest == \A a \in Actors : pc[a] = "idle"

EveryAttemptTracked == AtRest => \A n \in Notes : wins[n] = sends[n]
=============================================================================
